------------------------- MODULE DesignerJobsProofs -------------------------
(***************************************************************************)
(* The safety of DesignerJobs for any number of pages, workers, sweeps,    *)
(* rows, slices and faults.                                                *)
(*                                                                         *)
(* The argument: only a pending row is claimed, so a row has one runner    *)
(* (RunnersApart); a sweep that acts beside it makes the row doubtful, so  *)
(* a row that is not doubtful is in one hand, which knows what the row is  *)
(* (HandsKnown); a hand inserts a child when the row is running, and no    *)
(* running row has a child that its hand is not about to point it to.      *)
(***************************************************************************)
EXTENDS DesignerJobs, TLAPS, WellFoundedInduction

USE DEF rows, clock, runners, reapers, history

Inductive == DesignerInv /\ ChildrenFound /\ EndingsExplained

\* The invariants see only a part of the state each.
LEMMA ApartFrame ==
  ASSUME RunnersApart, UNCHANGED <<created, status, pc, cand, todo, waiting, silent, rpc, rcand>>
  PROVE  RunnersApart'
BY DEF RunnersApart, AtWork

LEMMA LineageFrame ==
  ASSUME Lineage, UNCHANGED <<created, status, parent, depth, next, pc, cand, child, rpc, rcand, rchild>>
  PROVE  Lineage'
BY DEF Lineage

LEMMA HandsFrame ==
  ASSUME HandsKnown, UNCHANGED <<status, next, pc, cand, rest, rpc, rcand, verdict, doubtful>>
  PROVE  HandsKnown'
BY DEF HandsKnown, AtWork

LEMMA FoundFrame ==
  ASSUME ChildrenFound, UNCHANGED <<parent, next, doubtful, pc, cand, child, rpc, rcand, rchild>>
  PROVE  ChildrenFound'
BY DEF ChildrenFound, Pointing

LEMMA EndingsFrame ==
  ASSUME EndingsExplained, UNCHANGED <<status, next, verdict, doubtful, aged>>
  PROVE  EndingsExplained'
BY DEF EndingsExplained

\* A child is found by the pointer, by a runner or by a sweep.
Found(c) ==
  \/ next[parent[c]] = c
  \/ \E p \in Runner : pc[p] \in {"midmark", "mark"} /\ cand[p] = parent[c] /\ child[p] = c
  \/ \E r \in Reaper : rpc[r] = "mark" /\ rcand[r] = parent[c] /\ rchild[r] = c

LEMMA FoundMeans ==
  ASSUME ChildrenFound, NEW c \in Job, parent[c] # NoJob, parent[c] \notin doubtful
  PROVE  Found(c)
BY DEF ChildrenFound, Pointing, Found

LEMMA FoundSuffices ==
  ASSUME \A c \in Job : parent'[c] # NoJob /\ parent'[c] \notin doubtful' => Found(c)'
  PROVE  ChildrenFound'
BY DEF ChildrenFound, Pointing, Found

\* Who points to a row that is not doubtful is the only one to hold it.
LEMMA NoOtherHand ==
  ASSUME Inductive, NEW j \in Job, j \notin doubtful, status[j] # "done",
         \A p \in Runner : pc[p] \in {"midmark", "mark"} => cand[p] # j,
         \A r \in Reaper : rpc[r] = "mark" => rcand[r] # j
  PROVE  \A c \in Job : parent[c] # j
<1>1. SUFFICES ASSUME NEW c \in Job, parent[c] = j PROVE FALSE
  OBVIOUS
<1>2. j # NoJob
  BY DEF Job, NoJob
<1>3. Found(c)
  BY <1>1, <1>2, FoundMeans DEF Inductive
<1>4. next[j] # c
  BY <1>1 DEF Inductive, DesignerInv, Lineage, Job, NoJob
<1>5. QED
  BY <1>1, <1>3, <1>4 DEF Found

\* A runner has its row for itself, unless the row is doubtful among runners too.
LEMMA InHand ==
  ASSUME Inductive, NEW p \in Runner, AtWork(p)
  PROVE  /\ cand[p] \in Job /\ cand[p] # NoJob /\ cand[p] <= created
         /\ status[cand[p]] \notin {"none", "pending"}
         /\ \A q \in Runner : AtWork(q) /\ cand[q] = cand[p] => q = p
         /\ cand[p] \notin doubtful => \A r \in Reaper : rpc[r] \in {"mark", "fail"} => rcand[r] # cand[p]
         /\ cand[p] \notin doubtful /\ rest[p] # "child" =>
              status[cand[p]] = "running" /\ next[cand[p]] = NoJob
         /\ cand[p] \notin doubtful /\ rest[p] = "child" => next[cand[p]] # NoJob
BY DesignerAssumption DEF Inductive, DesignerInv, DesignerTypeOK, RunnersApart, Lineage, HandsKnown, AtWork,
   Job, NoJob, PC

\* So does a sweep that is about to close a row.
LEMMA UnderReap ==
  ASSUME Inductive, NEW r \in Reaper, rpc[r] \in {"mark", "fail"}
  PROVE  /\ rcand[r] \in Job /\ rcand[r] # NoJob /\ rcand[r] <= created
         /\ rcand[r] \notin doubtful =>
              /\ status[rcand[r]] = "running" /\ next[rcand[r]] = NoJob
              /\ \A p \in Runner : AtWork(p) => cand[p] # rcand[r]
              /\ \A q \in Reaper : rpc[q] \in {"mark", "fail"} /\ rcand[q] = rcand[r] => q = r
BY DesignerAssumption DEF Inductive, DesignerInv, DesignerTypeOK, RunnersApart, Lineage, HandsKnown,
   Job, NoJob

\* Pointers, and children about to be pointed to, are rows of the table.
LEMMA InTable ==
  ASSUME Inductive
  PROVE  /\ 1..created \subseteq Job /\ created \in Nat /\ created <= MaxJobs
         /\ created < MaxJobs => created + 1 \in Job
         /\ \A j \in Job : next[j] # NoJob => next[j] \in Job /\ next[j] <= created
         /\ \A p \in Runner : pc[p] \in {"midmark", "mark"} => child[p] \in Job /\ child[p] <= created
         /\ \A r \in Reaper : rpc[r] = "mark" => rchild[r] \in Job /\ rchild[r] <= created
<1>1. /\ 1..created \subseteq Job /\ created \in Nat /\ created <= MaxJobs
      /\ created < MaxJobs => created + 1 \in Job
  BY DesignerAssumption DEF Inductive, DesignerInv, DesignerTypeOK, Job
<1>2. ASSUME NEW c \in Job, parent[c] # NoJob PROVE c <= created
  BY <1>2 DEF Inductive, DesignerInv, Lineage
<1>3. ASSUME NEW j \in Job, next[j] # NoJob PROVE next[j] \in Job /\ next[j] <= created
  BY <1>2, <1>3 DEF Inductive, DesignerInv, DesignerTypeOK, Lineage, Job, NoJob
<1>4. ASSUME NEW p \in Runner, pc[p] \in {"midmark", "mark"}
      PROVE  child[p] \in Job /\ child[p] <= created
  BY <1>2, <1>4, InHand DEF Inductive, DesignerInv, DesignerTypeOK, Lineage, AtWork
<1>5. ASSUME NEW r \in Reaper, rpc[r] = "mark" PROVE rchild[r] \in Job /\ rchild[r] <= created
  BY <1>2, <1>5, UnderReap DEF Inductive, DesignerInv, DesignerTypeOK, Lineage
<1>6. QED
  BY <1>1, <1>3, <1>4, <1>5

\* A set of rows that is not empty has an oldest one, which First returns.
LEMMA OldestOfAll ==
  ASSUME NEW S \in SUBSET Job, S # {}
  PROVE  First(S) \in S
<1>1. S \subseteq Nat
  BY DesignerAssumption DEF Job
<1>2. PICK x \in S : \A y \in S : <<y, x>> \notin OpToRel(<, Nat)
  BY <1>1, WFMin, NatLessThanWellFounded, Zenon
<1>3. ASSUME NEW y \in S PROVE x <= y
  <2>1. x \in Nat /\ y \in Nat
    BY <1>1, Zenon
  <2>2. ~ (y < x)
    BY <2>1, <1>2, Zenon DEF OpToRel
  <2>3. QED
    BY <2>1, <2>2
<1>4. QED
  BY <1>3 DEF First

\* A sweep looks at rows of the table.
LEMMA ListedFirst ==
  ASSUME Inductive, NEW r \in Reaper, Listed(r) # {}
  PROVE  /\ First(Listed(r)) \in Listed(r) /\ First(Listed(r)) \in 1..created
         /\ First(Listed(r)) \in Job /\ status[First(Listed(r))] # "none"
<1>1. Listed(r) \subseteq 1..created /\ 1..created \subseteq Job
  BY InTable DEF Listed, Inductive, DesignerInv, RunnersApart
<1>2. First(Listed(r)) \in Listed(r)
  BY <1>1, OldestOfAll
<1>3. \A j \in 1..created : ~(j > created)
  BY InTable
<1>4. QED
  BY <1>1, <1>2, <1>3 DEF Inductive, DesignerInv, RunnersApart

LEMMA DesignerStart == Init => Inductive
BY DesignerAssumption DEF Init, Inductive, DesignerInv, DesignerTypeOK, RunnersApart, Lineage, HandsKnown,
   ChildrenFound, Pointing, EndingsExplained, Job, NoJob, AtWork, PC, Status, Verdict

\* A page inserts its row.
LEMMA SubmitKeeps ==
  ASSUME Inductive, NEW p \in Runner,
         NEW b \in BOOLEAN, Submit(p, b)
  PROVE  Inductive'
<1>1. ASSUME
         /\ pc[p] = "idle"
         /\ created < MaxJobs
         /\ created' = created + 1
         /\ status' = [status EXCEPT ![created + 1] = "running"]
         /\ ugc' \subseteq Job
         /\ parent' = [parent EXCEPT ![created + 1] = NoJob]
         /\ depth' = [depth EXCEPT ![created + 1] = 0]
         /\ pc' = [pc EXCEPT ![p] = "slice"]
         /\ cand' = [cand EXCEPT ![p] = created + 1]
         /\ UNCHANGED <<next, stale, aged, todo, rest, child, rpc, rcand, rchild, waiting, silent,
            verdict, doubtful, faults>>
       PROVE  Inductive'
  <2>1. DesignerTypeOK'
    BY <1>1, DesignerAssumption DEF Inductive, DesignerInv, DesignerTypeOK, RunnersApart, AtWork,
       PC, Status, Verdict, Job, NoJob
  <2>2. RunnersApart'
    BY <1>1, DesignerAssumption DEF Inductive, DesignerInv, DesignerTypeOK, RunnersApart, AtWork,
       Job, NoJob
  <2>3. Lineage'
    BY <1>1, DesignerAssumption DEF Inductive, DesignerInv, DesignerTypeOK, Lineage, RunnersApart,
       Job, NoJob
  <2>4. HandsKnown'
    BY <1>1, DesignerAssumption DEF Inductive, DesignerInv, DesignerTypeOK, HandsKnown,
       RunnersApart, Lineage, AtWork, Job, NoJob
  <2>5. ChildrenFound'
    <3>1. SUFFICES ASSUME NEW c \in Job, parent'[c] # NoJob, parent'[c] \notin doubtful'
                   PROVE  Found(c)'
      BY FoundSuffices
    <3>2. parent'[c] = parent[c] /\ parent[c] # NoJob /\ parent[c] \notin doubtful
      BY <1>1, <3>1 DEF Inductive, DesignerInv, DesignerTypeOK, Job, NoJob
    <3>3. Found(c) /\ parent[c] \in Job
      BY <3>2, FoundMeans DEF Inductive, DesignerInv, DesignerTypeOK
    <3>4. QED
      <4>1. CASE next[parent[c]] = c
        BY <1>1, <3>1, <3>2, <3>3, <4>1 DEF Inductive, DesignerInv, DesignerTypeOK, RunnersApart,
           Lineage, HandsKnown, AtWork, Found, Job, NoJob
      <4>2. CASE \E x \in Runner : pc[x] \in {"midmark", "mark"} /\ cand[x] = parent[c] /\ child[x] = c
        BY <1>1, <3>1, <3>2, <3>3, <4>2 DEF Inductive, DesignerInv, DesignerTypeOK, RunnersApart,
           Lineage, HandsKnown, AtWork, Found, Job, NoJob
      <4>3. CASE \E q \in Reaper : rpc[q] = "mark" /\ rcand[q] = parent[c] /\ rchild[q] = c
        BY <1>1, <3>1, <3>2, <3>3, <4>3 DEF Inductive, DesignerInv, DesignerTypeOK, RunnersApart,
           Lineage, HandsKnown, AtWork, Found, Job, NoJob
      <4>4. QED
        BY <3>1, <3>2, <3>3, <4>1, <4>2, <4>3 DEF Found
  <2>6. EndingsExplained'
    BY <1>1, DesignerAssumption DEF Inductive, DesignerInv, DesignerTypeOK, EndingsExplained,
       RunnersApart, HandsKnown, AtWork, Job, NoJob
  <2>7. QED
    BY <2>1, <2>2, <2>3, <2>4, <2>5, <2>6 DEF Inductive, DesignerInv
<1>2. QED
  <2>1. created < MaxJobs /\ created + 1 \in Job /\ ugc \subseteq Job
    BY DesignerAssumption DEF Inductive, DesignerInv, DesignerTypeOK, Submit, Job
  <2>2. ugc' \subseteq Job
    BY <2>1 DEF Submit, Insert
  <2>3. QED
    BY <2>1, <2>2, <1>1 DEF Submit, Insert

\* A worker on its way to a row.
LEMMA ClaimingKeeps ==
  ASSUME Inductive, NEW p \in Runner,
         StartDrain(p) \/ Consider(p) \/ Claim(p) \/ NothingToClaim(p)
  PROVE  Inductive'
<1>1. ASSUME
         /\ pc[p] = "idle"
         /\ pc' = [pc EXCEPT ![p] = "scan"]
         /\ todo' \in [Runner -> SUBSET Job] /\ \A q \in Runner : todo'[q] \subseteq 1..created
         /\ UNCHANGED <<created, status, ugc, parent, depth, next, stale, aged, cand, rest, child,
            rpc, rcand, rchild, waiting, silent, verdict, doubtful, faults>>
       PROVE  Inductive'
  <2>1. DesignerTypeOK'
    BY <1>1, DesignerAssumption DEF Inductive, DesignerInv, DesignerTypeOK, RunnersApart, AtWork,
       PC, Status, Verdict, Job, NoJob
  <2>2. RunnersApart'
    BY <1>1, DesignerAssumption DEF Inductive, DesignerInv, DesignerTypeOK, RunnersApart, AtWork,
       Job, NoJob
  <2>3. Lineage'
    BY <1>1, DesignerAssumption DEF Inductive, DesignerInv, DesignerTypeOK, Lineage, RunnersApart,
       Job, NoJob
  <2>4. HandsKnown'
    BY <1>1, DesignerAssumption DEF Inductive, DesignerInv, DesignerTypeOK, HandsKnown,
       RunnersApart, Lineage, AtWork, Job, NoJob
  <2>5. ChildrenFound'
    <3>1. SUFFICES ASSUME NEW c \in Job, parent'[c] # NoJob, parent'[c] \notin doubtful'
                   PROVE  Found(c)'
      BY FoundSuffices
    <3>2. parent'[c] = parent[c] /\ parent[c] # NoJob /\ parent[c] \notin doubtful
      BY <1>1, <3>1 DEF Inductive, DesignerInv, DesignerTypeOK, Job, NoJob
    <3>3. Found(c) /\ parent[c] \in Job
      BY <3>2, FoundMeans DEF Inductive, DesignerInv, DesignerTypeOK
    <3>4. QED
      BY <1>1, <3>1, <3>2, <3>3, DesignerAssumption DEF Inductive, DesignerInv, DesignerTypeOK,
         RunnersApart, Lineage, HandsKnown, AtWork, Found, Job, NoJob
  <2>6. EndingsExplained'
    BY <1>1, EndingsFrame DEF Inductive, DesignerInv
  <2>7. QED
    BY <2>1, <2>2, <2>3, <2>4, <2>5, <2>6 DEF Inductive, DesignerInv
<1>2. ASSUME
         /\ pc[p] = "scan"
         /\ todo' \in [Runner -> SUBSET Job] /\ \A q \in Runner : todo'[q] \subseteq 1..created
         /\ UNCHANGED <<created, status, ugc, parent, depth, next, stale, aged, pc, cand, rest,
            child, rpc, rcand, rchild, waiting, silent, verdict, doubtful, faults>>
       PROVE  Inductive'
  <2>1. DesignerTypeOK'
    BY <1>2, DesignerAssumption DEF Inductive, DesignerInv, DesignerTypeOK, RunnersApart, AtWork,
       PC, Status, Verdict, Job, NoJob
  <2>2. RunnersApart'
    BY <1>2, DesignerAssumption DEF Inductive, DesignerInv, DesignerTypeOK, RunnersApart, AtWork,
       Job, NoJob
  <2>3. Lineage'
    BY <1>2, LineageFrame DEF Inductive, DesignerInv
  <2>4. HandsKnown'
    BY <1>2, HandsFrame DEF Inductive, DesignerInv
  <2>5. ChildrenFound'
    BY <1>2, FoundFrame DEF Inductive, DesignerInv
  <2>6. EndingsExplained'
    BY <1>2, EndingsFrame DEF Inductive, DesignerInv
  <2>7. QED
    BY <2>1, <2>2, <2>3, <2>4, <2>5, <2>6 DEF Inductive, DesignerInv
<1>3. ASSUME NEW j \in 1..created,
         /\ pc[p] = "scan"
         /\ pc' = [pc EXCEPT ![p] = "claim"]
         /\ cand' = [cand EXCEPT ![p] = j]
         /\ todo' \in [Runner -> SUBSET Job] /\ \A q \in Runner : todo'[q] \subseteq 1..created
         /\ UNCHANGED <<created, status, ugc, parent, depth, next, stale, aged, rest, child, rpc,
            rcand, rchild, waiting, silent, verdict, doubtful, faults>>
       PROVE  Inductive'
  <2>1. DesignerTypeOK'
    BY <1>3, InTable DEF Inductive, DesignerInv, DesignerTypeOK, PC
  <2>2. RunnersApart'
    BY <1>3, DesignerAssumption DEF Inductive, DesignerInv, DesignerTypeOK, RunnersApart, AtWork,
       Job, NoJob
  <2>3. Lineage'
    BY <1>3, DesignerAssumption DEF Inductive, DesignerInv, DesignerTypeOK, Lineage, RunnersApart,
       Job, NoJob
  <2>4. HandsKnown'
    BY <1>3, DesignerAssumption DEF Inductive, DesignerInv, DesignerTypeOK, HandsKnown,
       RunnersApart, Lineage, AtWork, Job, NoJob
  <2>5. ChildrenFound'
    <3>1. SUFFICES ASSUME NEW c \in Job, parent'[c] # NoJob, parent'[c] \notin doubtful'
                   PROVE  Found(c)'
      BY FoundSuffices
    <3>2. parent'[c] = parent[c] /\ parent[c] # NoJob /\ parent[c] \notin doubtful
      BY <1>3, <3>1 DEF Inductive, DesignerInv, DesignerTypeOK, Job, NoJob
    <3>3. Found(c) /\ parent[c] \in Job
      BY <3>2, FoundMeans DEF Inductive, DesignerInv, DesignerTypeOK
    <3>4. QED
      BY <1>3, <3>1, <3>2, <3>3, DesignerAssumption DEF Inductive, DesignerInv, DesignerTypeOK,
         RunnersApart, Lineage, HandsKnown, AtWork, Found, Job, NoJob
  <2>6. EndingsExplained'
    BY <1>3, EndingsFrame DEF Inductive, DesignerInv
  <2>7. QED
    BY <2>1, <2>2, <2>3, <2>4, <2>5, <2>6 DEF Inductive, DesignerInv
<1>4. ASSUME
         /\ pc[p] = "claim"
         /\ status[cand[p]] = "pending"
         /\ status' = [status EXCEPT ![cand[p]] = "running"]
         /\ stale' \subseteq Job
         /\ pc' = [pc EXCEPT ![p] = "slice"]
         /\ todo' = [todo EXCEPT ![p] = {}]
         /\ UNCHANGED <<created, ugc, parent, depth, next, aged, cand, rest, child, rpc, rcand,
            rchild, waiting, silent, verdict, doubtful, faults>>
       PROVE  Inductive'
  <2>1. DesignerTypeOK'
    BY <1>4, DesignerAssumption DEF Inductive, DesignerInv, DesignerTypeOK, RunnersApart, AtWork,
       PC, Status, Verdict, Job, NoJob
  <2>2. RunnersApart'
    BY <1>4, DesignerAssumption DEF Inductive, DesignerInv, DesignerTypeOK, RunnersApart, AtWork,
       Job, NoJob
  <2>3. Lineage'
    BY <1>4, DesignerAssumption DEF Inductive, DesignerInv, DesignerTypeOK, Lineage, RunnersApart,
       Job, NoJob
  <2>4. HandsKnown'
    BY <1>4, DesignerAssumption DEF Inductive, DesignerInv, DesignerTypeOK, HandsKnown,
       RunnersApart, Lineage, AtWork, Job, NoJob
  <2>5. ChildrenFound'
    <3>1. SUFFICES ASSUME NEW c \in Job, parent'[c] # NoJob, parent'[c] \notin doubtful'
                   PROVE  Found(c)'
      BY FoundSuffices
    <3>2. parent'[c] = parent[c] /\ parent[c] # NoJob /\ parent[c] \notin doubtful
      BY <1>4, <3>1 DEF Inductive, DesignerInv, DesignerTypeOK, Job, NoJob
    <3>3. Found(c) /\ parent[c] \in Job
      BY <3>2, FoundMeans DEF Inductive, DesignerInv, DesignerTypeOK
    <3>4. QED
      BY <1>4, <3>1, <3>2, <3>3, DesignerAssumption DEF Inductive, DesignerInv, DesignerTypeOK,
         RunnersApart, Lineage, HandsKnown, AtWork, Found, Job, NoJob
  <2>6. EndingsExplained'
    BY <1>4, DesignerAssumption DEF Inductive, DesignerInv, DesignerTypeOK, EndingsExplained,
       RunnersApart, HandsKnown, AtWork, Job, NoJob
  <2>7. QED
    BY <2>1, <2>2, <2>3, <2>4, <2>5, <2>6 DEF Inductive, DesignerInv
<1>5. ASSUME
         /\ pc[p] = "claim"
         /\ pc' = [pc EXCEPT ![p] = "scan"]
         /\ cand' = [cand EXCEPT ![p] = NoJob]
         /\ UNCHANGED <<created, status, ugc, parent, depth, next, stale, aged, todo, rest, child,
            rpc, rcand, rchild, waiting, silent, verdict, doubtful, faults>>
       PROVE  Inductive'
  <2>1. DesignerTypeOK'
    BY <1>5, DesignerAssumption DEF Inductive, DesignerInv, DesignerTypeOK, RunnersApart, AtWork,
       PC, Status, Verdict, Job, NoJob
  <2>2. RunnersApart'
    BY <1>5, DesignerAssumption DEF Inductive, DesignerInv, DesignerTypeOK, RunnersApart, AtWork,
       Job, NoJob
  <2>3. Lineage'
    BY <1>5, DesignerAssumption DEF Inductive, DesignerInv, DesignerTypeOK, Lineage, RunnersApart,
       Job, NoJob
  <2>4. HandsKnown'
    BY <1>5, DesignerAssumption DEF Inductive, DesignerInv, DesignerTypeOK, HandsKnown,
       RunnersApart, Lineage, AtWork, Job, NoJob
  <2>5. ChildrenFound'
    <3>1. SUFFICES ASSUME NEW c \in Job, parent'[c] # NoJob, parent'[c] \notin doubtful'
                   PROVE  Found(c)'
      BY FoundSuffices
    <3>2. parent'[c] = parent[c] /\ parent[c] # NoJob /\ parent[c] \notin doubtful
      BY <1>5, <3>1 DEF Inductive, DesignerInv, DesignerTypeOK, Job, NoJob
    <3>3. Found(c) /\ parent[c] \in Job
      BY <3>2, FoundMeans DEF Inductive, DesignerInv, DesignerTypeOK
    <3>4. QED
      BY <1>5, <3>1, <3>2, <3>3, DesignerAssumption DEF Inductive, DesignerInv, DesignerTypeOK,
         RunnersApart, Lineage, HandsKnown, AtWork, Found, Job, NoJob
  <2>6. EndingsExplained'
    BY <1>5, EndingsFrame DEF Inductive, DesignerInv
  <2>7. QED
    BY <2>1, <2>2, <2>3, <2>4, <2>5, <2>6 DEF Inductive, DesignerInv
<1>6. ASSUME
         /\ pc[p] = "scan"
         /\ pc' = [pc EXCEPT ![p] = "idle"]
         /\ UNCHANGED <<created, status, ugc, parent, depth, next, stale, aged, cand, todo, rest,
            child, rpc, rcand, rchild, waiting, silent, verdict, doubtful, faults>>
       PROVE  Inductive'
  <2>1. DesignerTypeOK'
    BY <1>6, DesignerAssumption DEF Inductive, DesignerInv, DesignerTypeOK, RunnersApart, AtWork,
       PC, Status, Verdict, Job, NoJob
  <2>2. RunnersApart'
    BY <1>6, DesignerAssumption DEF Inductive, DesignerInv, DesignerTypeOK, RunnersApart, AtWork,
       Job, NoJob
  <2>3. Lineage'
    BY <1>6, DesignerAssumption DEF Inductive, DesignerInv, DesignerTypeOK, Lineage, RunnersApart,
       Job, NoJob
  <2>4. HandsKnown'
    BY <1>6, DesignerAssumption DEF Inductive, DesignerInv, DesignerTypeOK, HandsKnown,
       RunnersApart, Lineage, AtWork, Job, NoJob
  <2>5. ChildrenFound'
    <3>1. SUFFICES ASSUME NEW c \in Job, parent'[c] # NoJob, parent'[c] \notin doubtful'
                   PROVE  Found(c)'
      BY FoundSuffices
    <3>2. parent'[c] = parent[c] /\ parent[c] # NoJob /\ parent[c] \notin doubtful
      BY <1>6, <3>1 DEF Inductive, DesignerInv, DesignerTypeOK, Job, NoJob
    <3>3. Found(c) /\ parent[c] \in Job
      BY <3>2, FoundMeans DEF Inductive, DesignerInv, DesignerTypeOK
    <3>4. QED
      BY <1>6, <3>1, <3>2, <3>3, DesignerAssumption DEF Inductive, DesignerInv, DesignerTypeOK,
         RunnersApart, Lineage, HandsKnown, AtWork, Found, Job, NoJob
  <2>6. EndingsExplained'
    BY <1>6, EndingsFrame DEF Inductive, DesignerInv
  <2>7. QED
    BY <2>1, <2>2, <2>3, <2>4, <2>5, <2>6 DEF Inductive, DesignerInv
<1>7. QED
  <2>1. CASE StartDrain(p)
    <3>1. Oldest(Pending, Window) \subseteq Job /\ Oldest(Pending, Window) \subseteq 1..created
      BY DEF Oldest, Pending, Inductive, DesignerInv, DesignerTypeOK, RunnersApart, Job
    <3>2. /\ todo' \in [Runner -> SUBSET Job]
          /\ \A q \in Runner : todo'[q] \subseteq 1..created
      BY <2>1, <3>1 DEF StartDrain, Inductive, DesignerInv, DesignerTypeOK, RunnersApart
    <3>3. QED
      BY <1>1, <2>1, <3>2 DEF StartDrain
  <2>2. CASE Consider(p)
    <3>1. /\ todo' \in [Runner -> SUBSET Job]
          /\ \A q \in Runner : todo'[q] \subseteq 1..created
      BY <2>2 DEF Consider, Inductive, DesignerInv, DesignerTypeOK, RunnersApart
    <3>2. First(todo[p]) \in 1..created
      BY <2>2, OldestOfAll DEF Consider, Inductive, DesignerInv, DesignerTypeOK, RunnersApart
    <3>3. CASE First(todo[p]) \in aged
      BY <1>2, <2>2, <3>1, <3>3 DEF Consider
    <3>4. CASE First(todo[p]) \notin aged
      BY <1>3, <2>2, <3>1, <3>2, <3>4 DEF Consider
    <3>5. QED
      BY <3>3, <3>4
  <2>3. CASE Claim(p)
    <3>1. CASE Claimable(cand[p])
      BY <1>4, <2>3, <3>1 DEF Claim, Claimable, Inductive, DesignerInv, DesignerTypeOK
    <3>2. CASE ~Claimable(cand[p])
      BY <1>5, <2>3, <3>2 DEF Claim
    <3>3. QED
      BY <3>1, <3>2
  <2>4. CASE NothingToClaim(p)
    BY <1>6, <2>4 DEF NothingToClaim
  <2>5. QED
    BY <2>1, <2>2, <2>3, <2>4

\* The slice and its end.
LEMMA SlicingKeeps ==
  ASSUME Inductive, NEW p \in Runner,
         Throws(p) \/ CutMidway(p) \/ SliceEnds(p) \/ SliceCut(p)
  PROVE  Inductive'
<1>1. ASSUME
         /\ pc[p] = "slice"
         /\ rest[p] = "untried"
         /\ pc' = [pc EXCEPT ![p] = "idle"]
         /\ cand' = [cand EXCEPT ![p] = NoJob]
         /\ todo' = [todo EXCEPT ![p] = {}]
         /\ rest' = [rest EXCEPT ![p] = "untried"]
         /\ child' = [child EXCEPT ![p] = NoJob]
         /\ verdict' = [verdict EXCEPT ![cand[p]] = "threw"]
         /\ UNCHANGED <<created, status, ugc, parent, depth, next, stale, aged, rpc, rcand,
            rchild, waiting, silent, doubtful, faults>>
       PROVE  Inductive'
  <2>0. /\ AtWork(p) /\ cand[p] \in Job /\ cand[p] # NoJob /\ cand[p] <= created
        /\ status[cand[p]] \notin {"none", "pending"}
        /\ \A q \in Runner : AtWork(q) /\ cand[q] = cand[p] => q = p
        /\ cand[p] \notin doubtful => \A r \in Reaper : rpc[r] \in {"mark", "fail"} => rcand[r] # cand[p]
        /\ cand[p] \notin doubtful /\ rest[p] # "child" =>
             status[cand[p]] = "running" /\ next[cand[p]] = NoJob
        /\ cand[p] \notin doubtful /\ rest[p] = "child" => next[cand[p]] # NoJob
    BY <1>1, InHand DEF AtWork
  <2>1. DesignerTypeOK'
    BY <1>1, <2>0, DesignerAssumption DEF Inductive, DesignerInv, DesignerTypeOK, RunnersApart,
       AtWork, PC, Status, Verdict, Job, NoJob
  <2>2. RunnersApart'
    BY <1>1, <2>0, DesignerAssumption DEF Inductive, DesignerInv, DesignerTypeOK, RunnersApart,
       AtWork, Job, NoJob
  <2>3. Lineage'
    BY <1>1, <2>0, DesignerAssumption DEF Inductive, DesignerInv, DesignerTypeOK, Lineage,
       RunnersApart, Job, NoJob
  <2>4. HandsKnown'
    BY <1>1, <2>0, DesignerAssumption DEF Inductive, DesignerInv, DesignerTypeOK, HandsKnown,
       RunnersApart, Lineage, AtWork, Job, NoJob
  <2>5. ChildrenFound'
    <3>1. SUFFICES ASSUME NEW c \in Job, parent'[c] # NoJob, parent'[c] \notin doubtful'
                   PROVE  Found(c)'
      BY FoundSuffices
    <3>2. parent'[c] = parent[c] /\ parent[c] # NoJob /\ parent[c] \notin doubtful
      BY <1>1, <2>0, <3>1 DEF Inductive, DesignerInv, DesignerTypeOK, Job, NoJob
    <3>3. Found(c) /\ parent[c] \in Job
      BY <3>2, FoundMeans DEF Inductive, DesignerInv, DesignerTypeOK
    <3>4. QED
      BY <1>1, <2>0, <3>1, <3>2, <3>3, DesignerAssumption DEF Inductive, DesignerInv,
         DesignerTypeOK, RunnersApart, Lineage, HandsKnown, AtWork, Found, Job, NoJob
  <2>6. EndingsExplained'
    BY <1>1, <2>0, DesignerAssumption DEF Inductive, DesignerInv, DesignerTypeOK,
       EndingsExplained, RunnersApart, HandsKnown, AtWork, Job, NoJob
  <2>7. QED
    BY <2>1, <2>2, <2>3, <2>4, <2>5, <2>6 DEF Inductive, DesignerInv
<1>2. ASSUME
         /\ pc[p] = "slice"
         /\ rest[p] = "untried"
         /\ pc' = [pc EXCEPT ![p] = "failed"]
         /\ verdict' = [verdict EXCEPT ![cand[p]] = "threw"]
         /\ UNCHANGED <<created, status, ugc, parent, depth, next, stale, aged, cand, todo, rest,
            child, rpc, rcand, rchild, waiting, silent, doubtful, faults>>
       PROVE  Inductive'
  <2>0. /\ AtWork(p) /\ cand[p] \in Job /\ cand[p] # NoJob /\ cand[p] <= created
        /\ status[cand[p]] \notin {"none", "pending"}
        /\ \A q \in Runner : AtWork(q) /\ cand[q] = cand[p] => q = p
        /\ cand[p] \notin doubtful => \A r \in Reaper : rpc[r] \in {"mark", "fail"} => rcand[r] # cand[p]
        /\ cand[p] \notin doubtful /\ rest[p] # "child" =>
             status[cand[p]] = "running" /\ next[cand[p]] = NoJob
        /\ cand[p] \notin doubtful /\ rest[p] = "child" => next[cand[p]] # NoJob
    BY <1>2, InHand DEF AtWork
  <2>1. DesignerTypeOK'
    BY <1>2, <2>0, DesignerAssumption DEF Inductive, DesignerInv, DesignerTypeOK, RunnersApart,
       AtWork, PC, Status, Verdict, Job, NoJob
  <2>2. RunnersApart'
    BY <1>2, <2>0, DesignerAssumption DEF Inductive, DesignerInv, DesignerTypeOK, RunnersApart,
       AtWork, Job, NoJob
  <2>3. Lineage'
    BY <1>2, <2>0, DesignerAssumption DEF Inductive, DesignerInv, DesignerTypeOK, Lineage,
       RunnersApart, Job, NoJob
  <2>4. HandsKnown'
    BY <1>2, <2>0, DesignerAssumption DEF Inductive, DesignerInv, DesignerTypeOK, HandsKnown,
       RunnersApart, Lineage, AtWork, Job, NoJob
  <2>5. ChildrenFound'
    <3>1. SUFFICES ASSUME NEW c \in Job, parent'[c] # NoJob, parent'[c] \notin doubtful'
                   PROVE  Found(c)'
      BY FoundSuffices
    <3>2. parent'[c] = parent[c] /\ parent[c] # NoJob /\ parent[c] \notin doubtful
      BY <1>2, <2>0, <3>1 DEF Inductive, DesignerInv, DesignerTypeOK, Job, NoJob
    <3>3. Found(c) /\ parent[c] \in Job
      BY <3>2, FoundMeans DEF Inductive, DesignerInv, DesignerTypeOK
    <3>4. QED
      BY <1>2, <2>0, <3>1, <3>2, <3>3, DesignerAssumption DEF Inductive, DesignerInv,
         DesignerTypeOK, RunnersApart, Lineage, HandsKnown, AtWork, Found, Job, NoJob
  <2>6. EndingsExplained'
    BY <1>2, <2>0, DesignerAssumption DEF Inductive, DesignerInv, DesignerTypeOK,
       EndingsExplained, RunnersApart, HandsKnown, AtWork, Job, NoJob
  <2>7. QED
    BY <2>1, <2>2, <2>3, <2>4, <2>5, <2>6 DEF Inductive, DesignerInv
<1>3. ASSUME
         /\ pc[p] = "slice"
         /\ rest[p] = "untried"
         /\ created < MaxJobs
         /\ depth[cand[p]] < MaxDepth
         /\ created' = created + 1
         /\ status' = [status EXCEPT ![created + 1] = "pending"]
         /\ ugc' \subseteq Job
         /\ parent' = [parent EXCEPT ![created + 1] = cand[p]]
         /\ depth' = [depth EXCEPT ![created + 1] = depth[cand[p]] + 1]
         /\ pc' = [pc EXCEPT ![p] = "midmark"]
         /\ child' = [child EXCEPT ![p] = created + 1]
         /\ UNCHANGED <<next, stale, aged, cand, todo, rest, rpc, rcand, rchild, waiting, silent,
            verdict, doubtful, faults>>
       PROVE  Inductive'
  <2>0. /\ AtWork(p) /\ cand[p] \in Job /\ cand[p] # NoJob /\ cand[p] <= created
        /\ status[cand[p]] \notin {"none", "pending"}
        /\ \A q \in Runner : AtWork(q) /\ cand[q] = cand[p] => q = p
        /\ cand[p] \notin doubtful => \A r \in Reaper : rpc[r] \in {"mark", "fail"} => rcand[r] # cand[p]
        /\ cand[p] \notin doubtful /\ rest[p] # "child" =>
             status[cand[p]] = "running" /\ next[cand[p]] = NoJob
        /\ cand[p] \notin doubtful /\ rest[p] = "child" => next[cand[p]] # NoJob
    BY <1>3, InHand DEF AtWork
  <2>1. DesignerTypeOK'
    <3>1. created' \in 0..MaxJobs /\ created + 1 \in Job
      BY <1>3, <2>0, InTable, DesignerAssumption DEF Inductive, DesignerInv, DesignerTypeOK, Job
    <3>2. depth' \in [Job -> 0..MaxDepth] /\ parent' \in [Job -> Job \cup {NoJob}]
      BY <1>3, <2>0, <3>1, DesignerAssumption DEF Inductive, DesignerInv, DesignerTypeOK
    <3>3. status' \in [Job -> Status] /\ ugc' \subseteq Job
      BY <1>3, <2>0, <3>1 DEF Inductive, DesignerInv, DesignerTypeOK, Status
    <3>4. pc' \in [Runner -> PC] /\ child' \in [Runner -> Job \cup {NoJob}]
      BY <1>3, <2>0, <3>1 DEF Inductive, DesignerInv, DesignerTypeOK, PC
    <3>5. QED
      BY <1>3, <2>0, <3>1, <3>2, <3>3, <3>4 DEF Inductive, DesignerInv, DesignerTypeOK
  <2>2. RunnersApart'
    <3>1. created + 1 \in Job /\ created \in Nat
      BY <1>3, <2>0, InTable
    <3>2. QED
      BY <1>3, <2>0, <3>1 DEF Inductive, DesignerInv, DesignerTypeOK, RunnersApart, AtWork, Job
  <2>3. Lineage'
    <3>1. created + 1 \in Job /\ created \in Nat
      BY <1>3, <2>0, InTable
    <3>2. ASSUME NEW c \in Job, parent'[c] # NoJob
          PROVE  parent'[c] < c /\ c <= created' /\ depth'[c] = depth'[parent'[c]] + 1
      <4>1. CASE c = created + 1
        BY <1>3, <2>0, <3>1, <3>2, <4>1 DEF Inductive, DesignerInv, DesignerTypeOK, Job
      <4>2. CASE c # created + 1
        <5>1. parent'[c] = parent[c] /\ depth'[c] = depth[c] /\ parent[c] # NoJob
          BY <1>3, <2>0, <3>1, <3>2, <4>2 DEF Inductive, DesignerInv, DesignerTypeOK
        <5>2. parent[c] \in Job /\ parent[c] < c /\ c <= created /\ depth[c] = depth[parent[c]] + 1
          BY <5>1 DEF Inductive, DesignerInv, DesignerTypeOK, Lineage
        <5>3. depth'[parent[c]] = depth[parent[c]]
          BY <1>3, <2>0, <3>1, <5>2 DEF Inductive, DesignerInv, DesignerTypeOK, Job
        <5>4. QED
          BY <1>3, <2>0, <3>1, <5>1, <5>2, <5>3 DEF Job
      <4>3. QED
        BY <4>1, <4>2
    <3>3. ASSUME NEW i \in Job, next'[i] # NoJob
          PROVE  status'[i] = "done" /\ parent'[next'[i]] = i
      <4>1. next'[i] = next[i] /\ status[i] = "done" /\ parent[next[i]] = i
        BY <1>3, <2>0, <3>3 DEF Inductive, DesignerInv, Lineage
      <4>2. i # created + 1 /\ next[i] \in Job /\ next[i] # created + 1
        BY <3>1, <3>3, <4>1, InTable DEF Inductive, DesignerInv, RunnersApart, Job
      <4>3. QED
        BY <1>3, <2>0, <3>1, <4>1, <4>2 DEF Inductive, DesignerInv, DesignerTypeOK
    <3>4. ASSUME NEW q \in Runner, pc'[q] \in {"midmark", "mark"}
          PROVE  child'[q] # NoJob /\ parent'[child'[q]] = cand'[q]
      BY <1>3, <2>0, <3>1, <3>4, InTable DEF Inductive, DesignerInv, DesignerTypeOK, Lineage, NoJob
    <3>5. ASSUME NEW q \in Reaper, rpc'[q] = "mark"
          PROVE  rchild'[q] # NoJob /\ parent'[rchild'[q]] = rcand'[q]
      BY <1>3, <2>0, <3>1, <3>5, InTable DEF Inductive, DesignerInv, DesignerTypeOK, Lineage, NoJob
    <3>6. QED
      BY <3>2, <3>3, <3>4, <3>5 DEF Lineage
  <2>4. HandsKnown'
    BY <1>3, <2>0, DesignerAssumption, SMTT(30) DEF Inductive, DesignerInv, DesignerTypeOK, HandsKnown,
       RunnersApart, Lineage, AtWork, Job, NoJob
  <2>5. ChildrenFound'
    <3>1. SUFFICES ASSUME NEW c \in Job, parent'[c] # NoJob, parent'[c] \notin doubtful'
                   PROVE  Found(c)'
      BY FoundSuffices
    <3>2. CASE c = created + 1
      BY <1>3, <2>0, <3>1, <3>2, DesignerAssumption DEF Inductive, DesignerInv, DesignerTypeOK,
         RunnersApart, Lineage, HandsKnown, AtWork, Found, Job, NoJob
    <3>3. CASE c # created + 1
      <4>1. parent'[c] = parent[c] /\ parent[c] # NoJob /\ parent[c] \notin doubtful
        BY <1>3, <2>0, <3>1, <3>3 DEF Inductive, DesignerInv, DesignerTypeOK, Job, NoJob
      <4>2. Found(c) /\ parent[c] \in Job
        BY <4>1, FoundMeans DEF Inductive, DesignerInv, DesignerTypeOK
      <4>3. QED
        <5>1. CASE next[parent[c]] = c
          BY <1>3, <2>0, <3>1, <4>1, <4>2, <5>1 DEF Inductive, DesignerInv, DesignerTypeOK,
             RunnersApart, Lineage, HandsKnown, AtWork, Found, Job, NoJob
        <5>2. CASE \E x \in Runner : pc[x] \in {"midmark", "mark"} /\ cand[x] = parent[c] /\ child[x] = c
          BY <1>3, <2>0, <3>1, <4>1, <4>2, <5>2 DEF Inductive, DesignerInv, DesignerTypeOK,
             RunnersApart, Lineage, HandsKnown, AtWork, Found, Job, NoJob
        <5>3. CASE \E q \in Reaper : rpc[q] = "mark" /\ rcand[q] = parent[c] /\ rchild[q] = c
          BY <1>3, <2>0, <3>1, <4>1, <4>2, <5>3 DEF Inductive, DesignerInv, DesignerTypeOK,
             RunnersApart, Lineage, HandsKnown, AtWork, Found, Job, NoJob
        <5>4. QED
          BY <3>1, <4>1, <4>2, <5>1, <5>2, <5>3 DEF Found
    <3>4. QED
      BY <3>2, <3>3
  <2>6. EndingsExplained'
    BY <1>3, <2>0, DesignerAssumption DEF Inductive, DesignerInv, DesignerTypeOK,
       EndingsExplained, RunnersApart, HandsKnown, AtWork, Job, NoJob
  <2>7. QED
    BY <2>1, <2>2, <2>3, <2>4, <2>5, <2>6 DEF Inductive, DesignerInv
<1>4. ASSUME
         /\ pc[p] = "slice"
         /\ rest[p] = "untried"
         /\ rest' = [rest EXCEPT ![p] = "refused"]
         /\ verdict' = [verdict EXCEPT ![cand[p]] = "refused"]
         /\ faults' \in 0..MaxFaults
         /\ UNCHANGED <<created, status, ugc, parent, depth, next, stale, aged, pc, cand, todo,
            child, rpc, rcand, rchild, waiting, silent, doubtful>>
       PROVE  Inductive'
  <2>0. /\ AtWork(p) /\ cand[p] \in Job /\ cand[p] # NoJob /\ cand[p] <= created
        /\ status[cand[p]] \notin {"none", "pending"}
        /\ \A q \in Runner : AtWork(q) /\ cand[q] = cand[p] => q = p
        /\ cand[p] \notin doubtful => \A r \in Reaper : rpc[r] \in {"mark", "fail"} => rcand[r] # cand[p]
        /\ cand[p] \notin doubtful /\ rest[p] # "child" =>
             status[cand[p]] = "running" /\ next[cand[p]] = NoJob
        /\ cand[p] \notin doubtful /\ rest[p] = "child" => next[cand[p]] # NoJob
    BY <1>4, InHand DEF AtWork
  <2>1. DesignerTypeOK'
    BY <1>4, <2>0, DesignerAssumption DEF Inductive, DesignerInv, DesignerTypeOK, RunnersApart,
       AtWork, PC, Status, Verdict, Job, NoJob
  <2>2. RunnersApart'
    BY <1>4, ApartFrame DEF Inductive, DesignerInv
  <2>3. Lineage'
    BY <1>4, LineageFrame DEF Inductive, DesignerInv
  <2>4. HandsKnown'
    BY <1>4, <2>0, DesignerAssumption DEF Inductive, DesignerInv, DesignerTypeOK, HandsKnown,
       RunnersApart, Lineage, AtWork, Job, NoJob
  <2>5. ChildrenFound'
    BY <1>4, FoundFrame DEF Inductive, DesignerInv
  <2>6. EndingsExplained'
    BY <1>4, <2>0, DesignerAssumption DEF Inductive, DesignerInv, DesignerTypeOK,
       EndingsExplained, RunnersApart, HandsKnown, AtWork, Job, NoJob
  <2>7. QED
    BY <2>1, <2>2, <2>3, <2>4, <2>5, <2>6 DEF Inductive, DesignerInv
<1>5. ASSUME
         /\ pc[p] = "slice"
         /\ rest[p] # "child"
         /\ pc' = [pc EXCEPT ![p] = "done"]
         /\ verdict' = [verdict EXCEPT ![cand[p]] = IF @ = "refused" THEN @ ELSE "over"]
         /\ UNCHANGED <<created, status, ugc, parent, depth, next, stale, aged, cand, todo, rest,
            child, rpc, rcand, rchild, waiting, silent, doubtful, faults>>
       PROVE  Inductive'
  <2>0. /\ AtWork(p) /\ cand[p] \in Job /\ cand[p] # NoJob /\ cand[p] <= created
        /\ status[cand[p]] \notin {"none", "pending"}
        /\ \A q \in Runner : AtWork(q) /\ cand[q] = cand[p] => q = p
        /\ cand[p] \notin doubtful => \A r \in Reaper : rpc[r] \in {"mark", "fail"} => rcand[r] # cand[p]
        /\ cand[p] \notin doubtful /\ rest[p] # "child" =>
             status[cand[p]] = "running" /\ next[cand[p]] = NoJob
        /\ cand[p] \notin doubtful /\ rest[p] = "child" => next[cand[p]] # NoJob
    BY <1>5, InHand DEF AtWork
  <2>1. DesignerTypeOK'
    BY <1>5, <2>0, DesignerAssumption DEF Inductive, DesignerInv, DesignerTypeOK, RunnersApart,
       AtWork, PC, Status, Verdict, Job, NoJob
  <2>2. RunnersApart'
    BY <1>5, <2>0, DesignerAssumption DEF Inductive, DesignerInv, DesignerTypeOK, RunnersApart,
       AtWork, Job, NoJob
  <2>3. Lineage'
    BY <1>5, <2>0, DesignerAssumption DEF Inductive, DesignerInv, DesignerTypeOK, Lineage,
       RunnersApart, Job, NoJob
  <2>4. HandsKnown'
    BY <1>5, <2>0, DesignerAssumption DEF Inductive, DesignerInv, DesignerTypeOK, HandsKnown,
       RunnersApart, Lineage, AtWork, Job, NoJob
  <2>5. ChildrenFound'
    <3>1. SUFFICES ASSUME NEW c \in Job, parent'[c] # NoJob, parent'[c] \notin doubtful'
                   PROVE  Found(c)'
      BY FoundSuffices
    <3>2. parent'[c] = parent[c] /\ parent[c] # NoJob /\ parent[c] \notin doubtful
      BY <1>5, <2>0, <3>1 DEF Inductive, DesignerInv, DesignerTypeOK, Job, NoJob
    <3>3. Found(c) /\ parent[c] \in Job
      BY <3>2, FoundMeans DEF Inductive, DesignerInv, DesignerTypeOK
    <3>4. QED
      BY <1>5, <2>0, <3>1, <3>2, <3>3, DesignerAssumption DEF Inductive, DesignerInv,
         DesignerTypeOK, RunnersApart, Lineage, HandsKnown, AtWork, Found, Job, NoJob
  <2>6. EndingsExplained'
    BY <1>5, <2>0, DesignerAssumption DEF Inductive, DesignerInv, DesignerTypeOK,
       EndingsExplained, RunnersApart, HandsKnown, AtWork, Job, NoJob
  <2>7. QED
    BY <2>1, <2>2, <2>3, <2>4, <2>5, <2>6 DEF Inductive, DesignerInv
<1>6. ASSUME
         /\ pc[p] = "slice"
         /\ rest[p] = "child"
         /\ pc' = [pc EXCEPT ![p] = "idle"]
         /\ cand' = [cand EXCEPT ![p] = NoJob]
         /\ todo' = [todo EXCEPT ![p] = {}]
         /\ rest' = [rest EXCEPT ![p] = "untried"]
         /\ child' = [child EXCEPT ![p] = NoJob]
         /\ UNCHANGED <<created, status, ugc, parent, depth, next, stale, aged, rpc, rcand,
            rchild, waiting, silent, verdict, doubtful, faults>>
       PROVE  Inductive'
  <2>0. /\ AtWork(p) /\ cand[p] \in Job /\ cand[p] # NoJob /\ cand[p] <= created
        /\ status[cand[p]] \notin {"none", "pending"}
        /\ \A q \in Runner : AtWork(q) /\ cand[q] = cand[p] => q = p
        /\ cand[p] \notin doubtful => \A r \in Reaper : rpc[r] \in {"mark", "fail"} => rcand[r] # cand[p]
        /\ cand[p] \notin doubtful /\ rest[p] # "child" =>
             status[cand[p]] = "running" /\ next[cand[p]] = NoJob
        /\ cand[p] \notin doubtful /\ rest[p] = "child" => next[cand[p]] # NoJob
    BY <1>6, InHand DEF AtWork
  <2>1. DesignerTypeOK'
    BY <1>6, <2>0, DesignerAssumption DEF Inductive, DesignerInv, DesignerTypeOK, RunnersApart,
       AtWork, PC, Status, Verdict, Job, NoJob
  <2>2. RunnersApart'
    BY <1>6, <2>0, DesignerAssumption DEF Inductive, DesignerInv, DesignerTypeOK, RunnersApart,
       AtWork, Job, NoJob
  <2>3. Lineage'
    BY <1>6, <2>0, DesignerAssumption DEF Inductive, DesignerInv, DesignerTypeOK, Lineage,
       RunnersApart, Job, NoJob
  <2>4. HandsKnown'
    BY <1>6, <2>0, DesignerAssumption DEF Inductive, DesignerInv, DesignerTypeOK, HandsKnown,
       RunnersApart, Lineage, AtWork, Job, NoJob
  <2>5. ChildrenFound'
    <3>1. SUFFICES ASSUME NEW c \in Job, parent'[c] # NoJob, parent'[c] \notin doubtful'
                   PROVE  Found(c)'
      BY FoundSuffices
    <3>2. parent'[c] = parent[c] /\ parent[c] # NoJob /\ parent[c] \notin doubtful
      BY <1>6, <2>0, <3>1 DEF Inductive, DesignerInv, DesignerTypeOK, Job, NoJob
    <3>3. Found(c) /\ parent[c] \in Job
      BY <3>2, FoundMeans DEF Inductive, DesignerInv, DesignerTypeOK
    <3>4. QED
      BY <1>6, <2>0, <3>1, <3>2, <3>3, DesignerAssumption DEF Inductive, DesignerInv,
         DesignerTypeOK, RunnersApart, Lineage, HandsKnown, AtWork, Found, Job, NoJob
  <2>6. EndingsExplained'
    BY <1>6, EndingsFrame DEF Inductive, DesignerInv
  <2>7. QED
    BY <2>1, <2>2, <2>3, <2>4, <2>5, <2>6 DEF Inductive, DesignerInv
<1>7. ASSUME
         /\ pc[p] = "slice"
         /\ rest[p] # "child"
         /\ created < MaxJobs
         /\ depth[cand[p]] < MaxDepth
         /\ created' = created + 1
         /\ status' = [status EXCEPT ![created + 1] = "pending"]
         /\ ugc' \subseteq Job
         /\ parent' = [parent EXCEPT ![created + 1] = cand[p]]
         /\ depth' = [depth EXCEPT ![created + 1] = depth[cand[p]] + 1]
         /\ pc' = [pc EXCEPT ![p] = "mark"]
         /\ child' = [child EXCEPT ![p] = created + 1]
         /\ UNCHANGED <<next, stale, aged, cand, todo, rest, rpc, rcand, rchild, waiting, silent,
            verdict, doubtful, faults>>
       PROVE  Inductive'
  <2>0. /\ AtWork(p) /\ cand[p] \in Job /\ cand[p] # NoJob /\ cand[p] <= created
        /\ status[cand[p]] \notin {"none", "pending"}
        /\ \A q \in Runner : AtWork(q) /\ cand[q] = cand[p] => q = p
        /\ cand[p] \notin doubtful => \A r \in Reaper : rpc[r] \in {"mark", "fail"} => rcand[r] # cand[p]
        /\ cand[p] \notin doubtful /\ rest[p] # "child" =>
             status[cand[p]] = "running" /\ next[cand[p]] = NoJob
        /\ cand[p] \notin doubtful /\ rest[p] = "child" => next[cand[p]] # NoJob
    BY <1>7, InHand DEF AtWork
  <2>1. DesignerTypeOK'
    <3>1. created' \in 0..MaxJobs /\ created + 1 \in Job
      BY <1>7, <2>0, InTable, DesignerAssumption DEF Inductive, DesignerInv, DesignerTypeOK, Job
    <3>2. depth' \in [Job -> 0..MaxDepth] /\ parent' \in [Job -> Job \cup {NoJob}]
      BY <1>7, <2>0, <3>1, DesignerAssumption DEF Inductive, DesignerInv, DesignerTypeOK
    <3>3. status' \in [Job -> Status] /\ ugc' \subseteq Job
      BY <1>7, <2>0, <3>1 DEF Inductive, DesignerInv, DesignerTypeOK, Status
    <3>4. pc' \in [Runner -> PC] /\ child' \in [Runner -> Job \cup {NoJob}]
      BY <1>7, <2>0, <3>1 DEF Inductive, DesignerInv, DesignerTypeOK, PC
    <3>5. QED
      BY <1>7, <2>0, <3>1, <3>2, <3>3, <3>4 DEF Inductive, DesignerInv, DesignerTypeOK
  <2>2. RunnersApart'
    <3>1. created + 1 \in Job /\ created \in Nat
      BY <1>7, <2>0, InTable
    <3>2. QED
      BY <1>7, <2>0, <3>1 DEF Inductive, DesignerInv, DesignerTypeOK, RunnersApart, AtWork, Job
  <2>3. Lineage'
    <3>1. created + 1 \in Job /\ created \in Nat
      BY <1>7, <2>0, InTable
    <3>2. ASSUME NEW c \in Job, parent'[c] # NoJob
          PROVE  parent'[c] < c /\ c <= created' /\ depth'[c] = depth'[parent'[c]] + 1
      <4>1. CASE c = created + 1
        BY <1>7, <2>0, <3>1, <3>2, <4>1 DEF Inductive, DesignerInv, DesignerTypeOK, Job
      <4>2. CASE c # created + 1
        <5>1. parent'[c] = parent[c] /\ depth'[c] = depth[c] /\ parent[c] # NoJob
          BY <1>7, <2>0, <3>1, <3>2, <4>2 DEF Inductive, DesignerInv, DesignerTypeOK
        <5>2. parent[c] \in Job /\ parent[c] < c /\ c <= created /\ depth[c] = depth[parent[c]] + 1
          BY <5>1 DEF Inductive, DesignerInv, DesignerTypeOK, Lineage
        <5>3. depth'[parent[c]] = depth[parent[c]]
          BY <1>7, <2>0, <3>1, <5>2 DEF Inductive, DesignerInv, DesignerTypeOK, Job
        <5>4. QED
          BY <1>7, <2>0, <3>1, <5>1, <5>2, <5>3 DEF Job
      <4>3. QED
        BY <4>1, <4>2
    <3>3. ASSUME NEW i \in Job, next'[i] # NoJob
          PROVE  status'[i] = "done" /\ parent'[next'[i]] = i
      <4>1. next'[i] = next[i] /\ status[i] = "done" /\ parent[next[i]] = i
        BY <1>7, <2>0, <3>3 DEF Inductive, DesignerInv, Lineage
      <4>2. i # created + 1 /\ next[i] \in Job /\ next[i] # created + 1
        BY <3>1, <3>3, <4>1, InTable DEF Inductive, DesignerInv, RunnersApart, Job
      <4>3. QED
        BY <1>7, <2>0, <3>1, <4>1, <4>2 DEF Inductive, DesignerInv, DesignerTypeOK
    <3>4. ASSUME NEW q \in Runner, pc'[q] \in {"midmark", "mark"}
          PROVE  child'[q] # NoJob /\ parent'[child'[q]] = cand'[q]
      BY <1>7, <2>0, <3>1, <3>4, InTable DEF Inductive, DesignerInv, DesignerTypeOK, Lineage, NoJob
    <3>5. ASSUME NEW q \in Reaper, rpc'[q] = "mark"
          PROVE  rchild'[q] # NoJob /\ parent'[rchild'[q]] = rcand'[q]
      BY <1>7, <2>0, <3>1, <3>5, InTable DEF Inductive, DesignerInv, DesignerTypeOK, Lineage, NoJob
    <3>6. QED
      BY <3>2, <3>3, <3>4, <3>5 DEF Lineage
  <2>4. HandsKnown'
    BY <1>7, <2>0, DesignerAssumption, SMTT(30) DEF Inductive, DesignerInv, DesignerTypeOK, HandsKnown,
       RunnersApart, Lineage, AtWork, Job, NoJob
  <2>5. ChildrenFound'
    <3>1. SUFFICES ASSUME NEW c \in Job, parent'[c] # NoJob, parent'[c] \notin doubtful'
                   PROVE  Found(c)'
      BY FoundSuffices
    <3>2. CASE c = created + 1
      BY <1>7, <2>0, <3>1, <3>2, DesignerAssumption DEF Inductive, DesignerInv, DesignerTypeOK,
         RunnersApart, Lineage, HandsKnown, AtWork, Found, Job, NoJob
    <3>3. CASE c # created + 1
      <4>1. parent'[c] = parent[c] /\ parent[c] # NoJob /\ parent[c] \notin doubtful
        BY <1>7, <2>0, <3>1, <3>3 DEF Inductive, DesignerInv, DesignerTypeOK, Job, NoJob
      <4>2. Found(c) /\ parent[c] \in Job
        BY <4>1, FoundMeans DEF Inductive, DesignerInv, DesignerTypeOK
      <4>3. QED
        <5>1. CASE next[parent[c]] = c
          BY <1>7, <2>0, <3>1, <4>1, <4>2, <5>1 DEF Inductive, DesignerInv, DesignerTypeOK,
             RunnersApart, Lineage, HandsKnown, AtWork, Found, Job, NoJob
        <5>2. CASE \E x \in Runner : pc[x] \in {"midmark", "mark"} /\ cand[x] = parent[c] /\ child[x] = c
          BY <1>7, <2>0, <3>1, <4>1, <4>2, <5>2 DEF Inductive, DesignerInv, DesignerTypeOK,
             RunnersApart, Lineage, HandsKnown, AtWork, Found, Job, NoJob
        <5>3. CASE \E q \in Reaper : rpc[q] = "mark" /\ rcand[q] = parent[c] /\ rchild[q] = c
          BY <1>7, <2>0, <3>1, <4>1, <4>2, <5>3 DEF Inductive, DesignerInv, DesignerTypeOK,
             RunnersApart, Lineage, HandsKnown, AtWork, Found, Job, NoJob
        <5>4. QED
          BY <3>1, <4>1, <4>2, <5>1, <5>2, <5>3 DEF Found
    <3>4. QED
      BY <3>2, <3>3
  <2>6. EndingsExplained'
    BY <1>7, <2>0, DesignerAssumption DEF Inductive, DesignerInv, DesignerTypeOK,
       EndingsExplained, RunnersApart, HandsKnown, AtWork, Job, NoJob
  <2>7. QED
    BY <2>1, <2>2, <2>3, <2>4, <2>5, <2>6 DEF Inductive, DesignerInv
<1>8. ASSUME
         /\ pc[p] = "slice"
         /\ rest[p] # "child"
         /\ pc' = [pc EXCEPT ![p] = "idle"]
         /\ cand' = [cand EXCEPT ![p] = NoJob]
         /\ todo' = [todo EXCEPT ![p] = {}]
         /\ rest' = [rest EXCEPT ![p] = "untried"]
         /\ child' = [child EXCEPT ![p] = NoJob]
         /\ verdict' = [verdict EXCEPT ![cand[p]] = "refused"]
         /\ faults' \in 0..MaxFaults
         /\ UNCHANGED <<created, status, ugc, parent, depth, next, stale, aged, rpc, rcand,
            rchild, waiting, silent, doubtful>>
       PROVE  Inductive'
  <2>0. /\ AtWork(p) /\ cand[p] \in Job /\ cand[p] # NoJob /\ cand[p] <= created
        /\ status[cand[p]] \notin {"none", "pending"}
        /\ \A q \in Runner : AtWork(q) /\ cand[q] = cand[p] => q = p
        /\ cand[p] \notin doubtful => \A r \in Reaper : rpc[r] \in {"mark", "fail"} => rcand[r] # cand[p]
        /\ cand[p] \notin doubtful /\ rest[p] # "child" =>
             status[cand[p]] = "running" /\ next[cand[p]] = NoJob
        /\ cand[p] \notin doubtful /\ rest[p] = "child" => next[cand[p]] # NoJob
    BY <1>8, InHand DEF AtWork
  <2>1. DesignerTypeOK'
    BY <1>8, <2>0, DesignerAssumption DEF Inductive, DesignerInv, DesignerTypeOK, RunnersApart,
       AtWork, PC, Status, Verdict, Job, NoJob
  <2>2. RunnersApart'
    BY <1>8, <2>0, DesignerAssumption DEF Inductive, DesignerInv, DesignerTypeOK, RunnersApart,
       AtWork, Job, NoJob
  <2>3. Lineage'
    BY <1>8, <2>0, DesignerAssumption DEF Inductive, DesignerInv, DesignerTypeOK, Lineage,
       RunnersApart, Job, NoJob
  <2>4. HandsKnown'
    BY <1>8, <2>0, DesignerAssumption DEF Inductive, DesignerInv, DesignerTypeOK, HandsKnown,
       RunnersApart, Lineage, AtWork, Job, NoJob
  <2>5. ChildrenFound'
    <3>1. SUFFICES ASSUME NEW c \in Job, parent'[c] # NoJob, parent'[c] \notin doubtful'
                   PROVE  Found(c)'
      BY FoundSuffices
    <3>2. parent'[c] = parent[c] /\ parent[c] # NoJob /\ parent[c] \notin doubtful
      BY <1>8, <2>0, <3>1 DEF Inductive, DesignerInv, DesignerTypeOK, Job, NoJob
    <3>3. Found(c) /\ parent[c] \in Job
      BY <3>2, FoundMeans DEF Inductive, DesignerInv, DesignerTypeOK
    <3>4. QED
      BY <1>8, <2>0, <3>1, <3>2, <3>3, DesignerAssumption DEF Inductive, DesignerInv,
         DesignerTypeOK, RunnersApart, Lineage, HandsKnown, AtWork, Found, Job, NoJob
  <2>6. EndingsExplained'
    BY <1>8, <2>0, DesignerAssumption DEF Inductive, DesignerInv, DesignerTypeOK,
       EndingsExplained, RunnersApart, HandsKnown, AtWork, Job, NoJob
  <2>7. QED
    BY <2>1, <2>2, <2>3, <2>4, <2>5, <2>6 DEF Inductive, DesignerInv
<1>9. ASSUME
         /\ pc[p] = "slice"
         /\ rest[p] # "child"
         /\ pc' = [pc EXCEPT ![p] = "done"]
         /\ verdict' = [verdict EXCEPT ![cand[p]] = "refused"]
         /\ faults' \in 0..MaxFaults
         /\ UNCHANGED <<created, status, ugc, parent, depth, next, stale, aged, cand, todo, rest,
            child, rpc, rcand, rchild, waiting, silent, doubtful>>
       PROVE  Inductive'
  <2>0. /\ AtWork(p) /\ cand[p] \in Job /\ cand[p] # NoJob /\ cand[p] <= created
        /\ status[cand[p]] \notin {"none", "pending"}
        /\ \A q \in Runner : AtWork(q) /\ cand[q] = cand[p] => q = p
        /\ cand[p] \notin doubtful => \A r \in Reaper : rpc[r] \in {"mark", "fail"} => rcand[r] # cand[p]
        /\ cand[p] \notin doubtful /\ rest[p] # "child" =>
             status[cand[p]] = "running" /\ next[cand[p]] = NoJob
        /\ cand[p] \notin doubtful /\ rest[p] = "child" => next[cand[p]] # NoJob
    BY <1>9, InHand DEF AtWork
  <2>1. DesignerTypeOK'
    BY <1>9, <2>0, DesignerAssumption DEF Inductive, DesignerInv, DesignerTypeOK, RunnersApart,
       AtWork, PC, Status, Verdict, Job, NoJob
  <2>2. RunnersApart'
    BY <1>9, <2>0, DesignerAssumption DEF Inductive, DesignerInv, DesignerTypeOK, RunnersApart,
       AtWork, Job, NoJob
  <2>3. Lineage'
    BY <1>9, <2>0, DesignerAssumption DEF Inductive, DesignerInv, DesignerTypeOK, Lineage,
       RunnersApart, Job, NoJob
  <2>4. HandsKnown'
    BY <1>9, <2>0, DesignerAssumption DEF Inductive, DesignerInv, DesignerTypeOK, HandsKnown,
       RunnersApart, Lineage, AtWork, Job, NoJob
  <2>5. ChildrenFound'
    <3>1. SUFFICES ASSUME NEW c \in Job, parent'[c] # NoJob, parent'[c] \notin doubtful'
                   PROVE  Found(c)'
      BY FoundSuffices
    <3>2. parent'[c] = parent[c] /\ parent[c] # NoJob /\ parent[c] \notin doubtful
      BY <1>9, <2>0, <3>1 DEF Inductive, DesignerInv, DesignerTypeOK, Job, NoJob
    <3>3. Found(c) /\ parent[c] \in Job
      BY <3>2, FoundMeans DEF Inductive, DesignerInv, DesignerTypeOK
    <3>4. QED
      BY <1>9, <2>0, <3>1, <3>2, <3>3, DesignerAssumption DEF Inductive, DesignerInv,
         DesignerTypeOK, RunnersApart, Lineage, HandsKnown, AtWork, Found, Job, NoJob
  <2>6. EndingsExplained'
    BY <1>9, <2>0, DesignerAssumption DEF Inductive, DesignerInv, DesignerTypeOK,
       EndingsExplained, RunnersApart, HandsKnown, AtWork, Job, NoJob
  <2>7. QED
    BY <2>1, <2>2, <2>3, <2>4, <2>5, <2>6 DEF Inductive, DesignerInv
<1>10. QED
  <2>0. pc[p] = "slice" => cand[p] \in Job /\ faults \in 0..MaxFaults /\ created + 1 \in Nat /\ ugc \subseteq Job
    BY InHand, InTable DEF AtWork, Inductive, DesignerInv, DesignerTypeOK
  <2>1. CASE Throws(p)
    <3>1. CASE p \in Page /\ cand[p] \in ugc
      BY <1>1, <2>1, <3>1 DEF Throws, Leave
    <3>2. CASE ~ (p \in Page /\ cand[p] \in ugc)
      BY <1>2, <2>1, <3>2 DEF Throws, Goto
    <3>3. QED
      BY <3>1, <3>2
  <2>2. ASSUME NEW i \in Job, RefuseChild(i)
        PROVE  /\ verdict' = [verdict EXCEPT ![i] = "refused"]
               /\ faults' \in 0..MaxFaults /\ UNCHANGED rows
    BY <2>2, DesignerAssumption DEF RefuseChild, Fault, Inductive, DesignerInv, DesignerTypeOK
  <2>3. ASSUME NEW i \in Job, InsertChild(i)
        PROVE  /\ created < MaxJobs /\ depth[i] < MaxDepth /\ created' = created + 1
               /\ status' = [status EXCEPT ![created + 1] = "pending"]
               /\ parent' = [parent EXCEPT ![created + 1] = i]
               /\ depth' = [depth EXCEPT ![created + 1] = depth[i] + 1]
               /\ ugc' \subseteq Job /\ UNCHANGED next
    <3>1. created + 1 \in Job
      BY <2>3, InTable DEF InsertChild
    <3>2. ugc' \subseteq Job
      BY <2>3, <3>1 DEF InsertChild, Insert, Inductive, DesignerInv, DesignerTypeOK
    <3>3. QED
      BY <2>3, <3>2 DEF InsertChild, Insert, MayContinue
  <2>4. CASE CutMidway(p)
    <3>1. pc[p] = "slice" /\ rest[p] = "untried" /\ cand[p] \in Job
      BY <2>0, <2>4 DEF CutMidway
    <3>2. CASE /\ InsertChild(cand[p])
               /\ pc' = [pc EXCEPT ![p] = "midmark"] /\ child' = [child EXCEPT ![p] = created + 1]
               /\ UNCHANGED <<cand, todo, rest, history, faults>>
      BY <1>3, <2>3, <2>4, <3>1, <3>2 DEF CutMidway
    <3>3. CASE /\ RefuseChild(cand[p])
               /\ rest' = [rest EXCEPT ![p] = "refused"]
               /\ UNCHANGED <<pc, cand, todo, child, doubtful>>
      BY <1>4, <2>2, <2>4, <3>1, <3>3 DEF CutMidway
    <3>4. QED
      BY <2>4, <3>2, <3>3 DEF CutMidway
  <2>5. CASE SliceEnds(p)
    <3>1. CASE Settles(p)
      BY <1>5, <2>5, <3>1 DEF SliceEnds, Settles, Goto
    <3>2. CASE ~Settles(p)
      BY <1>6, <2>5, <3>2 DEF SliceEnds, Settles, Leave
    <3>3. QED
      BY <3>1, <3>2
  <2>6. CASE SliceCut(p)
    <3>1. pc[p] = "slice" /\ rest[p] # "child" /\ cand[p] \in Job
      BY <2>0, <2>6 DEF SliceCut, Settles
    <3>2. CASE /\ InsertChild(cand[p])
               /\ pc' = [pc EXCEPT ![p] = "mark"] /\ child' = [child EXCEPT ![p] = created + 1]
               /\ UNCHANGED <<cand, todo, rest, history, faults>>
      BY <1>7, <2>3, <2>6, <3>1, <3>2 DEF SliceCut
    <3>3. CASE RefuseChild(cand[p]) /\ p \in Page /\ Leave(p) /\ UNCHANGED doubtful
      BY <1>8, <2>2, <2>6, <3>1, <3>3 DEF SliceCut, Leave
    <3>4. CASE RefuseChild(cand[p]) /\ Goto(p, "done") /\ UNCHANGED doubtful
      BY <1>9, <2>2, <2>6, <3>1, <3>4 DEF SliceCut, Goto
    <3>5. QED
      BY <2>6, <3>2, <3>3, <3>4 DEF SliceCut
  <2>7. QED
    BY <2>1, <2>4, <2>5, <2>6

\* The pointer of a row to its child.
LEMMA PointingKeeps ==
  ASSUME Inductive, NEW p \in Runner,
         PointToChild(p)
  PROVE  Inductive'
<1>1. ASSUME
         /\ pc[p] = "mark"
         /\ status[cand[p]] = "running"
         /\ status' = [status EXCEPT ![cand[p]] = "done"]
         /\ next' = [next EXCEPT ![cand[p]] = child[p]]
         /\ pc' = [pc EXCEPT ![p] = "idle"]
         /\ cand' = [cand EXCEPT ![p] = NoJob]
         /\ todo' = [todo EXCEPT ![p] = {}]
         /\ rest' = [rest EXCEPT ![p] = "untried"]
         /\ child' = [child EXCEPT ![p] = NoJob]
         /\ UNCHANGED <<created, ugc, parent, depth, stale, aged, rpc, rcand, rchild, waiting,
            silent, verdict, doubtful, faults>>
       PROVE  Inductive'
  <2>0. /\ AtWork(p) /\ cand[p] \in Job /\ cand[p] # NoJob /\ cand[p] <= created
        /\ status[cand[p]] \notin {"none", "pending"}
        /\ \A q \in Runner : AtWork(q) /\ cand[q] = cand[p] => q = p
        /\ cand[p] \notin doubtful => \A r \in Reaper : rpc[r] \in {"mark", "fail"} => rcand[r] # cand[p]
        /\ cand[p] \notin doubtful /\ rest[p] # "child" =>
             status[cand[p]] = "running" /\ next[cand[p]] = NoJob
        /\ cand[p] \notin doubtful /\ rest[p] = "child" => next[cand[p]] # NoJob
    BY <1>1, InHand DEF AtWork
  <2>1. DesignerTypeOK'
    BY <1>1, <2>0, DesignerAssumption DEF Inductive, DesignerInv, DesignerTypeOK, RunnersApart,
       AtWork, PC, Status, Verdict, Job, NoJob
  <2>2. RunnersApart'
    BY <1>1, <2>0, DesignerAssumption DEF Inductive, DesignerInv, DesignerTypeOK, RunnersApart,
       AtWork, Job, NoJob
  <2>3. Lineage'
    BY <1>1, <2>0, DesignerAssumption DEF Inductive, DesignerInv, DesignerTypeOK, Lineage,
       RunnersApart, Job, NoJob
  <2>4. HandsKnown'
    BY <1>1, <2>0, DesignerAssumption, SMTT(30) DEF Inductive, DesignerInv, DesignerTypeOK, HandsKnown,
       RunnersApart, Lineage, AtWork, Job, NoJob
  <2>5. ChildrenFound'
    <3>1. SUFFICES ASSUME NEW c \in Job, parent'[c] # NoJob, parent'[c] \notin doubtful'
                   PROVE  Found(c)'
      BY FoundSuffices
    <3>2. parent'[c] = parent[c] /\ parent[c] # NoJob /\ parent[c] \notin doubtful
      BY <1>1, <2>0, <3>1 DEF Inductive, DesignerInv, DesignerTypeOK, Job, NoJob
    <3>3. Found(c) /\ parent[c] \in Job
      BY <3>2, FoundMeans DEF Inductive, DesignerInv, DesignerTypeOK
    <3>4. QED
      BY <1>1, <2>0, <3>1, <3>2, <3>3, DesignerAssumption, SMTT(30) DEF Inductive, DesignerInv,
         DesignerTypeOK, RunnersApart, Lineage, HandsKnown, AtWork, Found, Job, NoJob
  <2>6. EndingsExplained'
    <3>1. child[p] # NoJob
      BY <1>1, InTable DEF Job, NoJob
    <3>2. \A i \in Job : i # cand[p] => status'[i] = status[i] /\ next'[i] = next[i]
      BY <1>1, <2>0 DEF Inductive, DesignerInv, DesignerTypeOK
    <3>3. next'[cand[p]] = child[p] /\ UNCHANGED <<verdict, doubtful, aged>>
      BY <1>1, <2>0 DEF Inductive, DesignerInv, DesignerTypeOK
    <3>4. QED
      BY <3>1, <3>2, <3>3 DEF Inductive, EndingsExplained
  <2>7. QED
    BY <2>1, <2>2, <2>3, <2>4, <2>5, <2>6 DEF Inductive, DesignerInv
<1>2. ASSUME
         /\ pc[p] = "mark"
         /\ status[cand[p]] # "running"
         /\ pc' = [pc EXCEPT ![p] = "idle"]
         /\ cand' = [cand EXCEPT ![p] = NoJob]
         /\ todo' = [todo EXCEPT ![p] = {}]
         /\ rest' = [rest EXCEPT ![p] = "untried"]
         /\ child' = [child EXCEPT ![p] = NoJob]
         /\ UNCHANGED <<created, status, ugc, parent, depth, next, stale, aged, rpc, rcand,
            rchild, waiting, silent, verdict, doubtful, faults>>
       PROVE  Inductive'
  <2>0. /\ AtWork(p) /\ cand[p] \in Job /\ cand[p] # NoJob /\ cand[p] <= created
        /\ status[cand[p]] \notin {"none", "pending"}
        /\ \A q \in Runner : AtWork(q) /\ cand[q] = cand[p] => q = p
        /\ cand[p] \notin doubtful => \A r \in Reaper : rpc[r] \in {"mark", "fail"} => rcand[r] # cand[p]
        /\ cand[p] \notin doubtful /\ rest[p] # "child" =>
             status[cand[p]] = "running" /\ next[cand[p]] = NoJob
        /\ cand[p] \notin doubtful /\ rest[p] = "child" => next[cand[p]] # NoJob
    BY <1>2, InHand DEF AtWork
  <2>1. DesignerTypeOK'
    BY <1>2, <2>0, DesignerAssumption DEF Inductive, DesignerInv, DesignerTypeOK, RunnersApart,
       AtWork, PC, Status, Verdict, Job, NoJob
  <2>2. RunnersApart'
    BY <1>2, <2>0, DesignerAssumption DEF Inductive, DesignerInv, DesignerTypeOK, RunnersApart,
       AtWork, Job, NoJob
  <2>3. Lineage'
    BY <1>2, <2>0, DesignerAssumption DEF Inductive, DesignerInv, DesignerTypeOK, Lineage,
       RunnersApart, Job, NoJob
  <2>4. HandsKnown'
    BY <1>2, <2>0, DesignerAssumption DEF Inductive, DesignerInv, DesignerTypeOK, HandsKnown,
       RunnersApart, Lineage, AtWork, Job, NoJob
  <2>5. ChildrenFound'
    <3>1. SUFFICES ASSUME NEW c \in Job, parent'[c] # NoJob, parent'[c] \notin doubtful'
                   PROVE  Found(c)'
      BY FoundSuffices
    <3>2. parent'[c] = parent[c] /\ parent[c] # NoJob /\ parent[c] \notin doubtful
      BY <1>2, <2>0, <3>1 DEF Inductive, DesignerInv, DesignerTypeOK, Job, NoJob
    <3>3. Found(c) /\ parent[c] \in Job
      BY <3>2, FoundMeans DEF Inductive, DesignerInv, DesignerTypeOK
    <3>4. QED
      BY <1>2, <2>0, <3>1, <3>2, <3>3, DesignerAssumption DEF Inductive, DesignerInv,
         DesignerTypeOK, RunnersApart, Lineage, HandsKnown, AtWork, Found, Job, NoJob
  <2>6. EndingsExplained'
    BY <1>2, EndingsFrame DEF Inductive, DesignerInv
  <2>7. QED
    BY <2>1, <2>2, <2>3, <2>4, <2>5, <2>6 DEF Inductive, DesignerInv
<1>3. ASSUME
         /\ pc[p] = "mark"
         /\ pc' = [pc EXCEPT ![p] = "idle"]
         /\ cand' = [cand EXCEPT ![p] = NoJob]
         /\ todo' = [todo EXCEPT ![p] = {}]
         /\ rest' = [rest EXCEPT ![p] = "untried"]
         /\ child' = [child EXCEPT ![p] = NoJob]
         /\ doubtful' = doubtful \cup {cand[p]}
         /\ faults' \in 0..MaxFaults
         /\ UNCHANGED <<created, status, ugc, parent, depth, next, stale, aged, rpc, rcand,
            rchild, waiting, silent, verdict>>
       PROVE  Inductive'
  <2>0. /\ AtWork(p) /\ cand[p] \in Job /\ cand[p] # NoJob /\ cand[p] <= created
        /\ status[cand[p]] \notin {"none", "pending"}
        /\ \A q \in Runner : AtWork(q) /\ cand[q] = cand[p] => q = p
        /\ cand[p] \notin doubtful => \A r \in Reaper : rpc[r] \in {"mark", "fail"} => rcand[r] # cand[p]
        /\ cand[p] \notin doubtful /\ rest[p] # "child" =>
             status[cand[p]] = "running" /\ next[cand[p]] = NoJob
        /\ cand[p] \notin doubtful /\ rest[p] = "child" => next[cand[p]] # NoJob
    BY <1>3, InHand DEF AtWork
  <2>1. DesignerTypeOK'
    BY <1>3, <2>0, DesignerAssumption DEF Inductive, DesignerInv, DesignerTypeOK, RunnersApart,
       AtWork, PC, Status, Verdict, Job, NoJob
  <2>2. RunnersApart'
    BY <1>3, <2>0, DesignerAssumption DEF Inductive, DesignerInv, DesignerTypeOK, RunnersApart,
       AtWork, Job, NoJob
  <2>3. Lineage'
    BY <1>3, <2>0, DesignerAssumption DEF Inductive, DesignerInv, DesignerTypeOK, Lineage,
       RunnersApart, Job, NoJob
  <2>4. HandsKnown'
    BY <1>3, <2>0, DesignerAssumption DEF Inductive, DesignerInv, DesignerTypeOK, HandsKnown,
       RunnersApart, Lineage, AtWork, Job, NoJob
  <2>5. ChildrenFound'
    <3>1. SUFFICES ASSUME NEW c \in Job, parent'[c] # NoJob, parent'[c] \notin doubtful'
                   PROVE  Found(c)'
      BY FoundSuffices
    <3>2. parent'[c] = parent[c] /\ parent[c] # NoJob /\ parent[c] \notin doubtful
      BY <1>3, <2>0, <3>1 DEF Inductive, DesignerInv, DesignerTypeOK, Job, NoJob
    <3>3. Found(c) /\ parent[c] \in Job
      BY <3>2, FoundMeans DEF Inductive, DesignerInv, DesignerTypeOK
    <3>4. QED
      BY <1>3, <2>0, <3>1, <3>2, <3>3, DesignerAssumption DEF Inductive, DesignerInv,
         DesignerTypeOK, RunnersApart, Lineage, HandsKnown, AtWork, Found, Job, NoJob
  <2>6. EndingsExplained'
    BY <1>3, <2>0, DesignerAssumption DEF Inductive, DesignerInv, DesignerTypeOK,
       EndingsExplained, RunnersApart, HandsKnown, AtWork, Job, NoJob
  <2>7. QED
    BY <2>1, <2>2, <2>3, <2>4, <2>5, <2>6 DEF Inductive, DesignerInv
<1>4. ASSUME
         /\ pc[p] = "midmark"
         /\ status[cand[p]] = "running"
         /\ status' = [status EXCEPT ![cand[p]] = "done"]
         /\ next' = [next EXCEPT ![cand[p]] = child[p]]
         /\ pc' = [pc EXCEPT ![p] = "slice"]
         /\ rest' = [rest EXCEPT ![p] = "child"]
         /\ child' = [child EXCEPT ![p] = NoJob]
         /\ UNCHANGED <<created, ugc, parent, depth, stale, aged, cand, todo, rpc, rcand, rchild,
            waiting, silent, verdict, doubtful, faults>>
       PROVE  Inductive'
  <2>0. /\ AtWork(p) /\ cand[p] \in Job /\ cand[p] # NoJob /\ cand[p] <= created
        /\ status[cand[p]] \notin {"none", "pending"}
        /\ \A q \in Runner : AtWork(q) /\ cand[q] = cand[p] => q = p
        /\ cand[p] \notin doubtful => \A r \in Reaper : rpc[r] \in {"mark", "fail"} => rcand[r] # cand[p]
        /\ cand[p] \notin doubtful /\ rest[p] # "child" =>
             status[cand[p]] = "running" /\ next[cand[p]] = NoJob
        /\ cand[p] \notin doubtful /\ rest[p] = "child" => next[cand[p]] # NoJob
    BY <1>4, InHand DEF AtWork
  <2>1. DesignerTypeOK'
    BY <1>4, <2>0, DesignerAssumption DEF Inductive, DesignerInv, DesignerTypeOK, RunnersApart,
       AtWork, PC, Status, Verdict, Job, NoJob
  <2>2. RunnersApart'
    BY <1>4, <2>0, DesignerAssumption DEF Inductive, DesignerInv, DesignerTypeOK, RunnersApart,
       AtWork, Job, NoJob
  <2>3. Lineage'
    BY <1>4, <2>0, DesignerAssumption, SMTT(30) DEF Inductive, DesignerInv, DesignerTypeOK, Lineage,
       RunnersApart, Job, NoJob
  <2>4. HandsKnown'
    BY <1>4, <2>0, DesignerAssumption, SMTT(30) DEF Inductive, DesignerInv, DesignerTypeOK, HandsKnown,
       RunnersApart, Lineage, AtWork, Job, NoJob
  <2>5. ChildrenFound'
    <3>1. SUFFICES ASSUME NEW c \in Job, parent'[c] # NoJob, parent'[c] \notin doubtful'
                   PROVE  Found(c)'
      BY FoundSuffices
    <3>2. parent'[c] = parent[c] /\ parent[c] # NoJob /\ parent[c] \notin doubtful
      BY <1>4, <2>0, <3>1 DEF Inductive, DesignerInv, DesignerTypeOK, Job, NoJob
    <3>3. Found(c) /\ parent[c] \in Job
      BY <3>2, FoundMeans DEF Inductive, DesignerInv, DesignerTypeOK
    <3>4. QED
      BY <1>4, <2>0, <3>1, <3>2, <3>3, DesignerAssumption, SMTT(30) DEF Inductive, DesignerInv,
         DesignerTypeOK, RunnersApart, Lineage, HandsKnown, AtWork, Found, Job, NoJob
  <2>6. EndingsExplained'
    BY <1>4, <2>0, InTable, SMTT(30) DEF Inductive, DesignerInv, DesignerTypeOK, EndingsExplained, Job, NoJob
  <2>7. QED
    BY <2>1, <2>2, <2>3, <2>4, <2>5, <2>6 DEF Inductive, DesignerInv
<1>5. ASSUME
         /\ pc[p] = "midmark"
         /\ status[cand[p]] # "running"
         /\ pc' = [pc EXCEPT ![p] = "slice"]
         /\ rest' = [rest EXCEPT ![p] = "child"]
         /\ child' = [child EXCEPT ![p] = NoJob]
         /\ UNCHANGED <<created, status, ugc, parent, depth, next, stale, aged, cand, todo, rpc,
            rcand, rchild, waiting, silent, verdict, doubtful, faults>>
       PROVE  Inductive'
  <2>0. /\ AtWork(p) /\ cand[p] \in Job /\ cand[p] # NoJob /\ cand[p] <= created
        /\ status[cand[p]] \notin {"none", "pending"}
        /\ \A q \in Runner : AtWork(q) /\ cand[q] = cand[p] => q = p
        /\ cand[p] \notin doubtful => \A r \in Reaper : rpc[r] \in {"mark", "fail"} => rcand[r] # cand[p]
        /\ cand[p] \notin doubtful /\ rest[p] # "child" =>
             status[cand[p]] = "running" /\ next[cand[p]] = NoJob
        /\ cand[p] \notin doubtful /\ rest[p] = "child" => next[cand[p]] # NoJob
    BY <1>5, InHand DEF AtWork
  <2>1. DesignerTypeOK'
    BY <1>5, <2>0, DesignerAssumption DEF Inductive, DesignerInv, DesignerTypeOK, RunnersApart,
       AtWork, PC, Status, Verdict, Job, NoJob
  <2>2. RunnersApart'
    BY <1>5, <2>0, DesignerAssumption DEF Inductive, DesignerInv, DesignerTypeOK, RunnersApart,
       AtWork, Job, NoJob
  <2>3. Lineage'
    BY <1>5, <2>0, DesignerAssumption DEF Inductive, DesignerInv, DesignerTypeOK, Lineage,
       RunnersApart, Job, NoJob
  <2>4. HandsKnown'
    BY <1>5, <2>0, DesignerAssumption DEF Inductive, DesignerInv, DesignerTypeOK, HandsKnown,
       RunnersApart, Lineage, AtWork, Job, NoJob
  <2>5. ChildrenFound'
    <3>1. SUFFICES ASSUME NEW c \in Job, parent'[c] # NoJob, parent'[c] \notin doubtful'
                   PROVE  Found(c)'
      BY FoundSuffices
    <3>2. parent'[c] = parent[c] /\ parent[c] # NoJob /\ parent[c] \notin doubtful
      BY <1>5, <2>0, <3>1 DEF Inductive, DesignerInv, DesignerTypeOK, Job, NoJob
    <3>3. Found(c) /\ parent[c] \in Job
      BY <3>2, FoundMeans DEF Inductive, DesignerInv, DesignerTypeOK
    <3>4. QED
      BY <1>5, <2>0, <3>1, <3>2, <3>3, DesignerAssumption DEF Inductive, DesignerInv,
         DesignerTypeOK, RunnersApart, Lineage, HandsKnown, AtWork, Found, Job, NoJob
  <2>6. EndingsExplained'
    BY <1>5, EndingsFrame DEF Inductive, DesignerInv
  <2>7. QED
    BY <2>1, <2>2, <2>3, <2>4, <2>5, <2>6 DEF Inductive, DesignerInv
<1>6. ASSUME
         /\ pc[p] = "midmark"
         /\ pc' = [pc EXCEPT ![p] = "slice"]
         /\ rest' = [rest EXCEPT ![p] = "child"]
         /\ child' = [child EXCEPT ![p] = NoJob]
         /\ doubtful' = doubtful \cup {cand[p]}
         /\ faults' \in 0..MaxFaults
         /\ UNCHANGED <<created, status, ugc, parent, depth, next, stale, aged, cand, todo, rpc,
            rcand, rchild, waiting, silent, verdict>>
       PROVE  Inductive'
  <2>0. /\ AtWork(p) /\ cand[p] \in Job /\ cand[p] # NoJob /\ cand[p] <= created
        /\ status[cand[p]] \notin {"none", "pending"}
        /\ \A q \in Runner : AtWork(q) /\ cand[q] = cand[p] => q = p
        /\ cand[p] \notin doubtful => \A r \in Reaper : rpc[r] \in {"mark", "fail"} => rcand[r] # cand[p]
        /\ cand[p] \notin doubtful /\ rest[p] # "child" =>
             status[cand[p]] = "running" /\ next[cand[p]] = NoJob
        /\ cand[p] \notin doubtful /\ rest[p] = "child" => next[cand[p]] # NoJob
    BY <1>6, InHand DEF AtWork
  <2>1. DesignerTypeOK'
    BY <1>6, <2>0, DesignerAssumption DEF Inductive, DesignerInv, DesignerTypeOK, RunnersApart,
       AtWork, PC, Status, Verdict, Job, NoJob
  <2>2. RunnersApart'
    BY <1>6, <2>0, DesignerAssumption DEF Inductive, DesignerInv, DesignerTypeOK, RunnersApart,
       AtWork, Job, NoJob
  <2>3. Lineage'
    BY <1>6, <2>0, DesignerAssumption DEF Inductive, DesignerInv, DesignerTypeOK, Lineage,
       RunnersApart, Job, NoJob
  <2>4. HandsKnown'
    BY <1>6, <2>0, DesignerAssumption DEF Inductive, DesignerInv, DesignerTypeOK, HandsKnown,
       RunnersApart, Lineage, AtWork, Job, NoJob
  <2>5. ChildrenFound'
    <3>1. SUFFICES ASSUME NEW c \in Job, parent'[c] # NoJob, parent'[c] \notin doubtful'
                   PROVE  Found(c)'
      BY FoundSuffices
    <3>2. parent'[c] = parent[c] /\ parent[c] # NoJob /\ parent[c] \notin doubtful
      BY <1>6, <2>0, <3>1 DEF Inductive, DesignerInv, DesignerTypeOK, Job, NoJob
    <3>3. Found(c) /\ parent[c] \in Job
      BY <3>2, FoundMeans DEF Inductive, DesignerInv, DesignerTypeOK
    <3>4. QED
      BY <1>6, <2>0, <3>1, <3>2, <3>3, DesignerAssumption DEF Inductive, DesignerInv,
         DesignerTypeOK, RunnersApart, Lineage, HandsKnown, AtWork, Found, Job, NoJob
  <2>6. EndingsExplained'
    BY <1>6, <2>0, DesignerAssumption DEF Inductive, DesignerInv, DesignerTypeOK,
       EndingsExplained, RunnersApart, HandsKnown, AtWork, Job, NoJob
  <2>7. QED
    BY <2>1, <2>2, <2>3, <2>4, <2>5, <2>6 DEF Inductive, DesignerInv
<1>7. QED
  <2>1. faults \in 0..MaxFaults /\ (Fault => faults' \in 0..MaxFaults)
    BY DesignerAssumption DEF Fault, Inductive, DesignerInv, DesignerTypeOK
  <2>2. CASE pc[p] = "mark"
    <3>1. CASE Point(cand[p], child[p]) /\ UNCHANGED <<doubtful, faults>> /\ status[cand[p]] = "running"
      BY <1>1, <2>2, <3>1 DEF PointToChild, Point, MarkedAs, Leave
    <3>2. CASE Point(cand[p], child[p]) /\ UNCHANGED <<doubtful, faults>> /\ status[cand[p]] # "running"
      BY <1>2, <2>2, <3>2 DEF PointToChild, Point, Leave
    <3>3. CASE Fault /\ doubtful' = doubtful \cup {cand[p]} /\ UNCHANGED rows
      BY <1>3, <2>1, <2>2, <3>3 DEF PointToChild, Leave
    <3>4. QED
      BY <2>2, <3>1, <3>2, <3>3 DEF PointToChild
  <2>3. CASE pc[p] = "midmark"
    <3>1. CASE Point(cand[p], child[p]) /\ UNCHANGED <<doubtful, faults>> /\ status[cand[p]] = "running"
      BY <1>4, <2>3, <3>1 DEF PointToChild, Point, MarkedAs
    <3>2. CASE Point(cand[p], child[p]) /\ UNCHANGED <<doubtful, faults>> /\ status[cand[p]] # "running"
      BY <1>5, <2>3, <3>2 DEF PointToChild, Point
    <3>3. CASE Fault /\ doubtful' = doubtful \cup {cand[p]} /\ UNCHANGED rows
      BY <1>6, <2>1, <2>3, <3>3 DEF PointToChild
    <3>4. QED
      BY <2>3, <3>1, <3>2, <3>3 DEF PointToChild
  <2>4. QED
    BY <2>2, <2>3 DEF PointToChild

\* A runner closes its row, or dies.
LEMMA ClosingKeeps ==
  ASSUME Inductive, NEW p \in Runner,
         Close(p) \/ Die(p)
  PROVE  Inductive'
<1>1. ASSUME
         /\ pc[p] \in {"done", "failed"}
         /\ status' = [status EXCEPT ![cand[p]] = pc[p]]
         /\ next' = [next EXCEPT ![cand[p]] = NoJob]
         /\ pc' = [pc EXCEPT ![p] = "idle"]
         /\ cand' = [cand EXCEPT ![p] = NoJob]
         /\ todo' = [todo EXCEPT ![p] = {}]
         /\ rest' = [rest EXCEPT ![p] = "untried"]
         /\ child' = [child EXCEPT ![p] = NoJob]
         /\ UNCHANGED <<created, ugc, parent, depth, stale, aged, rpc, rcand, rchild, waiting,
            silent, verdict, doubtful, faults>>
       PROVE  Inductive'
  <2>0. /\ AtWork(p) /\ cand[p] \in Job /\ cand[p] # NoJob /\ cand[p] <= created
        /\ status[cand[p]] \notin {"none", "pending"}
        /\ \A q \in Runner : AtWork(q) /\ cand[q] = cand[p] => q = p
        /\ cand[p] \notin doubtful => \A r \in Reaper : rpc[r] \in {"mark", "fail"} => rcand[r] # cand[p]
        /\ cand[p] \notin doubtful /\ rest[p] # "child" =>
             status[cand[p]] = "running" /\ next[cand[p]] = NoJob
        /\ cand[p] \notin doubtful /\ rest[p] = "child" => next[cand[p]] # NoJob
    BY <1>1, InHand DEF AtWork
  <2>1. DesignerTypeOK'
    BY <1>1, <2>0, DesignerAssumption DEF Inductive, DesignerInv, DesignerTypeOK, RunnersApart,
       AtWork, PC, Status, Verdict, Job, NoJob
  <2>2. RunnersApart'
    BY <1>1, <2>0, DesignerAssumption DEF Inductive, DesignerInv, DesignerTypeOK, RunnersApart,
       AtWork, Job, NoJob
  <2>3. Lineage'
    BY <1>1, <2>0, DesignerAssumption DEF Inductive, DesignerInv, DesignerTypeOK, Lineage,
       RunnersApart, Job, NoJob
  <2>4. HandsKnown'
    BY <1>1, <2>0, DesignerAssumption DEF Inductive, DesignerInv, DesignerTypeOK, HandsKnown,
       RunnersApart, Lineage, AtWork, Job, NoJob
  <2>5. ChildrenFound'
    <3>1. SUFFICES ASSUME NEW c \in Job, parent'[c] # NoJob, parent'[c] \notin doubtful'
                   PROVE  Found(c)'
      BY FoundSuffices
    <3>2. parent'[c] = parent[c] /\ parent[c] # NoJob /\ parent[c] \notin doubtful
      BY <1>1, <2>0, <3>1 DEF Inductive, DesignerInv, DesignerTypeOK, Job, NoJob
    <3>3. Found(c) /\ parent[c] \in Job
      BY <3>2, FoundMeans DEF Inductive, DesignerInv, DesignerTypeOK
    <3>4. QED
      BY <1>1, <2>0, <3>1, <3>2, <3>3, DesignerAssumption DEF Inductive, DesignerInv,
         DesignerTypeOK, RunnersApart, Lineage, HandsKnown, AtWork, Found, Job, NoJob
  <2>6. EndingsExplained'
    BY <1>1, <2>0, DesignerAssumption DEF Inductive, DesignerInv, DesignerTypeOK,
       EndingsExplained, RunnersApart, HandsKnown, AtWork, Job, NoJob
  <2>7. QED
    BY <2>1, <2>2, <2>3, <2>4, <2>5, <2>6 DEF Inductive, DesignerInv
<1>2. ASSUME
         /\ pc[p] \in {"done", "failed"}
         /\ pc' = [pc EXCEPT ![p] = "idle"]
         /\ cand' = [cand EXCEPT ![p] = NoJob]
         /\ todo' = [todo EXCEPT ![p] = {}]
         /\ rest' = [rest EXCEPT ![p] = "untried"]
         /\ child' = [child EXCEPT ![p] = NoJob]
         /\ faults' \in 0..MaxFaults
         /\ UNCHANGED <<created, status, ugc, parent, depth, next, stale, aged, rpc, rcand,
            rchild, waiting, silent, verdict, doubtful>>
       PROVE  Inductive'
  <2>0. /\ AtWork(p) /\ cand[p] \in Job /\ cand[p] # NoJob /\ cand[p] <= created
        /\ status[cand[p]] \notin {"none", "pending"}
        /\ \A q \in Runner : AtWork(q) /\ cand[q] = cand[p] => q = p
        /\ cand[p] \notin doubtful => \A r \in Reaper : rpc[r] \in {"mark", "fail"} => rcand[r] # cand[p]
        /\ cand[p] \notin doubtful /\ rest[p] # "child" =>
             status[cand[p]] = "running" /\ next[cand[p]] = NoJob
        /\ cand[p] \notin doubtful /\ rest[p] = "child" => next[cand[p]] # NoJob
    BY <1>2, InHand DEF AtWork
  <2>1. DesignerTypeOK'
    BY <1>2, <2>0, DesignerAssumption DEF Inductive, DesignerInv, DesignerTypeOK, RunnersApart,
       AtWork, PC, Status, Verdict, Job, NoJob
  <2>2. RunnersApart'
    BY <1>2, <2>0, DesignerAssumption DEF Inductive, DesignerInv, DesignerTypeOK, RunnersApart,
       AtWork, Job, NoJob
  <2>3. Lineage'
    BY <1>2, <2>0, DesignerAssumption DEF Inductive, DesignerInv, DesignerTypeOK, Lineage,
       RunnersApart, Job, NoJob
  <2>4. HandsKnown'
    BY <1>2, <2>0, DesignerAssumption DEF Inductive, DesignerInv, DesignerTypeOK, HandsKnown,
       RunnersApart, Lineage, AtWork, Job, NoJob
  <2>5. ChildrenFound'
    <3>1. SUFFICES ASSUME NEW c \in Job, parent'[c] # NoJob, parent'[c] \notin doubtful'
                   PROVE  Found(c)'
      BY FoundSuffices
    <3>2. parent'[c] = parent[c] /\ parent[c] # NoJob /\ parent[c] \notin doubtful
      BY <1>2, <2>0, <3>1 DEF Inductive, DesignerInv, DesignerTypeOK, Job, NoJob
    <3>3. Found(c) /\ parent[c] \in Job
      BY <3>2, FoundMeans DEF Inductive, DesignerInv, DesignerTypeOK
    <3>4. QED
      BY <1>2, <2>0, <3>1, <3>2, <3>3, DesignerAssumption DEF Inductive, DesignerInv,
         DesignerTypeOK, RunnersApart, Lineage, HandsKnown, AtWork, Found, Job, NoJob
  <2>6. EndingsExplained'
    BY <1>2, EndingsFrame DEF Inductive, DesignerInv
  <2>7. QED
    BY <2>1, <2>2, <2>3, <2>4, <2>5, <2>6 DEF Inductive, DesignerInv
<1>3. ASSUME
         /\ pc[p] # "idle"
         /\ pc[p] \notin {"midmark", "mark"}
         /\ pc' = [pc EXCEPT ![p] = "idle"]
         /\ cand' = [cand EXCEPT ![p] = NoJob]
         /\ todo' = [todo EXCEPT ![p] = {}]
         /\ rest' = [rest EXCEPT ![p] = "untried"]
         /\ child' = [child EXCEPT ![p] = NoJob]
         /\ faults' \in 0..MaxFaults
         /\ UNCHANGED <<created, status, ugc, parent, depth, next, stale, aged, rpc, rcand,
            rchild, waiting, silent, verdict, doubtful>>
       PROVE  Inductive'
  <2>1. DesignerTypeOK'
    BY <1>3, DesignerAssumption DEF Inductive, DesignerInv, DesignerTypeOK, RunnersApart, AtWork,
       PC, Status, Verdict, Job, NoJob
  <2>2. RunnersApart'
    BY <1>3, DesignerAssumption DEF Inductive, DesignerInv, DesignerTypeOK, RunnersApart, AtWork,
       Job, NoJob
  <2>3. Lineage'
    BY <1>3, DesignerAssumption DEF Inductive, DesignerInv, DesignerTypeOK, Lineage, RunnersApart,
       Job, NoJob
  <2>4. HandsKnown'
    BY <1>3, DesignerAssumption DEF Inductive, DesignerInv, DesignerTypeOK, HandsKnown,
       RunnersApart, Lineage, AtWork, Job, NoJob
  <2>5. ChildrenFound'
    <3>1. SUFFICES ASSUME NEW c \in Job, parent'[c] # NoJob, parent'[c] \notin doubtful'
                   PROVE  Found(c)'
      BY FoundSuffices
    <3>2. parent'[c] = parent[c] /\ parent[c] # NoJob /\ parent[c] \notin doubtful
      BY <1>3, <3>1 DEF Inductive, DesignerInv, DesignerTypeOK, Job, NoJob
    <3>3. Found(c) /\ parent[c] \in Job
      BY <3>2, FoundMeans DEF Inductive, DesignerInv, DesignerTypeOK
    <3>4. QED
      BY <1>3, <3>1, <3>2, <3>3, DesignerAssumption DEF Inductive, DesignerInv, DesignerTypeOK,
         RunnersApart, Lineage, HandsKnown, AtWork, Found, Job, NoJob
  <2>6. EndingsExplained'
    BY <1>3, EndingsFrame DEF Inductive, DesignerInv
  <2>7. QED
    BY <2>1, <2>2, <2>3, <2>4, <2>5, <2>6 DEF Inductive, DesignerInv
<1>4. ASSUME
         /\ pc[p] \in {"midmark", "mark"}
         /\ pc' = [pc EXCEPT ![p] = "idle"]
         /\ cand' = [cand EXCEPT ![p] = NoJob]
         /\ todo' = [todo EXCEPT ![p] = {}]
         /\ rest' = [rest EXCEPT ![p] = "untried"]
         /\ child' = [child EXCEPT ![p] = NoJob]
         /\ doubtful' = doubtful \cup {cand[p]}
         /\ faults' \in 0..MaxFaults
         /\ UNCHANGED <<created, status, ugc, parent, depth, next, stale, aged, rpc, rcand,
            rchild, waiting, silent, verdict>>
       PROVE  Inductive'
  <2>0. /\ AtWork(p) /\ cand[p] \in Job /\ cand[p] # NoJob /\ cand[p] <= created
        /\ status[cand[p]] \notin {"none", "pending"}
        /\ \A q \in Runner : AtWork(q) /\ cand[q] = cand[p] => q = p
        /\ cand[p] \notin doubtful => \A r \in Reaper : rpc[r] \in {"mark", "fail"} => rcand[r] # cand[p]
        /\ cand[p] \notin doubtful /\ rest[p] # "child" =>
             status[cand[p]] = "running" /\ next[cand[p]] = NoJob
        /\ cand[p] \notin doubtful /\ rest[p] = "child" => next[cand[p]] # NoJob
    BY <1>4, InHand DEF AtWork
  <2>1. DesignerTypeOK'
    BY <1>4, <2>0, DesignerAssumption DEF Inductive, DesignerInv, DesignerTypeOK, RunnersApart,
       AtWork, PC, Status, Verdict, Job, NoJob
  <2>2. RunnersApart'
    BY <1>4, <2>0, DesignerAssumption DEF Inductive, DesignerInv, DesignerTypeOK, RunnersApart,
       AtWork, Job, NoJob
  <2>3. Lineage'
    BY <1>4, <2>0, DesignerAssumption DEF Inductive, DesignerInv, DesignerTypeOK, Lineage,
       RunnersApart, Job, NoJob
  <2>4. HandsKnown'
    BY <1>4, <2>0, DesignerAssumption DEF Inductive, DesignerInv, DesignerTypeOK, HandsKnown,
       RunnersApart, Lineage, AtWork, Job, NoJob
  <2>5. ChildrenFound'
    <3>1. SUFFICES ASSUME NEW c \in Job, parent'[c] # NoJob, parent'[c] \notin doubtful'
                   PROVE  Found(c)'
      BY FoundSuffices
    <3>2. parent'[c] = parent[c] /\ parent[c] # NoJob /\ parent[c] \notin doubtful
      BY <1>4, <2>0, <3>1 DEF Inductive, DesignerInv, DesignerTypeOK, Job, NoJob
    <3>3. Found(c) /\ parent[c] \in Job
      BY <3>2, FoundMeans DEF Inductive, DesignerInv, DesignerTypeOK
    <3>4. QED
      BY <1>4, <2>0, <3>1, <3>2, <3>3, DesignerAssumption DEF Inductive, DesignerInv,
         DesignerTypeOK, RunnersApart, Lineage, HandsKnown, AtWork, Found, Job, NoJob
  <2>6. EndingsExplained'
    BY <1>4, <2>0, DesignerAssumption DEF Inductive, DesignerInv, DesignerTypeOK,
       EndingsExplained, RunnersApart, HandsKnown, AtWork, Job, NoJob
  <2>7. QED
    BY <2>1, <2>2, <2>3, <2>4, <2>5, <2>6 DEF Inductive, DesignerInv
<1>5. QED
  <2>1. faults \in 0..MaxFaults /\ (Fault => faults' \in 0..MaxFaults)
    BY DesignerAssumption DEF Fault, Inductive, DesignerInv, DesignerTypeOK
  <2>2. CASE Close(p)
    <3>1. CASE FinishAs(cand[p], pc[p]) /\ UNCHANGED faults
      BY <1>1, <2>2, <3>1 DEF Close, Closed, FinishAs, Leave
    <3>2. CASE Fault /\ UNCHANGED rows
      BY <1>2, <2>1, <2>2, <3>2 DEF Close, Closed, Leave
    <3>3. QED
      BY <2>2, <3>1, <3>2 DEF Close
  <2>3. CASE Die(p)
    <3>1. CASE pc[p] \in {"midmark", "mark"}
      BY <1>4, <2>1, <2>3, <3>1 DEF Die, Leave
    <3>2. CASE pc[p] \notin {"midmark", "mark"}
      BY <1>3, <2>1, <2>3, <3>2 DEF Die, Leave
    <3>3. QED
      BY <3>1, <3>2
  <2>4. QED
    BY <2>2, <2>3

\* Time, and the beats of the runners.
LEMMA ClocksKeep ==
  ASSUME Inductive, \/ \E j \in Job : GoStale(j) \/ Age(j)
         \/ \E p \in Runner : Heartbeat(p)
  PROVE  Inductive'
<1>1. ASSUME
         /\ stale' \subseteq Job
         /\ aged' \subseteq Job /\ aged \subseteq aged'
         /\ faults' \in 0..MaxFaults
         /\ UNCHANGED <<created, status, ugc, parent, depth, next, pc, cand, todo, rest, child,
            rpc, rcand, rchild, waiting, silent, verdict, doubtful>>
       PROVE  Inductive'
  <2>1. DesignerTypeOK'
    BY <1>1, DesignerAssumption DEF Inductive, DesignerInv, DesignerTypeOK, RunnersApart, AtWork,
       PC, Status, Verdict, Job, NoJob
  <2>2. RunnersApart'
    BY <1>1, ApartFrame DEF Inductive, DesignerInv
  <2>3. Lineage'
    BY <1>1, LineageFrame DEF Inductive, DesignerInv
  <2>4. HandsKnown'
    BY <1>1, HandsFrame DEF Inductive, DesignerInv
  <2>5. ChildrenFound'
    BY <1>1, FoundFrame DEF Inductive, DesignerInv
  <2>6. EndingsExplained'
    BY <1>1, DesignerAssumption DEF Inductive, DesignerInv, DesignerTypeOK, EndingsExplained,
       RunnersApart, HandsKnown, AtWork, Job, NoJob
  <2>7. QED
    BY <2>1, <2>2, <2>3, <2>4, <2>5, <2>6 DEF Inductive, DesignerInv
<1>2. QED
  <2>1. faults \in 0..MaxFaults /\ (Fault => faults' \in 0..MaxFaults)
    BY DesignerAssumption DEF Fault, Inductive, DesignerInv, DesignerTypeOK
  <2>2. stale \subseteq Job /\ aged \subseteq Job
    BY DEF Inductive, DesignerInv, DesignerTypeOK
  <2>3. ASSUME NEW j \in Job, GoStale(j) PROVE Inductive'
    BY <1>1, <2>1, <2>2, <2>3 DEF GoStale
  <2>4. ASSUME NEW j \in Job, Age(j) PROVE Inductive'
    BY <1>1, <2>1, <2>2, <2>4 DEF Age
  <2>5. ASSUME NEW p \in Runner, Heartbeat(p) PROVE Inductive'
    BY <1>1, <2>1, <2>2, <2>5 DEF Heartbeat
  <2>6. QED
    BY <2>3, <2>4, <2>5

\* A sweep lists rows and passes over some.
LEMMA SweepingKeeps ==
  ASSUME Inductive, NEW r \in Reaper,
         StartSweep(r) \/ ReapSkip(r) \/ ReapOrphan(r) \/ ReapContinue(r)
  PROVE  Inductive'
<1>1. ASSUME
         /\ rpc[r] = "idle"
         /\ rpc' = [rpc EXCEPT ![r] = "sweep"]
         /\ waiting' \in [Reaper -> SUBSET Job] /\ \A q \in Reaper : waiting'[q] \subseteq 1..created
         /\ silent' \in [Reaper -> SUBSET Job] /\ \A q \in Reaper : silent'[q] \subseteq 1..created
         /\ UNCHANGED <<created, status, ugc, parent, depth, next, stale, aged, pc, cand, todo,
            rest, child, rcand, rchild, verdict, doubtful, faults>>
       PROVE  Inductive'
  <2>1. DesignerTypeOK'
    BY <1>1, DesignerAssumption DEF Inductive, DesignerInv, DesignerTypeOK, RunnersApart, AtWork,
       PC, Status, Verdict, Job, NoJob
  <2>2. RunnersApart'
    BY <1>1, DesignerAssumption DEF Inductive, DesignerInv, DesignerTypeOK, RunnersApart, AtWork,
       Job, NoJob
  <2>3. Lineage'
    BY <1>1, DesignerAssumption DEF Inductive, DesignerInv, DesignerTypeOK, Lineage, RunnersApart,
       Job, NoJob
  <2>4. HandsKnown'
    BY <1>1, DesignerAssumption DEF Inductive, DesignerInv, DesignerTypeOK, HandsKnown,
       RunnersApart, Lineage, AtWork, Job, NoJob
  <2>5. ChildrenFound'
    <3>1. SUFFICES ASSUME NEW c \in Job, parent'[c] # NoJob, parent'[c] \notin doubtful'
                   PROVE  Found(c)'
      BY FoundSuffices
    <3>2. parent'[c] = parent[c] /\ parent[c] # NoJob /\ parent[c] \notin doubtful
      BY <1>1, <3>1 DEF Inductive, DesignerInv, DesignerTypeOK, Job, NoJob
    <3>3. Found(c) /\ parent[c] \in Job
      BY <3>2, FoundMeans DEF Inductive, DesignerInv, DesignerTypeOK
    <3>4. QED
      BY <1>1, <3>1, <3>2, <3>3, DesignerAssumption DEF Inductive, DesignerInv, DesignerTypeOK,
         RunnersApart, Lineage, HandsKnown, AtWork, Found, Job, NoJob
  <2>6. EndingsExplained'
    BY <1>1, EndingsFrame DEF Inductive, DesignerInv
  <2>7. QED
    BY <2>1, <2>2, <2>3, <2>4, <2>5, <2>6 DEF Inductive, DesignerInv
<1>2. ASSUME
         /\ rpc[r] = "sweep"
         /\ waiting' \in [Reaper -> SUBSET Job] /\ \A q \in Reaper : waiting'[q] \subseteq 1..created
         /\ silent' \in [Reaper -> SUBSET Job] /\ \A q \in Reaper : silent'[q] \subseteq 1..created
         /\ faults' \in 0..MaxFaults
         /\ UNCHANGED <<created, status, ugc, parent, depth, next, stale, aged, pc, cand, todo,
            rest, child, rpc, rcand, rchild, verdict, doubtful>>
       PROVE  Inductive'
  <2>1. DesignerTypeOK'
    BY <1>2, DesignerAssumption DEF Inductive, DesignerInv, DesignerTypeOK, RunnersApart, AtWork,
       PC, Status, Verdict, Job, NoJob
  <2>2. RunnersApart'
    BY <1>2, DesignerAssumption DEF Inductive, DesignerInv, DesignerTypeOK, RunnersApart, AtWork,
       Job, NoJob
  <2>3. Lineage'
    BY <1>2, LineageFrame DEF Inductive, DesignerInv
  <2>4. HandsKnown'
    BY <1>2, HandsFrame DEF Inductive, DesignerInv
  <2>5. ChildrenFound'
    BY <1>2, FoundFrame DEF Inductive, DesignerInv
  <2>6. EndingsExplained'
    BY <1>2, EndingsFrame DEF Inductive, DesignerInv
  <2>7. QED
    BY <2>1, <2>2, <2>3, <2>4, <2>5, <2>6 DEF Inductive, DesignerInv
<1>3. ASSUME NEW j \in Job,
         /\ rpc[r] = "sweep"
         /\ j <= created
         /\ j \in aged
         /\ status' = [status EXCEPT ![j] = "failed"]
         /\ next' = [next EXCEPT ![j] = NoJob]
         /\ waiting' \in [Reaper -> SUBSET Job] /\ \A q \in Reaper : waiting'[q] \subseteq 1..created
         /\ silent' \in [Reaper -> SUBSET Job] /\ \A q \in Reaper : silent'[q] \subseteq 1..created
         /\ verdict' = [verdict EXCEPT ![j] = "waited"]
         /\ doubtful' = doubtful \/ doubtful' = doubtful \cup {j}
         /\ j \notin doubtful' =>
              /\ status[j] = "pending"
              /\ \A x \in Runner : AtWork(x) => cand[x] # j
              /\ \A q \in Reaper : rpc[q] \in {"mark", "fail"} => rcand[q] # j
         /\ UNCHANGED <<created, ugc, parent, depth, stale, aged, pc, cand, todo, rest, child,
            rpc, rcand, rchild, faults>>
       PROVE  Inductive'
  <2>0. /\ \A x \in Runner : AtWork(x) => cand[x] \in Job /\ cand[x] <= created /\ cand[x] # NoJob
        /\ \A q \in Reaper : rpc[q] \in {"mark", "fail"} => rcand[q] \in Job /\ rcand[q] <= created
        /\ 1..created \subseteq Job
    BY InHand, UnderReap, InTable
  <2>1. DesignerTypeOK'
    <3>1. doubtful' \subseteq Job
      BY <1>3 DEF Inductive, DesignerInv, DesignerTypeOK
    <3>2. QED
      BY <1>3, <2>0, <3>1 DEF Inductive, DesignerInv, DesignerTypeOK, Status, Verdict
  <2>2. RunnersApart'
    BY <1>3, <2>0, DesignerAssumption DEF Inductive, DesignerInv, DesignerTypeOK, RunnersApart,
       AtWork, Job, NoJob
  <2>3. Lineage'
    BY <1>3, <2>0, DesignerAssumption DEF Inductive, DesignerInv, DesignerTypeOK, Lineage,
       RunnersApart, Job, NoJob
  <2>4. HandsKnown'
    BY <1>3, <2>0, DesignerAssumption, SMTT(30) DEF Inductive, DesignerInv, DesignerTypeOK, HandsKnown,
       RunnersApart, Lineage, AtWork, Job, NoJob
  <2>5. ChildrenFound'
    <3>1. SUFFICES ASSUME NEW c \in Job, parent'[c] # NoJob, parent'[c] \notin doubtful'
                   PROVE  Found(c)'
      BY FoundSuffices
    <3>2. parent'[c] = parent[c] /\ parent[c] # NoJob /\ parent[c] \notin doubtful
      BY <1>3, <2>0, <3>1 DEF Inductive, DesignerInv, DesignerTypeOK, Job, NoJob
    <3>3. Found(c) /\ parent[c] \in Job
      BY <3>2, FoundMeans DEF Inductive, DesignerInv, DesignerTypeOK
    <3>4. QED
      <4>1. CASE next[parent[c]] = c
        BY <1>3, <2>0, <3>1, <3>2, <3>3, <4>1 DEF Inductive, DesignerInv, DesignerTypeOK,
           RunnersApart, Lineage, HandsKnown, AtWork, Found, Job, NoJob
      <4>2. CASE \E x \in Runner : pc[x] \in {"midmark", "mark"} /\ cand[x] = parent[c] /\ child[x] = c
        BY <1>3, <2>0, <3>1, <3>2, <3>3, <4>2 DEF Inductive, DesignerInv, DesignerTypeOK,
           RunnersApart, Lineage, HandsKnown, AtWork, Found, Job, NoJob
      <4>3. CASE \E q \in Reaper : rpc[q] = "mark" /\ rcand[q] = parent[c] /\ rchild[q] = c
        BY <1>3, <2>0, <3>1, <3>2, <3>3, <4>3 DEF Inductive, DesignerInv, DesignerTypeOK,
           RunnersApart, Lineage, HandsKnown, AtWork, Found, Job, NoJob
      <4>4. QED
        BY <3>1, <3>2, <3>3, <4>1, <4>2, <4>3 DEF Found
  <2>6. EndingsExplained'
    BY <1>3, <2>0, DesignerAssumption DEF Inductive, DesignerInv, DesignerTypeOK,
       EndingsExplained, RunnersApart, HandsKnown, AtWork, Job, NoJob
  <2>7. QED
    BY <2>1, <2>2, <2>3, <2>4, <2>5, <2>6 DEF Inductive, DesignerInv
<1>4. ASSUME NEW j \in Job,
         /\ rpc[r] = "sweep"
         /\ j <= created
         /\ created < MaxJobs
         /\ depth[j] < MaxDepth
         /\ created' = created + 1
         /\ status' = [status EXCEPT ![created + 1] = "pending"]
         /\ ugc' \subseteq Job
         /\ parent' = [parent EXCEPT ![created + 1] = j]
         /\ depth' = [depth EXCEPT ![created + 1] = depth[j] + 1]
         /\ rpc' = [rpc EXCEPT ![r] = "mark"]
         /\ rcand' = [rcand EXCEPT ![r] = j]
         /\ rchild' = [rchild EXCEPT ![r] = created + 1]
         /\ waiting' \in [Reaper -> SUBSET Job] /\ \A q \in Reaper : waiting'[q] \subseteq 1..created
         /\ silent' \in [Reaper -> SUBSET Job] /\ \A q \in Reaper : silent'[q] \subseteq 1..created
         /\ doubtful' = doubtful \/ doubtful' = doubtful \cup {j}
         /\ j \notin doubtful' =>
              /\ status[j] = "running"
              /\ \A x \in Runner : AtWork(x) => cand[x] # j
              /\ \A q \in Reaper : rpc[q] \in {"mark", "fail"} => rcand[q] # j
         /\ UNCHANGED <<next, stale, aged, pc, cand, todo, rest, child, verdict, faults>>
       PROVE  Inductive'
  <2>0. /\ \A x \in Runner : AtWork(x) => cand[x] \in Job /\ cand[x] <= created /\ cand[x] # NoJob
        /\ \A q \in Reaper : rpc[q] \in {"mark", "fail"} => rcand[q] \in Job /\ rcand[q] <= created
        /\ 1..created \subseteq Job
    BY InHand, UnderReap, InTable
  <2>1. DesignerTypeOK'
    <3>1. created' \in 0..MaxJobs /\ created + 1 \in Job
      BY <1>4, <2>0, InTable, DesignerAssumption DEF Inductive, DesignerInv, DesignerTypeOK, Job
    <3>2. depth' \in [Job -> 0..MaxDepth] /\ parent' \in [Job -> Job \cup {NoJob}]
      BY <1>4, <2>0, <3>1, DesignerAssumption DEF Inductive, DesignerInv, DesignerTypeOK
    <3>3. status' \in [Job -> Status] /\ ugc' \subseteq Job
      BY <1>4, <2>0, <3>1 DEF Inductive, DesignerInv, DesignerTypeOK, Status
    <3>4. /\ rpc' \in [Reaper -> {"idle", "sweep", "mark", "fail"}] /\ doubtful' \subseteq Job
          /\ rcand' \in [Reaper -> Job \cup {NoJob}] /\ rchild' \in [Reaper -> Job \cup {NoJob}]
      BY <1>4, <2>0, <3>1 DEF Inductive, DesignerInv, DesignerTypeOK, PC
    <3>5. QED
      BY <1>4, <2>0, <3>1, <3>2, <3>3, <3>4 DEF Inductive, DesignerInv, DesignerTypeOK
  <2>2. RunnersApart'
    BY <1>4, <2>0, DesignerAssumption DEF Inductive, DesignerInv, DesignerTypeOK, RunnersApart,
       AtWork, Job, NoJob
  <2>3. Lineage'
    <3>1. created + 1 \in Job /\ created \in Nat
      BY <1>4, <2>0, InTable
    <3>2. ASSUME NEW c \in Job, parent'[c] # NoJob
          PROVE  parent'[c] < c /\ c <= created' /\ depth'[c] = depth'[parent'[c]] + 1
      <4>1. CASE c = created + 1
        BY <1>4, <2>0, <3>1, <3>2, <4>1 DEF Inductive, DesignerInv, DesignerTypeOK, Job
      <4>2. CASE c # created + 1
        <5>1. parent'[c] = parent[c] /\ depth'[c] = depth[c] /\ parent[c] # NoJob
          BY <1>4, <2>0, <3>1, <3>2, <4>2 DEF Inductive, DesignerInv, DesignerTypeOK
        <5>2. parent[c] \in Job /\ parent[c] < c /\ c <= created /\ depth[c] = depth[parent[c]] + 1
          BY <5>1 DEF Inductive, DesignerInv, DesignerTypeOK, Lineage
        <5>3. depth'[parent[c]] = depth[parent[c]]
          BY <1>4, <2>0, <3>1, <5>2 DEF Inductive, DesignerInv, DesignerTypeOK, Job
        <5>4. QED
          BY <1>4, <2>0, <3>1, <5>1, <5>2, <5>3 DEF Job
      <4>3. QED
        BY <4>1, <4>2
    <3>3. ASSUME NEW i \in Job, next'[i] # NoJob
          PROVE  status'[i] = "done" /\ parent'[next'[i]] = i
      <4>1. next'[i] = next[i] /\ status[i] = "done" /\ parent[next[i]] = i
        BY <1>4, <2>0, <3>3 DEF Inductive, DesignerInv, Lineage
      <4>2. i # created + 1 /\ next[i] \in Job /\ next[i] # created + 1
        BY <3>1, <3>3, <4>1, InTable DEF Inductive, DesignerInv, RunnersApart, Job
      <4>3. QED
        BY <1>4, <2>0, <3>1, <4>1, <4>2 DEF Inductive, DesignerInv, DesignerTypeOK
    <3>4. ASSUME NEW q \in Runner, pc'[q] \in {"midmark", "mark"}
          PROVE  child'[q] # NoJob /\ parent'[child'[q]] = cand'[q]
      BY <1>4, <2>0, <3>1, <3>4, InTable DEF Inductive, DesignerInv, DesignerTypeOK, Lineage, NoJob
    <3>5. ASSUME NEW q \in Reaper, rpc'[q] = "mark"
          PROVE  rchild'[q] # NoJob /\ parent'[rchild'[q]] = rcand'[q]
      BY <1>4, <2>0, <3>1, <3>5, InTable DEF Inductive, DesignerInv, DesignerTypeOK, Lineage, NoJob
    <3>6. QED
      BY <3>2, <3>3, <3>4, <3>5 DEF Lineage
  <2>4. HandsKnown'
    <3>1. ASSUME NEW x \in Runner, AtWork(x), cand[x] \notin doubtful'
          PROVE  /\ cand[x] # j /\ cand[x] \notin doubtful
                 /\ status'[cand[x]] = status[cand[x]] /\ verdict'[cand[x]] = verdict[cand[x]]
      BY <1>4, <2>0, <3>1, InTable DEF Inductive, DesignerInv, DesignerTypeOK
    <3>2. ASSUME NEW q \in Reaper, rpc'[q] \in {"mark", "fail"}, rcand'[q] \notin doubtful', q # r
          PROVE  /\ rpc'[q] = rpc[q] /\ rcand'[q] = rcand[q] /\ rcand[q] # j /\ rcand[q] \notin doubtful
                 /\ status'[rcand[q]] = status[rcand[q]] /\ verdict'[rcand[q]] = verdict[rcand[q]]
      BY <1>4, <2>0, <3>2, InTable DEF Inductive, DesignerInv, DesignerTypeOK
    <3>3. UNCHANGED <<pc, cand, rest, next>>
      BY <1>4
    <3>4. \A x \in Runner : /\ pc'[x] # "slice" => rest'[x] # "child"
                            /\ ~AtWork(x)' => rest'[x] = "untried"
      BY <3>3 DEF Inductive, DesignerInv, HandsKnown, AtWork
    <3>5. ASSUME NEW x \in Runner, AtWork(x)', cand'[x] \notin doubtful'
          PROVE  /\ status'[cand'[x]] = IF rest'[x] = "child" THEN "done" ELSE "running"
                 /\ rest'[x] = "child" => next'[cand'[x]] # NoJob
                 /\ rest'[x] = "refused" => verdict'[cand'[x]] = "refused"
                 /\ pc'[x] = "done" => verdict'[cand'[x]] \in {"over", "refused"}
                 /\ pc'[x] = "failed" => verdict'[cand'[x]] = "threw"
      BY <3>1, <3>3, <3>5 DEF Inductive, DesignerInv, HandsKnown, AtWork
    <3>6. ASSUME NEW q \in Reaper, rpc'[q] \in {"mark", "fail"}, rcand'[q] \notin doubtful', q # r
          PROVE  /\ status'[rcand'[q]] = "running"
                 /\ rpc'[q] = "fail" => verdict'[rcand'[q]] = "refused"
                 /\ \A x \in Runner : AtWork(x)' => cand'[x] # rcand'[q]
                 /\ \A s \in Reaper : rpc'[s] \in {"mark", "fail"} /\ rcand'[s] = rcand'[q] => s = q
      BY <1>4, <2>0, <3>2, <3>3, <3>6 DEF Inductive, DesignerInv, DesignerTypeOK, HandsKnown, AtWork
    <3>7. ASSUME rcand'[r] \notin doubtful', rpc'[r] \in {"mark", "fail"}
          PROVE  /\ status'[rcand'[r]] = "running"
                 /\ rpc'[r] = "fail" => verdict'[rcand'[r]] = "refused"
                 /\ \A x \in Runner : AtWork(x)' => cand'[x] # rcand'[r]
                 /\ \A s \in Reaper : rpc'[s] \in {"mark", "fail"} /\ rcand'[s] = rcand'[r] => s = r
      BY <1>4, <2>0, <3>3, <3>7, InTable DEF Inductive, DesignerInv, DesignerTypeOK, AtWork, Job
    <3>8. QED
      BY <3>4, <3>5, <3>6, <3>7 DEF HandsKnown
  <2>5. ChildrenFound'
    <3>1. SUFFICES ASSUME NEW c \in Job, parent'[c] # NoJob, parent'[c] \notin doubtful'
                   PROVE  Found(c)'
      BY FoundSuffices
    <3>2. CASE c = created + 1
      BY <1>4, <2>0, <3>1, <3>2, DesignerAssumption DEF Inductive, DesignerInv, DesignerTypeOK,
         RunnersApart, Lineage, HandsKnown, AtWork, Found, Job, NoJob
    <3>3. CASE c # created + 1
      <4>1. parent'[c] = parent[c] /\ parent[c] # NoJob /\ parent[c] \notin doubtful
        BY <1>4, <2>0, <3>1, <3>3 DEF Inductive, DesignerInv, DesignerTypeOK, Job, NoJob
      <4>2. Found(c) /\ parent[c] \in Job
        BY <4>1, FoundMeans DEF Inductive, DesignerInv, DesignerTypeOK
      <4>3. QED
        <5>1. CASE next[parent[c]] = c
          BY <1>4, <2>0, <3>1, <4>1, <4>2, <5>1 DEF Inductive, DesignerInv, DesignerTypeOK,
             RunnersApart, Lineage, HandsKnown, AtWork, Found, Job, NoJob
        <5>2. CASE \E x \in Runner : pc[x] \in {"midmark", "mark"} /\ cand[x] = parent[c] /\ child[x] = c
          BY <1>4, <2>0, <3>1, <4>1, <4>2, <5>2 DEF Inductive, DesignerInv, DesignerTypeOK,
             RunnersApart, Lineage, HandsKnown, AtWork, Found, Job, NoJob
        <5>3. CASE \E q \in Reaper : rpc[q] = "mark" /\ rcand[q] = parent[c] /\ rchild[q] = c
          <6>1. PICK q \in Reaper : rpc[q] = "mark" /\ rcand[q] = parent[c] /\ rchild[q] = c
            BY <5>3
          <6>2. q # r /\ rpc'[q] = "mark" /\ rcand'[q] = rcand[q] /\ rchild'[q] = c
            BY <1>4, <6>1 DEF Inductive, DesignerInv, DesignerTypeOK
          <6>3. QED
            BY <4>1, <6>1, <6>2 DEF Found
        <5>4. QED
          BY <3>1, <4>1, <4>2, <5>1, <5>2, <5>3 DEF Found
    <3>4. QED
      BY <3>2, <3>3
  <2>6. EndingsExplained'
    BY <1>4, <2>0, DesignerAssumption DEF Inductive, DesignerInv, DesignerTypeOK,
       EndingsExplained, RunnersApart, HandsKnown, AtWork, Job, NoJob
  <2>7. QED
    BY <2>1, <2>2, <2>3, <2>4, <2>5, <2>6 DEF Inductive, DesignerInv
<1>5. ASSUME NEW j \in Job,
         /\ rpc[r] = "sweep"
         /\ j <= created
         /\ rpc' = [rpc EXCEPT ![r] = "fail"]
         /\ rcand' = [rcand EXCEPT ![r] = j]
         /\ waiting' \in [Reaper -> SUBSET Job] /\ \A q \in Reaper : waiting'[q] \subseteq 1..created
         /\ silent' \in [Reaper -> SUBSET Job] /\ \A q \in Reaper : silent'[q] \subseteq 1..created
         /\ verdict' = [verdict EXCEPT ![j] = "refused"]
         /\ doubtful' = doubtful \/ doubtful' = doubtful \cup {j}
         /\ j \notin doubtful' =>
              /\ status[j] = "running"
              /\ \A x \in Runner : AtWork(x) => cand[x] # j
              /\ \A q \in Reaper : rpc[q] \in {"mark", "fail"} => rcand[q] # j
         /\ faults' \in 0..MaxFaults
         /\ UNCHANGED <<created, status, ugc, parent, depth, next, stale, aged, pc, cand, todo,
            rest, child, rchild>>
       PROVE  Inductive'
  <2>0. /\ \A x \in Runner : AtWork(x) => cand[x] \in Job /\ cand[x] <= created /\ cand[x] # NoJob
        /\ \A q \in Reaper : rpc[q] \in {"mark", "fail"} => rcand[q] \in Job /\ rcand[q] <= created
        /\ 1..created \subseteq Job
    BY InHand, UnderReap, InTable
  <2>1. DesignerTypeOK'
    <3>1. doubtful' \subseteq Job
      BY <1>5 DEF Inductive, DesignerInv, DesignerTypeOK
    <3>2. QED
      BY <1>5, <2>0, <3>1 DEF Inductive, DesignerInv, DesignerTypeOK, Status, Verdict
  <2>2. RunnersApart'
    BY <1>5, <2>0, DesignerAssumption DEF Inductive, DesignerInv, DesignerTypeOK, RunnersApart,
       AtWork, Job, NoJob
  <2>3. Lineage'
    BY <1>5, <2>0, DesignerAssumption DEF Inductive, DesignerInv, DesignerTypeOK, Lineage,
       RunnersApart, Job, NoJob
  <2>4. HandsKnown'
    <3>1. ASSUME NEW x \in Runner, AtWork(x), cand[x] \notin doubtful'
          PROVE  /\ cand[x] # j /\ cand[x] \notin doubtful
                 /\ status'[cand[x]] = status[cand[x]] /\ verdict'[cand[x]] = verdict[cand[x]]
      BY <1>5, <2>0, <3>1, InTable DEF Inductive, DesignerInv, DesignerTypeOK
    <3>2. ASSUME NEW q \in Reaper, rpc'[q] \in {"mark", "fail"}, rcand'[q] \notin doubtful', q # r
          PROVE  /\ rpc'[q] = rpc[q] /\ rcand'[q] = rcand[q] /\ rcand[q] # j /\ rcand[q] \notin doubtful
                 /\ status'[rcand[q]] = status[rcand[q]] /\ verdict'[rcand[q]] = verdict[rcand[q]]
      BY <1>5, <2>0, <3>2, InTable DEF Inductive, DesignerInv, DesignerTypeOK
    <3>3. UNCHANGED <<pc, cand, rest, next>>
      BY <1>5
    <3>4. \A x \in Runner : /\ pc'[x] # "slice" => rest'[x] # "child"
                            /\ ~AtWork(x)' => rest'[x] = "untried"
      BY <3>3 DEF Inductive, DesignerInv, HandsKnown, AtWork
    <3>5. ASSUME NEW x \in Runner, AtWork(x)', cand'[x] \notin doubtful'
          PROVE  /\ status'[cand'[x]] = IF rest'[x] = "child" THEN "done" ELSE "running"
                 /\ rest'[x] = "child" => next'[cand'[x]] # NoJob
                 /\ rest'[x] = "refused" => verdict'[cand'[x]] = "refused"
                 /\ pc'[x] = "done" => verdict'[cand'[x]] \in {"over", "refused"}
                 /\ pc'[x] = "failed" => verdict'[cand'[x]] = "threw"
      BY <3>1, <3>3, <3>5 DEF Inductive, DesignerInv, HandsKnown, AtWork
    <3>6. ASSUME NEW q \in Reaper, rpc'[q] \in {"mark", "fail"}, rcand'[q] \notin doubtful', q # r
          PROVE  /\ status'[rcand'[q]] = "running"
                 /\ rpc'[q] = "fail" => verdict'[rcand'[q]] = "refused"
                 /\ \A x \in Runner : AtWork(x)' => cand'[x] # rcand'[q]
                 /\ \A s \in Reaper : rpc'[s] \in {"mark", "fail"} /\ rcand'[s] = rcand'[q] => s = q
      BY <1>5, <2>0, <3>2, <3>3, <3>6 DEF Inductive, DesignerInv, DesignerTypeOK, HandsKnown, AtWork
    <3>7. ASSUME rcand'[r] \notin doubtful', rpc'[r] \in {"mark", "fail"}
          PROVE  /\ status'[rcand'[r]] = "running"
                 /\ rpc'[r] = "fail" => verdict'[rcand'[r]] = "refused"
                 /\ \A x \in Runner : AtWork(x)' => cand'[x] # rcand'[r]
                 /\ \A s \in Reaper : rpc'[s] \in {"mark", "fail"} /\ rcand'[s] = rcand'[r] => s = r
      BY <1>5, <2>0, <3>3, <3>7, InTable DEF Inductive, DesignerInv, DesignerTypeOK, AtWork, Job
    <3>8. QED
      BY <3>4, <3>5, <3>6, <3>7 DEF HandsKnown
  <2>5. ChildrenFound'
    <3>1. SUFFICES ASSUME NEW c \in Job, parent'[c] # NoJob, parent'[c] \notin doubtful'
                   PROVE  Found(c)'
      BY FoundSuffices
    <3>2. parent'[c] = parent[c] /\ parent[c] # NoJob /\ parent[c] \notin doubtful
      BY <1>5, <2>0, <3>1 DEF Inductive, DesignerInv, DesignerTypeOK, Job, NoJob
    <3>3. Found(c) /\ parent[c] \in Job
      BY <3>2, FoundMeans DEF Inductive, DesignerInv, DesignerTypeOK
    <3>4. QED
      BY <1>5, <2>0, <3>1, <3>2, <3>3, DesignerAssumption DEF Inductive, DesignerInv,
         DesignerTypeOK, RunnersApart, Lineage, HandsKnown, AtWork, Found, Job, NoJob
  <2>6. EndingsExplained'
    BY <1>5, <2>0, DesignerAssumption DEF Inductive, DesignerInv, DesignerTypeOK,
       EndingsExplained, RunnersApart, HandsKnown, AtWork, Job, NoJob
  <2>7. QED
    BY <2>1, <2>2, <2>3, <2>4, <2>5, <2>6 DEF Inductive, DesignerInv
<1>6. QED
  <2> DEFINE i == First(Listed(r))
  <2>1. faults \in 0..MaxFaults /\ (Fault => faults' \in 0..MaxFaults)
    BY DesignerAssumption DEF Fault, Inductive, DesignerInv, DesignerTypeOK
  <2>2. ASSUME Listed(r) # {} PROVE i \in Job /\ i <= created
    <3>1. Listed(r) \in SUBSET Job /\ Listed(r) \subseteq 1..created
      BY DEF Listed, Inductive, DesignerInv, DesignerTypeOK, RunnersApart
    <3>2. i \in Listed(r)
      BY <2>2, <3>1, OldestOfAll
    <3>3. QED
      BY <3>1, <3>2, InTable
  <2>3. ASSUME NEW k, Unlist(r, k)
        PROVE  /\ waiting' \in [Reaper -> SUBSET Job] /\ silent' \in [Reaper -> SUBSET Job]
               /\ \A q \in Reaper : waiting'[q] \subseteq 1..created /\ silent'[q] \subseteq 1..created
    BY <2>3 DEF Unlist, Inductive, DesignerInv, DesignerTypeOK, RunnersApart
  <2>4. ASSUME NEW k \in Job, NEW st, doubtful' = Doubt(k, st)
        PROVE  /\ doubtful' = doubtful \/ doubtful' = doubtful \cup {k}
               /\ k \notin doubtful' =>
                    /\ status[k] = st
                    /\ \A x \in Runner : AtWork(x) => cand[x] # k
                    /\ \A q \in Reaper : rpc[q] \in {"mark", "fail"} => rcand[q] # k
    BY <2>4 DEF Doubt, Hands
  <2>5. CASE StartSweep(r)
    <3>1. \A k \in Job : status[k] # "none" => k \in 1..created
      BY DEF Inductive, DesignerInv, DesignerTypeOK, RunnersApart, Job
    <3>2. Pending \subseteq Job /\ Silent \subseteq Job /\ Pending \subseteq 1..created /\ Silent \subseteq 1..created
      BY <3>1 DEF Pending, Silent
    <3>3. /\ waiting' \in [Reaper -> SUBSET Job] /\ silent' \in [Reaper -> SUBSET Job]
          /\ \A q \in Reaper : waiting'[q] \subseteq 1..created /\ silent'[q] \subseteq 1..created
      BY <2>5, <3>2 DEF StartSweep, Inductive, DesignerInv, DesignerTypeOK, RunnersApart
    <3>4. QED
      BY <1>1, <2>5, <3>3 DEF StartSweep
  <2>6. CASE ReapSkip(r)
    <3>1. Unlist(r, i)
      BY <2>6 DEF ReapSkip
    <3>2. QED
      BY <1>2, <2>1, <2>3, <2>6, <3>1 DEF ReapSkip
  <2>7. CASE ReapOrphan(r)
    <3>1. i \in Job /\ i <= created /\ i \in aged /\ Unlist(r, i) /\ rpc[r] = "sweep"
      BY <2>2, <2>7 DEF ReapOrphan, Orphaned
    <3>2. CASE /\ FinishAs(i, "failed")
               /\ verdict' = [verdict EXCEPT ![i] = "waited"] /\ doubtful' = Doubt(i, "pending")
               /\ UNCHANGED faults
      <4> HIDE DEF i
      <4>1. UNCHANGED <<clock, runners, rpc, rcand, rchild>>
        BY <2>7 DEF ReapOrphan
      <4>2. QED
        BY <1>3, <2>3, <2>4, <3>1, <3>2, <4>1 DEF FinishAs
    <3>3. CASE Fault /\ UNCHANGED <<rows, history>>
      BY <1>2, <2>1, <2>3, <2>7, <3>1, <3>3 DEF ReapOrphan
    <3>4. QED
      BY <2>7, <3>2, <3>3 DEF ReapOrphan
  <2>8. CASE ReapContinue(r)
    <3>1. /\ i \in Job /\ i <= created /\ Unlist(r, i) /\ rpc[r] = "sweep"
          /\ rcand' = [rcand EXCEPT ![r] = i] /\ doubtful' = Doubt(i, "running")
          /\ UNCHANGED <<clock, runners>>
      BY <2>2, <2>8 DEF ReapContinue
    <3>2. CASE /\ InsertChild(i)
               /\ rpc' = [rpc EXCEPT ![r] = "mark"] /\ rchild' = [rchild EXCEPT ![r] = created + 1]
               /\ UNCHANGED <<verdict, faults>>
      <4> HIDE DEF i
      <4>1. created + 1 \in Job /\ ugc \subseteq Job
        BY <3>2, InTable DEF InsertChild, Inductive, DesignerInv, DesignerTypeOK
      <4>2. ugc' \subseteq Job
        BY <3>2, <4>1 DEF InsertChild, Insert
      <4>3. QED
        BY <1>4, <2>3, <2>4, <3>1, <3>2, <4>2 DEF InsertChild, Insert, MayContinue
    <3>3. CASE RefuseChild(i) /\ rpc' = [rpc EXCEPT ![r] = AfterRefusal] /\ UNCHANGED rchild
      <4> HIDE DEF i
      <4>1. faults' \in 0..MaxFaults
        BY <2>1, <3>3 DEF RefuseChild
      <4>2. QED
        BY <1>5, <2>3, <2>4, <3>1, <3>3, <4>1 DEF RefuseChild, AfterRefusal
    <3>4. QED
      BY <2>8, <3>2, <3>3 DEF ReapContinue
  <2>9. QED
    BY <2>5, <2>6, <2>7, <2>8

\* A sweep ends what it does to a row, its list, or its life.
LEMMA ReapingKeeps ==
  ASSUME Inductive, NEW r \in Reaper,
         ReapPoint(r) \/ ReapFail(r) \/ EndSweep(r) \/ ReaperDies(r)
  PROVE  Inductive'
<1>1. ASSUME
         /\ rpc[r] = "mark"
         /\ status[rcand[r]] = "running"
         /\ status' = [status EXCEPT ![rcand[r]] = "done"]
         /\ next' = [next EXCEPT ![rcand[r]] = rchild[r]]
         /\ rpc' = [rpc EXCEPT ![r] = "sweep"]
         /\ rcand' = [rcand EXCEPT ![r] = NoJob]
         /\ rchild' = [rchild EXCEPT ![r] = NoJob]
         /\ UNCHANGED <<created, ugc, parent, depth, stale, aged, pc, cand, todo, rest, child,
            waiting, silent, verdict, doubtful, faults>>
       PROVE  Inductive'
  <2>0. /\ rcand[r] \in Job /\ rcand[r] # NoJob /\ rcand[r] <= created
        /\ rcand[r] \notin doubtful =>
             /\ status[rcand[r]] = "running" /\ next[rcand[r]] = NoJob
             /\ \A p \in Runner : AtWork(p) => cand[p] # rcand[r]
             /\ \A q \in Reaper : rpc[q] \in {"mark", "fail"} /\ rcand[q] = rcand[r] => q = r
    BY <1>1, UnderReap
  <2>1. DesignerTypeOK'
    BY <1>1, <2>0, DesignerAssumption DEF Inductive, DesignerInv, DesignerTypeOK, RunnersApart,
       AtWork, PC, Status, Verdict, Job, NoJob
  <2>2. RunnersApart'
    BY <1>1, <2>0, DesignerAssumption DEF Inductive, DesignerInv, DesignerTypeOK, RunnersApart,
       AtWork, Job, NoJob
  <2>3. Lineage'
    BY <1>1, <2>0, DesignerAssumption DEF Inductive, DesignerInv, DesignerTypeOK, Lineage,
       RunnersApart, Job, NoJob
  <2>4. HandsKnown'
    BY <1>1, <2>0, DesignerAssumption, SMTT(30) DEF Inductive, DesignerInv, DesignerTypeOK, HandsKnown,
       RunnersApart, Lineage, AtWork, Job, NoJob
  <2>5. ChildrenFound'
    <3>1. SUFFICES ASSUME NEW c \in Job, parent'[c] # NoJob, parent'[c] \notin doubtful'
                   PROVE  Found(c)'
      BY FoundSuffices
    <3>2. parent'[c] = parent[c] /\ parent[c] # NoJob /\ parent[c] \notin doubtful
      BY <1>1, <2>0, <3>1 DEF Inductive, DesignerInv, DesignerTypeOK, Job, NoJob
    <3>3. Found(c) /\ parent[c] \in Job
      BY <3>2, FoundMeans DEF Inductive, DesignerInv, DesignerTypeOK
    <3>4. QED
      BY <1>1, <2>0, <3>1, <3>2, <3>3, DesignerAssumption, SMTT(30) DEF Inductive, DesignerInv,
         DesignerTypeOK, RunnersApart, Lineage, HandsKnown, AtWork, Found, Job, NoJob
  <2>6. EndingsExplained'
    BY <1>1, <2>0, InTable DEF Inductive, DesignerInv, DesignerTypeOK, EndingsExplained, Job, NoJob
  <2>7. QED
    BY <2>1, <2>2, <2>3, <2>4, <2>5, <2>6 DEF Inductive, DesignerInv
<1>2. ASSUME
         /\ rpc[r] = "mark"
         /\ status[rcand[r]] # "running"
         /\ rpc' = [rpc EXCEPT ![r] = "sweep"]
         /\ rcand' = [rcand EXCEPT ![r] = NoJob]
         /\ rchild' = [rchild EXCEPT ![r] = NoJob]
         /\ UNCHANGED <<created, status, ugc, parent, depth, next, stale, aged, pc, cand, todo,
            rest, child, waiting, silent, verdict, doubtful, faults>>
       PROVE  Inductive'
  <2>0. /\ rcand[r] \in Job /\ rcand[r] # NoJob /\ rcand[r] <= created
        /\ rcand[r] \notin doubtful =>
             /\ status[rcand[r]] = "running" /\ next[rcand[r]] = NoJob
             /\ \A p \in Runner : AtWork(p) => cand[p] # rcand[r]
             /\ \A q \in Reaper : rpc[q] \in {"mark", "fail"} /\ rcand[q] = rcand[r] => q = r
    BY <1>2, UnderReap
  <2>1. DesignerTypeOK'
    BY <1>2, <2>0, DesignerAssumption DEF Inductive, DesignerInv, DesignerTypeOK, RunnersApart,
       AtWork, PC, Status, Verdict, Job, NoJob
  <2>2. RunnersApart'
    BY <1>2, <2>0, DesignerAssumption DEF Inductive, DesignerInv, DesignerTypeOK, RunnersApart,
       AtWork, Job, NoJob
  <2>3. Lineage'
    BY <1>2, <2>0, DesignerAssumption DEF Inductive, DesignerInv, DesignerTypeOK, Lineage,
       RunnersApart, Job, NoJob
  <2>4. HandsKnown'
    BY <1>2, <2>0, DesignerAssumption, SMTT(30) DEF Inductive, DesignerInv, DesignerTypeOK, HandsKnown,
       RunnersApart, Lineage, AtWork, Job, NoJob
  <2>5. ChildrenFound'
    <3>1. SUFFICES ASSUME NEW c \in Job, parent'[c] # NoJob, parent'[c] \notin doubtful'
                   PROVE  Found(c)'
      BY FoundSuffices
    <3>2. parent'[c] = parent[c] /\ parent[c] # NoJob /\ parent[c] \notin doubtful
      BY <1>2, <2>0, <3>1 DEF Inductive, DesignerInv, DesignerTypeOK, Job, NoJob
    <3>3. Found(c) /\ parent[c] \in Job
      BY <3>2, FoundMeans DEF Inductive, DesignerInv, DesignerTypeOK
    <3>4. QED
      BY <1>2, <2>0, <3>1, <3>2, <3>3, DesignerAssumption DEF Inductive, DesignerInv,
         DesignerTypeOK, RunnersApart, Lineage, HandsKnown, AtWork, Found, Job, NoJob
  <2>6. EndingsExplained'
    BY <1>2, EndingsFrame DEF Inductive, DesignerInv
  <2>7. QED
    BY <2>1, <2>2, <2>3, <2>4, <2>5, <2>6 DEF Inductive, DesignerInv
<1>3. ASSUME
         /\ rpc[r] = "mark"
         /\ rpc' = [rpc EXCEPT ![r] = "sweep"]
         /\ rcand' = [rcand EXCEPT ![r] = NoJob]
         /\ rchild' = [rchild EXCEPT ![r] = NoJob]
         /\ doubtful' = doubtful \cup {rcand[r]}
         /\ faults' \in 0..MaxFaults
         /\ UNCHANGED <<created, status, ugc, parent, depth, next, stale, aged, pc, cand, todo,
            rest, child, waiting, silent, verdict>>
       PROVE  Inductive'
  <2>0. /\ rcand[r] \in Job /\ rcand[r] # NoJob /\ rcand[r] <= created
        /\ rcand[r] \notin doubtful =>
             /\ status[rcand[r]] = "running" /\ next[rcand[r]] = NoJob
             /\ \A p \in Runner : AtWork(p) => cand[p] # rcand[r]
             /\ \A q \in Reaper : rpc[q] \in {"mark", "fail"} /\ rcand[q] = rcand[r] => q = r
    BY <1>3, UnderReap
  <2>1. DesignerTypeOK'
    BY <1>3, <2>0, DesignerAssumption DEF Inductive, DesignerInv, DesignerTypeOK, RunnersApart,
       AtWork, PC, Status, Verdict, Job, NoJob
  <2>2. RunnersApart'
    BY <1>3, <2>0, DesignerAssumption DEF Inductive, DesignerInv, DesignerTypeOK, RunnersApart,
       AtWork, Job, NoJob
  <2>3. Lineage'
    BY <1>3, <2>0, DesignerAssumption DEF Inductive, DesignerInv, DesignerTypeOK, Lineage,
       RunnersApart, Job, NoJob
  <2>4. HandsKnown'
    BY <1>3, <2>0, DesignerAssumption, SMTT(30) DEF Inductive, DesignerInv, DesignerTypeOK, HandsKnown,
       RunnersApart, Lineage, AtWork, Job, NoJob
  <2>5. ChildrenFound'
    <3>1. SUFFICES ASSUME NEW c \in Job, parent'[c] # NoJob, parent'[c] \notin doubtful'
                   PROVE  Found(c)'
      BY FoundSuffices
    <3>2. parent'[c] = parent[c] /\ parent[c] # NoJob /\ parent[c] \notin doubtful
      BY <1>3, <2>0, <3>1 DEF Inductive, DesignerInv, DesignerTypeOK, Job, NoJob
    <3>3. Found(c) /\ parent[c] \in Job
      BY <3>2, FoundMeans DEF Inductive, DesignerInv, DesignerTypeOK
    <3>4. QED
      BY <1>3, <2>0, <3>1, <3>2, <3>3, DesignerAssumption DEF Inductive, DesignerInv,
         DesignerTypeOK, RunnersApart, Lineage, HandsKnown, AtWork, Found, Job, NoJob
  <2>6. EndingsExplained'
    BY <1>3, <2>0, DesignerAssumption DEF Inductive, DesignerInv, DesignerTypeOK,
       EndingsExplained, RunnersApart, HandsKnown, AtWork, Job, NoJob
  <2>7. QED
    BY <2>1, <2>2, <2>3, <2>4, <2>5, <2>6 DEF Inductive, DesignerInv
<1>4. ASSUME
         /\ rpc[r] = "fail"
         /\ status' = [status EXCEPT ![rcand[r]] = "failed"]
         /\ next' = [next EXCEPT ![rcand[r]] = NoJob]
         /\ rpc' = [rpc EXCEPT ![r] = "sweep"]
         /\ rcand' = [rcand EXCEPT ![r] = NoJob]
         /\ rchild' = [rchild EXCEPT ![r] = NoJob]
         /\ UNCHANGED <<created, ugc, parent, depth, stale, aged, pc, cand, todo, rest, child,
            waiting, silent, verdict, doubtful, faults>>
       PROVE  Inductive'
  <2>0. /\ rcand[r] \in Job /\ rcand[r] # NoJob /\ rcand[r] <= created
        /\ rcand[r] \notin doubtful =>
             /\ status[rcand[r]] = "running" /\ next[rcand[r]] = NoJob
             /\ \A p \in Runner : AtWork(p) => cand[p] # rcand[r]
             /\ \A q \in Reaper : rpc[q] \in {"mark", "fail"} /\ rcand[q] = rcand[r] => q = r
    BY <1>4, UnderReap
  <2>1. DesignerTypeOK'
    BY <1>4, <2>0, DesignerAssumption DEF Inductive, DesignerInv, DesignerTypeOK, RunnersApart,
       AtWork, PC, Status, Verdict, Job, NoJob
  <2>2. RunnersApart'
    BY <1>4, <2>0, DesignerAssumption DEF Inductive, DesignerInv, DesignerTypeOK, RunnersApart,
       AtWork, Job, NoJob
  <2>3. Lineage'
    BY <1>4, <2>0, DesignerAssumption DEF Inductive, DesignerInv, DesignerTypeOK, Lineage,
       RunnersApart, Job, NoJob
  <2>4. HandsKnown'
    BY <1>4, <2>0, DesignerAssumption, SMTT(30) DEF Inductive, DesignerInv, DesignerTypeOK, HandsKnown,
       RunnersApart, Lineage, AtWork, Job, NoJob
  <2>5. ChildrenFound'
    <3>1. SUFFICES ASSUME NEW c \in Job, parent'[c] # NoJob, parent'[c] \notin doubtful'
                   PROVE  Found(c)'
      BY FoundSuffices
    <3>2. parent'[c] = parent[c] /\ parent[c] # NoJob /\ parent[c] \notin doubtful
      BY <1>4, <2>0, <3>1 DEF Inductive, DesignerInv, DesignerTypeOK, Job, NoJob
    <3>3. Found(c) /\ parent[c] \in Job
      BY <3>2, FoundMeans DEF Inductive, DesignerInv, DesignerTypeOK
    <3>4. QED
      BY <1>4, <2>0, <3>1, <3>2, <3>3, DesignerAssumption DEF Inductive, DesignerInv,
         DesignerTypeOK, RunnersApart, Lineage, HandsKnown, AtWork, Found, Job, NoJob
  <2>6. EndingsExplained'
    BY <1>4, <2>0, DesignerAssumption DEF Inductive, DesignerInv, DesignerTypeOK,
       EndingsExplained, RunnersApart, HandsKnown, AtWork, Job, NoJob
  <2>7. QED
    BY <2>1, <2>2, <2>3, <2>4, <2>5, <2>6 DEF Inductive, DesignerInv
<1>5. ASSUME
         /\ rpc[r] = "fail"
         /\ rpc' = [rpc EXCEPT ![r] = "sweep"]
         /\ rcand' = [rcand EXCEPT ![r] = NoJob]
         /\ rchild' = [rchild EXCEPT ![r] = NoJob]
         /\ faults' \in 0..MaxFaults
         /\ UNCHANGED <<created, status, ugc, parent, depth, next, stale, aged, pc, cand, todo,
            rest, child, waiting, silent, verdict, doubtful>>
       PROVE  Inductive'
  <2>0. /\ rcand[r] \in Job /\ rcand[r] # NoJob /\ rcand[r] <= created
        /\ rcand[r] \notin doubtful =>
             /\ status[rcand[r]] = "running" /\ next[rcand[r]] = NoJob
             /\ \A p \in Runner : AtWork(p) => cand[p] # rcand[r]
             /\ \A q \in Reaper : rpc[q] \in {"mark", "fail"} /\ rcand[q] = rcand[r] => q = r
    BY <1>5, UnderReap
  <2>1. DesignerTypeOK'
    BY <1>5, <2>0, DesignerAssumption DEF Inductive, DesignerInv, DesignerTypeOK, RunnersApart,
       AtWork, PC, Status, Verdict, Job, NoJob
  <2>2. RunnersApart'
    BY <1>5, <2>0, DesignerAssumption DEF Inductive, DesignerInv, DesignerTypeOK, RunnersApart,
       AtWork, Job, NoJob
  <2>3. Lineage'
    BY <1>5, <2>0, DesignerAssumption DEF Inductive, DesignerInv, DesignerTypeOK, Lineage,
       RunnersApart, Job, NoJob
  <2>4. HandsKnown'
    BY <1>5, <2>0, DesignerAssumption, SMTT(30) DEF Inductive, DesignerInv, DesignerTypeOK, HandsKnown,
       RunnersApart, Lineage, AtWork, Job, NoJob
  <2>5. ChildrenFound'
    <3>1. SUFFICES ASSUME NEW c \in Job, parent'[c] # NoJob, parent'[c] \notin doubtful'
                   PROVE  Found(c)'
      BY FoundSuffices
    <3>2. parent'[c] = parent[c] /\ parent[c] # NoJob /\ parent[c] \notin doubtful
      BY <1>5, <2>0, <3>1 DEF Inductive, DesignerInv, DesignerTypeOK, Job, NoJob
    <3>3. Found(c) /\ parent[c] \in Job
      BY <3>2, FoundMeans DEF Inductive, DesignerInv, DesignerTypeOK
    <3>4. QED
      BY <1>5, <2>0, <3>1, <3>2, <3>3, DesignerAssumption DEF Inductive, DesignerInv,
         DesignerTypeOK, RunnersApart, Lineage, HandsKnown, AtWork, Found, Job, NoJob
  <2>6. EndingsExplained'
    BY <1>5, EndingsFrame DEF Inductive, DesignerInv
  <2>7. QED
    BY <2>1, <2>2, <2>3, <2>4, <2>5, <2>6 DEF Inductive, DesignerInv
<1>6. ASSUME
         /\ rpc[r] # "idle"
         /\ rpc[r] # "mark"
         /\ rpc' = [rpc EXCEPT ![r] = "idle"]
         /\ rcand' = [rcand EXCEPT ![r] = NoJob]
         /\ rchild' = [rchild EXCEPT ![r] = NoJob]
         /\ waiting' = [waiting EXCEPT ![r] = {}]
         /\ silent' = [silent EXCEPT ![r] = {}]
         /\ faults' \in 0..MaxFaults
         /\ UNCHANGED <<created, status, ugc, parent, depth, next, stale, aged, pc, cand, todo,
            rest, child, verdict, doubtful>>
       PROVE  Inductive'
  <2>1. DesignerTypeOK'
    BY <1>6, DesignerAssumption DEF Inductive, DesignerInv, DesignerTypeOK, RunnersApart, AtWork,
       PC, Status, Verdict, Job, NoJob
  <2>2. RunnersApart'
    BY <1>6, DesignerAssumption DEF Inductive, DesignerInv, DesignerTypeOK, RunnersApart, AtWork,
       Job, NoJob
  <2>3. Lineage'
    BY <1>6, DesignerAssumption DEF Inductive, DesignerInv, DesignerTypeOK, Lineage, RunnersApart,
       Job, NoJob
  <2>4. HandsKnown'
    BY <1>6, DesignerAssumption DEF Inductive, DesignerInv, DesignerTypeOK, HandsKnown,
       RunnersApart, Lineage, AtWork, Job, NoJob
  <2>5. ChildrenFound'
    <3>1. SUFFICES ASSUME NEW c \in Job, parent'[c] # NoJob, parent'[c] \notin doubtful'
                   PROVE  Found(c)'
      BY FoundSuffices
    <3>2. parent'[c] = parent[c] /\ parent[c] # NoJob /\ parent[c] \notin doubtful
      BY <1>6, <3>1 DEF Inductive, DesignerInv, DesignerTypeOK, Job, NoJob
    <3>3. Found(c) /\ parent[c] \in Job
      BY <3>2, FoundMeans DEF Inductive, DesignerInv, DesignerTypeOK
    <3>4. QED
      BY <1>6, <3>1, <3>2, <3>3, DesignerAssumption DEF Inductive, DesignerInv, DesignerTypeOK,
         RunnersApart, Lineage, HandsKnown, AtWork, Found, Job, NoJob
  <2>6. EndingsExplained'
    BY <1>6, EndingsFrame DEF Inductive, DesignerInv
  <2>7. QED
    BY <2>1, <2>2, <2>3, <2>4, <2>5, <2>6 DEF Inductive, DesignerInv
<1>7. ASSUME
         /\ rpc[r] = "mark"
         /\ rpc' = [rpc EXCEPT ![r] = "idle"]
         /\ rcand' = [rcand EXCEPT ![r] = NoJob]
         /\ rchild' = [rchild EXCEPT ![r] = NoJob]
         /\ waiting' = [waiting EXCEPT ![r] = {}]
         /\ silent' = [silent EXCEPT ![r] = {}]
         /\ doubtful' = doubtful \cup {rcand[r]}
         /\ faults' \in 0..MaxFaults
         /\ UNCHANGED <<created, status, ugc, parent, depth, next, stale, aged, pc, cand, todo,
            rest, child, verdict>>
       PROVE  Inductive'
  <2>0. /\ rcand[r] \in Job /\ rcand[r] # NoJob /\ rcand[r] <= created
        /\ rcand[r] \notin doubtful =>
             /\ status[rcand[r]] = "running" /\ next[rcand[r]] = NoJob
             /\ \A p \in Runner : AtWork(p) => cand[p] # rcand[r]
             /\ \A q \in Reaper : rpc[q] \in {"mark", "fail"} /\ rcand[q] = rcand[r] => q = r
    BY <1>7, UnderReap
  <2>1. DesignerTypeOK'
    BY <1>7, <2>0, DesignerAssumption DEF Inductive, DesignerInv, DesignerTypeOK, RunnersApart,
       AtWork, PC, Status, Verdict, Job, NoJob
  <2>2. RunnersApart'
    BY <1>7, <2>0, DesignerAssumption DEF Inductive, DesignerInv, DesignerTypeOK, RunnersApart,
       AtWork, Job, NoJob
  <2>3. Lineage'
    BY <1>7, <2>0, DesignerAssumption DEF Inductive, DesignerInv, DesignerTypeOK, Lineage,
       RunnersApart, Job, NoJob
  <2>4. HandsKnown'
    BY <1>7, <2>0, DesignerAssumption, SMTT(30) DEF Inductive, DesignerInv, DesignerTypeOK, HandsKnown,
       RunnersApart, Lineage, AtWork, Job, NoJob
  <2>5. ChildrenFound'
    <3>1. SUFFICES ASSUME NEW c \in Job, parent'[c] # NoJob, parent'[c] \notin doubtful'
                   PROVE  Found(c)'
      BY FoundSuffices
    <3>2. parent'[c] = parent[c] /\ parent[c] # NoJob /\ parent[c] \notin doubtful
      BY <1>7, <2>0, <3>1 DEF Inductive, DesignerInv, DesignerTypeOK, Job, NoJob
    <3>3. Found(c) /\ parent[c] \in Job
      BY <3>2, FoundMeans DEF Inductive, DesignerInv, DesignerTypeOK
    <3>4. QED
      BY <1>7, <2>0, <3>1, <3>2, <3>3, DesignerAssumption DEF Inductive, DesignerInv,
         DesignerTypeOK, RunnersApart, Lineage, HandsKnown, AtWork, Found, Job, NoJob
  <2>6. EndingsExplained'
    BY <1>7, <2>0, DesignerAssumption DEF Inductive, DesignerInv, DesignerTypeOK,
       EndingsExplained, RunnersApart, HandsKnown, AtWork, Job, NoJob
  <2>7. QED
    BY <2>1, <2>2, <2>3, <2>4, <2>5, <2>6 DEF Inductive, DesignerInv
<1>8. QED
  <2>1. faults \in 0..MaxFaults /\ (Fault => faults' \in 0..MaxFaults)
    BY DesignerAssumption DEF Fault, Inductive, DesignerInv, DesignerTypeOK
  <2>2. CASE ReapPoint(r)
    <3>1. CASE Point(rcand[r], rchild[r]) /\ UNCHANGED <<doubtful, faults>> /\ status[rcand[r]] = "running"
      BY <1>1, <2>2, <3>1 DEF ReapPoint, Point, MarkedAs, Resume
    <3>2. CASE Point(rcand[r], rchild[r]) /\ UNCHANGED <<doubtful, faults>> /\ status[rcand[r]] # "running"
      BY <1>2, <2>2, <3>2 DEF ReapPoint, Point, Resume
    <3>3. CASE Fault /\ doubtful' = doubtful \cup {rcand[r]} /\ UNCHANGED rows
      BY <1>3, <2>1, <2>2, <3>3 DEF ReapPoint, Resume
    <3>4. QED
      BY <2>2, <3>1, <3>2, <3>3 DEF ReapPoint
  <2>3. CASE ReapFail(r)
    <3>1. CASE FinishAs(rcand[r], "failed") /\ UNCHANGED faults
      BY <1>4, <2>3, <3>1 DEF ReapFail, FinishAs, Resume
    <3>2. CASE Fault /\ UNCHANGED rows
      BY <1>5, <2>1, <2>3, <3>2 DEF ReapFail, Resume
    <3>3. QED
      BY <2>3, <3>1, <3>2 DEF ReapFail
  <2>4. CASE EndSweep(r)
    BY <1>6, <2>1, <2>4 DEF EndSweep, Stop
  <2>5. CASE ReaperDies(r)
    <3>1. CASE rpc[r] = "mark"
      BY <1>7, <2>1, <2>5, <3>1 DEF ReaperDies, Stop
    <3>2. CASE rpc[r] # "mark"
      BY <1>6, <2>1, <2>5, <3>2 DEF ReaperDies, Stop
    <3>3. QED
      BY <3>1, <3>2
  <2>6. QED
    BY <2>2, <2>3, <2>4, <2>5

LEMMA DesignerStep == Inductive /\ [Next]_vars => Inductive'
<1>1. ASSUME Inductive, Next PROVE Inductive'
  BY <1>1, SubmitKeeps, ClaimingKeeps, SlicingKeeps, PointingKeeps, ClosingKeeps, ClocksKeep, SweepingKeeps,
     ReapingKeeps DEF Next, RunnerStep, Running, Sweeping
<1>2. ASSUME Inductive, UNCHANGED vars PROVE Inductive'
  <2>1. UNCHANGED <<created, status, ugc, parent, depth, next, stale, aged, pc, cand, todo, rest, child, rpc,
                    rcand, rchild, waiting, silent, verdict, doubtful, faults>>
    BY <1>2 DEF vars
  <2>2. DesignerTypeOK'
    BY <1>2, <2>1 DEF Inductive, DesignerInv, DesignerTypeOK
  <2>3. QED
    BY <1>2, <2>1, <2>2, ApartFrame, LineageFrame, HandsFrame, FoundFrame, EndingsFrame DEF Inductive, DesignerInv
<1>3. QED
  BY <1>1, <1>2

\* The invariant holds for any number of pages, workers, sweeps and faults.
THEOREM DesignerSafe == Spec => []DesignerInv
<1>1. Inductive => DesignerInv
  BY DEF Inductive
<1>2. QED
  BY <1>1, DesignerStart, DesignerStep, PTL DEF Spec

\* Nobody who follows the pointers of a brief misses a slice of it, and its work
\* never forks, where no two processes acted on a row and none died between the
\* insert of a child and the pointer to it.
THEOREM NothingForks == Spec => []ChildrenFound
<1>1. Inductive => ChildrenFound
  BY DEF Inductive
<1>2. QED
  BY <1>1, DesignerStart, DesignerStep, PTL DEF Spec

\* A slice is told to have ended as its process found it, under the same condition.
THEOREM SlicesEndAsTold == Spec => []EndingsExplained
<1>1. Inductive => EndingsExplained
  BY DEF Inductive
<1>2. QED
  BY <1>1, DesignerStart, DesignerStep, PTL DEF Spec

\* A step that acts on a row that has ended makes it doubtful, or leaves its end.
LEMMA EndingKept ==
  ASSUME Inductive, [Next]_vars, NEW j \in Job, status[j] \in Closed, j \notin doubtful'
  PROVE  status'[j] = status[j] /\ next'[j] = next[j]
<1> USE DEF Closed
<1>1. status \in [Job -> Status] /\ next \in [Job -> Job \cup {NoJob}]
  BY DEF Inductive, DesignerInv, DesignerTypeOK
<1>2. j # created + 1
  <2>1. created \in Nat /\ j \in Nat
    BY DesignerAssumption, InTable DEF Job
  <2>2. ~(j > created)
    BY DEF Inductive, DesignerInv, RunnersApart
  <2>3. QED
    BY <2>1, <2>2
<1>3. ASSUME NEW p \in Runner, RunnerStep(p)
      PROVE  status'[j] = status[j] /\ next'[j] = next[j]
  <2>1. ASSUME NEW b \in BOOLEAN, Submit(p, b) PROVE status'[j] = status[j] /\ next'[j] = next[j]
    BY <2>1, <1>1, <1>2 DEF Submit, Insert
  <2>2. CASE StartDrain(p) \/ Consider(p) \/ NothingToClaim(p) \/ SliceEnds(p) \/ Throws(p)
             \/ Heartbeat(p) \/ Die(p)
    BY <2>2 DEF StartDrain, Consider, NothingToClaim, SliceEnds, Throws, Heartbeat, Die
  <2>3. CASE Claim(p)
    BY <2>3, <1>1 DEF Claim, Claimable
  <2>4. CASE CutMidway(p)
    BY <2>4, <1>1, <1>2 DEF CutMidway, InsertChild, RefuseChild, Insert
  <2>5. CASE SliceCut(p)
    BY <2>5, <1>1, <1>2 DEF SliceCut, InsertChild, RefuseChild, Insert
  <2>6. CASE PointToChild(p)
    BY <2>6, <1>1 DEF PointToChild, Point
  <2>7. CASE Close(p)
    <3>1. AtWork(p) /\ rest[p] # "child" /\ doubtful' = doubtful
      BY <2>7 DEF Close, AtWork, Inductive, DesignerInv, HandsKnown
    <3>2. cand[p] # j
      BY <3>1, InHand
    <3>3. QED
      BY <2>7, <3>2, <1>1 DEF Close, FinishAs
  <2>8. QED
    BY <1>3, <2>1, <2>2, <2>3, <2>4, <2>5, <2>6, <2>7 DEF RunnerStep, Running
<1>4. ASSUME NEW r \in Reaper, Sweeping(r) \/ ReaperDies(r)
      PROVE  status'[j] = status[j] /\ next'[j] = next[j]
  <2>1. CASE StartSweep(r) \/ ReapSkip(r) \/ EndSweep(r) \/ ReaperDies(r)
    BY <2>1 DEF StartSweep, ReapSkip, EndSweep, ReaperDies, Stop
  <2>2. CASE ReapOrphan(r)
    BY <2>2, <1>1 DEF ReapOrphan, FinishAs, Doubt
  <2>3. CASE ReapContinue(r)
    BY <2>3, <1>1, <1>2 DEF ReapContinue, InsertChild, RefuseChild, Insert
  <2>4. CASE ReapPoint(r)
    BY <2>4, <1>1 DEF ReapPoint, Point
  <2>5. CASE ReapFail(r)
    <3>1. rcand[r] # j
      BY <2>5, UnderReap DEF ReapFail
    <3>2. QED
      BY <2>5, <3>1, <1>1 DEF ReapFail, FinishAs
  <2>6. QED
    BY <1>4, <2>1, <2>2, <2>3, <2>4, <2>5 DEF Sweeping
<1>5. ASSUME NEW i \in Job, GoStale(i) \/ Age(i) PROVE UNCHANGED <<status, next>>
  BY <1>5 DEF GoStale, Age
<1>6. CASE UNCHANGED vars
  BY <1>6 DEF vars
<1>7. QED
  BY <1>3, <1>4, <1>5, <1>6 DEF Next

\* No late process turns the end of a row into another, or loses the pointer to
\* its continuation, under the same condition.
THEOREM EndsAreKept == Spec => EndingsStay
<1>1. Inductive /\ [Next]_vars =>
        [\A j \in Job : status[j] \in Closed /\ j \notin doubtful' =>
           status'[j] = status[j] /\ next'[j] = next[j]]_vars
  BY EndingKept
<1>2. QED
  BY <1>1, DesignerStart, DesignerStep, PTL DEF Spec, EndingsStay

------------------------------------------------------------------------------
(* Slices implement Relay *)

\* A row is doubtful after it has been inserted.
LostExist == doubtful \subseteq 1..created

LEMMA LostExistKept == Inductive /\ LostExist /\ [Next]_vars => LostExist'
<1> SUFFICES ASSUME Inductive, LostExist, [Next]_vars PROVE LostExist'
  OBVIOUS
<1> DEFINE Grows(S) == doubtful' \subseteq doubtful \cup S
<1>1. created \in Nat /\ created' \in Nat /\ (created' = created \/ created' = created + 1)
  <2>1. created \in Nat
    BY InTable
  <2>2. created' = created \/ created' = created + 1
    <3>1. CASE UNCHANGED vars
      BY <3>1 DEF vars
    <3>2. ASSUME NEW p \in Runner, RunnerStep(p) PROVE created' = created \/ created' = created + 1
      BY <3>2 DEF RunnerStep, Running, Submit, Insert, StartDrain, Consider, Claim, NothingToClaim,
         CutMidway, SliceEnds, SliceCut, PointToChild, Close, Throws, Heartbeat, Die,
         InsertChild, RefuseChild, Point, FinishAs
    <3>3. ASSUME NEW r \in Reaper, Sweeping(r) \/ ReaperDies(r)
          PROVE  created' = created \/ created' = created + 1
      BY <3>3 DEF Sweeping, StartSweep, ReapSkip, ReapOrphan, ReapContinue, ReapPoint, ReapFail,
         EndSweep, ReaperDies, Stop, Insert, InsertChild, RefuseChild, Point, FinishAs
    <3>4. ASSUME NEW j \in Job, GoStale(j) \/ Age(j) PROVE created' = created
      BY <3>4 DEF GoStale, Age
    <3>5. QED
      BY <3>1, <3>2, <3>3, <3>4 DEF Next
  <2>3. QED
    BY <2>1, <2>2
<1>2. ASSUME NEW j \in 1..created, Grows({j}) PROVE LostExist'
  BY <1>1, <1>2 DEF LostExist
<1>3. ASSUME doubtful' = doubtful PROVE LostExist'
  BY <1>1, <1>3 DEF LostExist
<1>4. ASSUME NEW p \in Runner, RunnerStep(p) PROVE LostExist'
  <2>1. CASE PointToChild(p) \/ (Die(p) /\ pc[p] \in {"midmark", "mark"})
    <3>1. AtWork(p) /\ Grows({cand[p]})
      BY <2>1 DEF PointToChild, Die, AtWork
    <3>2. cand[p] \in 1..created
      BY <3>1 DEF AtWork, Inductive, DesignerInv, RunnersApart
    <3>3. QED
      BY <1>2, <3>1, <3>2
  <2>2. CASE ~(PointToChild(p) \/ (Die(p) /\ pc[p] \in {"midmark", "mark"}))
    BY <1>3, <1>4, <2>2 DEF RunnerStep, Running, Submit, StartDrain, Consider, Claim, NothingToClaim,
       CutMidway, SliceEnds, SliceCut, Close, Throws, Heartbeat, Die
  <2>3. QED
    BY <2>1, <2>2
<1>5. ASSUME NEW r \in Reaper, Sweeping(r) \/ ReaperDies(r) PROVE LostExist'
  <2>1. CASE ReapOrphan(r) \/ ReapContinue(r)
    <3>1. Grows({First(Listed(r))}) /\ Listed(r) # {}
      BY <2>1 DEF ReapOrphan, ReapContinue, Doubt
    <3>2. First(Listed(r)) \in 1..created
      BY <3>1, ListedFirst
    <3>3. QED
      BY <1>2, <3>1, <3>2
  <2>2. CASE ReapPoint(r) \/ (ReaperDies(r) /\ rpc[r] = "mark")
    <3>1. rpc[r] = "mark" /\ Grows({rcand[r]})
      BY <2>2 DEF ReapPoint, ReaperDies
    <3>2. rcand[r] \in 1..created
      BY <3>1 DEF Inductive, DesignerInv, RunnersApart
    <3>3. QED
      BY <1>2, <3>1, <3>2
  <2>3. CASE ~ (ReapOrphan(r) \/ ReapContinue(r) \/ ReapPoint(r) \/ (ReaperDies(r) /\ rpc[r] = "mark"))
    BY <1>3, <1>5, <2>3 DEF Sweeping, StartSweep, ReapSkip, ReapFail, EndSweep, ReaperDies
  <2>4. QED
    BY <2>1, <2>2, <2>3
<1>6. CASE UNCHANGED vars
  BY <1>3, <1>6 DEF vars
<1>7. ASSUME NEW j \in Job, GoStale(j) \/ Age(j) PROVE LostExist'
  BY <1>3, <1>7 DEF GoStale, Age
<1>8. QED
  BY <1>4, <1>5, <1>6, <1>7 DEF Next

LEMMA CourseFrame ==
  ASSUME \A j \in Job : StageOf(j)' = StageOf(j) /\ PointerOf(j)' = PointerOf(j),
         UNCHANGED <<parent, depth>>
  PROVE  UNCHANGED Course!rvars
BY DEF Course!rvars

LEMMA CourseStep ==
  ASSUME NEW j \in Job,
         \/ Course!Begin(j) \/ Course!TakeUp(j) \/ Course!GiveUp(j) \/ Course!Lose(j)
         \/ \E c \in Job : Course!HandOn(j, c) \/ Course!Pass(j, c) \/ Course!Fork(j, c)
         \/ \E o \in {"done", "failed"} : Course!End(j, o)
  PROVE  Course!Next
BY Zenon DEF Course!Next

\* The row that is inserted is nobody's and not doubtful.
LEMMA NewRow ==
  ASSUME Inductive, LostExist, created < MaxJobs
  PROVE  /\ created + 1 \in Job /\ status[created + 1] = "none" /\ created + 1 \notin doubtful
         /\ \A j \in Job : status[j] # "none" => j # created + 1
<1>1. created \in Nat /\ created + 1 \in Job /\ created + 1 > created /\ ~(created + 1 \in 1..created)
  BY InTable
<1>2. \A j \in Job : status[j] = "none" <=> j > created
  BY DEF Inductive, DesignerInv, RunnersApart
<1>3. QED
  BY <1>1, <1>2 DEF LostExist

\* A row may become doubtful without more.
LEMMA OnlyLost ==
  ASSUME Inductive, NEW j \in Job, status[j] # "none",
         UNCHANGED <<status, next, parent, depth>>,
         doubtful' = doubtful \/ doubtful' = doubtful \cup {j}
  PROVE  Course!Next \/ UNCHANGED Course!rvars
<1>1. CASE doubtful' = doubtful
  BY <1>1, CourseFrame DEF StageOf, PointerOf
<1>2. CASE doubtful' = doubtful \cup {j}
  <2>1. StageOf(j) # "none" /\ StageOf(j)' = "lost" /\ PointerOf(j)' = NoJob
    BY <1>2 DEF StageOf, PointerOf
  <2>2. \A i \in Job \ {j} : StageOf(i)' = StageOf(i) /\ PointerOf(i)' = PointerOf(i)
    BY <1>2 DEF StageOf, PointerOf
  <2>3. Course!Lose(j)
    BY <2>1, <2>2, Zenon DEF Course!Lose
  <2>4. QED
    BY <2>3, CourseStep
<1>3. QED
  BY <1>1, <1>2

\* The rest of the work is handed on: for the first time, or the leg is lost.
LEMMA HandsOn ==
  ASSUME Inductive, LostExist, NEW j \in Job, status[j] # "none", InsertChild(j),
         doubtful' = doubtful \/ doubtful' = doubtful \cup {j},
         j \notin doubtful' => status[j] = "running" /\ \A c \in Job : parent[c] # j
  PROVE  Course!Next
<1>0. PICK c \in Job : c = created + 1
  BY NewRow DEF InsertChild
<1>1. status[c] = "none" /\ c \notin doubtful /\ c # j
  BY <1>0, NewRow DEF InsertChild
<1>2. /\ parent \in [Job -> Job \cup {NoJob}] /\ depth \in [Job -> 0..MaxDepth]
      /\ status \in [Job -> Status] /\ next \in [Job -> Job \cup {NoJob}]
  BY DEF Inductive, DesignerInv, DesignerTypeOK
<1>3. /\ depth[j] < MaxDepth /\ status' = [status EXCEPT ![c] = "pending"] /\ next' = next
      /\ parent' = [parent EXCEPT ![c] = j] /\ depth' = [depth EXCEPT ![c] = depth[j] + 1]
  BY <1>0 DEF InsertChild, MayContinue, Insert
<1>4. StageOf(c) = "none" /\ StageOf(c)' = "pending" /\ PointerOf(c)' = PointerOf(c)
  BY <1>1, <1>2, <1>3 DEF StageOf, PointerOf
<1>5. \A i \in Job \ {c, j} : StageOf(i)' = StageOf(i) /\ PointerOf(i)' = PointerOf(i)
  BY <1>1, <1>2, <1>3 DEF StageOf, PointerOf
<1>6. Course!Follows(j, c)
  BY <1>1, <1>3, <1>4, Zenon DEF Course!Follows
<1>7. CASE j \notin doubtful'
  <2>1. StageOf(j) = "running" /\ StageOf(j)' = "running" /\ PointerOf(j)' = PointerOf(j)
    BY <1>1, <1>2, <1>3, <1>7 DEF StageOf, PointerOf
  <2>2. Course!Whole(j)
    BY <1>7 DEF Course!Whole
  <2>3. [i \in Job |-> StageOf(i)]' = [[i \in Job |-> StageOf(i)] EXCEPT ![c] = "pending"]
    BY <1>1, <1>4, <1>5, <2>1
  <2>4. [i \in Job |-> PointerOf(i)]' = [i \in Job |-> PointerOf(i)]
    BY <1>4, <1>5, <2>1
  <2>5. Course!HandOn(j, c)
    BY <1>1, <1>6, <2>1, <2>2, <2>3, <2>4, Zenon DEF Course!HandOn
  <2>6. QED
    BY <1>1, <2>5, CourseStep
<1>8. CASE j \in doubtful'
  <2>1. StageOf(j) # "none" /\ StageOf(j)' = "lost" /\ PointerOf(j)' = NoJob
    BY <1>8 DEF StageOf, PointerOf
  <2>2. [i \in Job |-> StageOf(i)]' = [[i \in Job |-> StageOf(i)] EXCEPT ![j] = "lost", ![c] = "pending"]
    BY <1>1, <1>4, <1>5, <2>1
  <2>3. [i \in Job |-> PointerOf(i)]' = [[i \in Job |-> PointerOf(i)] EXCEPT ![j] = NoJob]
    BY <1>4, <1>5, <2>1
  <2>4. Course!Fork(j, c)
    BY <1>1, <1>6, <2>1, <2>2, <2>3, Zenon DEF Course!Fork
  <2>5. QED
    BY <1>1, <2>4, CourseStep
<1>9. QED
  BY <1>7, <1>8

\* A leg that is over points to the one it was continued by; of a lost one, nothing.
LEMMA PassesOn ==
  ASSUME Inductive, NEW j \in Job, NEW c \in Job, Point(j, c), doubtful' = doubtful,
         parent[c] = j, j \notin doubtful => status[j] = "running"
  PROVE  Course!Next \/ UNCHANGED Course!rvars
<1>1. status \in [Job -> Status] /\ next \in [Job -> Job \cup {NoJob}]
  BY DEF Inductive, DesignerInv, DesignerTypeOK
<1>2. /\ UNCHANGED <<parent, depth>>
      /\ \A i \in Job \ {j} : StageOf(i)' = StageOf(i) /\ PointerOf(i)' = PointerOf(i)
  BY <1>1 DEF Point, StageOf, PointerOf
<1>3. CASE j \in doubtful
  <2>1. StageOf(j)' = StageOf(j) /\ PointerOf(j)' = PointerOf(j)
    BY <1>3 DEF StageOf, PointerOf
  <2>2. QED
    BY <1>2, <2>1, CourseFrame
<1>4. CASE j \notin doubtful
  <2>1. StageOf(j) = "running" /\ StageOf(j)' = "done" /\ PointerOf(j)' = c
    BY <1>1, <1>4 DEF StageOf, PointerOf, Point, MarkedAs
  <2>2. [i \in Job |-> StageOf(i)]' = [[i \in Job |-> StageOf(i)] EXCEPT ![j] = "done"]
    BY <1>2, <2>1
  <2>3. [i \in Job |-> PointerOf(i)]' = [[i \in Job |-> PointerOf(i)] EXCEPT ![j] = c]
    BY <1>2, <2>1
  <2>4. Course!Pass(j, c)
    BY <1>2, <2>1, <2>2, <2>3, Zenon DEF Course!Pass
  <2>5. QED
    BY <2>4, CourseStep
<1>5. QED
  BY <1>3, <1>4

\* A row is closed by a hand that has handed nothing on, by a sweep that knows nobody
\* came for it, or doubtfully.
LEMMA Finishes ==
  ASSUME Inductive, NEW j \in Job, NEW o \in {"done", "failed"}, FinishAs(j, o), status[j] # "none",
         doubtful' = doubtful \/ doubtful' = doubtful \cup {j},
         j \notin doubtful' => \/ status[j] = "running" /\ \A c \in Job : parent[c] # j
                               \/ status[j] = "pending" /\ o = "failed"
  PROVE  Course!Next \/ UNCHANGED Course!rvars
<1>1. status \in [Job -> Status] /\ next \in [Job -> Job \cup {NoJob}]
  BY DEF Inductive, DesignerInv, DesignerTypeOK
<1>2. /\ UNCHANGED <<parent, depth>>
      /\ \A i \in Job \ {j} : StageOf(i)' = StageOf(i) /\ PointerOf(i)' = PointerOf(i)
  BY <1>1 DEF FinishAs, StageOf, PointerOf
<1>3. CASE j \in doubtful'
  <2>1. StageOf(j) # "none" /\ StageOf(j)' = "lost" /\ PointerOf(j)' = NoJob
    BY <1>3 DEF StageOf, PointerOf
  <2>2. [i \in Job |-> StageOf(i)]' = [[i \in Job |-> StageOf(i)] EXCEPT ![j] = "lost"]
    BY <1>2, <2>1
  <2>3. [i \in Job |-> PointerOf(i)]' = [[i \in Job |-> PointerOf(i)] EXCEPT ![j] = NoJob]
    BY <1>2, <2>1
  <2>4. Course!Lose(j)
    BY <1>2, <2>1, <2>2, <2>3, Zenon DEF Course!Lose
  <2>5. QED
    BY <2>4, CourseStep
<1>4. CASE j \notin doubtful'
  <2>1. j \notin doubtful /\ next[j] = NoJob /\ status[j] \in {"running", "pending"}
    BY <1>4 DEF Inductive, DesignerInv, Lineage
  <2>2. StageOf(j) = status[j] /\ StageOf(j)' = o /\ PointerOf(j)' = PointerOf(j)
    BY <1>1, <1>4, <2>1 DEF StageOf, PointerOf, FinishAs
  <2>3. [i \in Job |-> StageOf(i)]' = [[i \in Job |-> StageOf(i)] EXCEPT ![j] = o]
    BY <1>2, <2>2
  <2>4. [i \in Job |-> PointerOf(i)]' = [i \in Job |-> PointerOf(i)]
    BY <1>2, <2>2
  <2>5. CASE status[j] = "running"
    <3>1. Course!Whole(j)
      BY <1>4, <2>5 DEF Course!Whole
    <3>2. Course!End(j, o)
      BY <1>2, <2>2, <2>3, <2>4, <2>5, <3>1, Zenon DEF Course!End
    <3>3. QED
      BY <3>2, CourseStep
  <2>6. CASE status[j] = "pending"
    <3>1. o = "failed"
      BY <1>4, <2>6
    <3>2. Course!GiveUp(j)
      BY <1>2, <2>2, <2>3, <2>4, <2>6, <3>1, Zenon DEF Course!GiveUp
    <3>3. QED
      BY <3>2, CourseStep
  <2>7. QED
    BY <2>1, <2>5, <2>6
<1>5. QED
  BY <1>3, <1>4

\* Somebody begins a brief with its first leg, or takes up a leg that waits.
LEMMA SubmitRuns ==
  ASSUME Inductive, LostExist, NEW p \in Runner, NEW b \in BOOLEAN, Submit(p, b)
  PROVE  Course!Next
<1>1. PICK c \in Job : c = created + 1
  BY NewRow DEF Submit
<1>2. status[c] = "none" /\ c \notin doubtful
  BY <1>1, NewRow DEF Submit
<1>3. /\ status' = [status EXCEPT ![c] = "running"] /\ parent' = [parent EXCEPT ![c] = NoJob]
      /\ depth' = [depth EXCEPT ![c] = 0] /\ next' = next /\ doubtful' = doubtful
  BY <1>1 DEF Submit, Insert
<1>4. status \in [Job -> Status]
  BY DEF Inductive, DesignerInv, DesignerTypeOK
<1>5. StageOf(c) = "none" /\ StageOf(c)' = "running" /\ \A i \in Job \ {c} : StageOf(i)' = StageOf(i)
  BY <1>2, <1>3, <1>4 DEF StageOf
<1>6. [i \in Job |-> StageOf(i)]' = [[i \in Job |-> StageOf(i)] EXCEPT ![c] = "running"]
  BY <1>5
<1>7. [i \in Job |-> PointerOf(i)]' = [i \in Job |-> PointerOf(i)]
  BY <1>3 DEF PointerOf
<1>8. Course!Begin(c)
  BY <1>3, <1>5, <1>6, <1>7, Zenon DEF Course!Begin
<1>9. QED
  BY <1>8, CourseStep

LEMMA ClaimRuns ==
  ASSUME Inductive, NEW w \in Runner, Claim(w)
  PROVE  Course!Next \/ UNCHANGED Course!rvars
<1>1. cand[w] \in 1..created
  BY DEF Claim, Inductive, DesignerInv, RunnersApart
<1>2. PICK j \in Job : j = cand[w]
  BY <1>1, InTable
<1>3. UNCHANGED <<next, parent, depth, doubtful>>
  BY DEF Claim
<1>4. status \in [Job -> Status]
  BY DEF Inductive, DesignerInv, DesignerTypeOK
<1>5. CASE Claimable(j) /\ j \notin doubtful
  <2>1. status[j] = "pending" /\ status' = [status EXCEPT ![j] = "running"]
    BY <1>2, <1>5 DEF Claim, Claimable
  <2>2. StageOf(j) = "pending" /\ StageOf(j)' = "running" /\ \A i \in Job \ {j} : StageOf(i)' = StageOf(i)
    BY <1>3, <1>4, <1>5, <2>1 DEF StageOf
  <2>3. [i \in Job |-> StageOf(i)]' = [[i \in Job |-> StageOf(i)] EXCEPT ![j] = "running"]
    BY <2>2
  <2>4. [i \in Job |-> PointerOf(i)]' = [i \in Job |-> PointerOf(i)]
    BY <1>3 DEF PointerOf
  <2>5. Course!TakeUp(j)
    BY <1>3, <2>2, <2>3, <2>4, Zenon DEF Course!TakeUp
  <2>6. QED
    BY <2>5, CourseStep
<1>6. CASE ~(Claimable(j) /\ j \notin doubtful)
  <2>1. \A i \in Job : StageOf(i)' = StageOf(i) /\ PointerOf(i)' = PointerOf(i)
    BY <1>2, <1>3, <1>4, <1>6 DEF StageOf, PointerOf, Claim, Claimable
  <2>2. QED
    BY <1>3, <2>1, CourseFrame
<1>7. QED
  BY <1>5, <1>6

\* A runner whose slice is open has handed nothing on yet.
LEMMA StillWhole ==
  ASSUME Inductive, NEW p \in Runner, AtWork(p), pc[p] \notin {"midmark", "mark"}, rest[p] # "child",
         cand[p] \notin doubtful
  PROVE  status[cand[p]] = "running" /\ \A c \in Job : parent[c] # cand[p]
<1>1. /\ cand[p] \in Job /\ status[cand[p]] = "running"
      /\ \A q \in Runner : AtWork(q) /\ cand[q] = cand[p] => q = p
      /\ \A r \in Reaper : rpc[r] \in {"mark", "fail"} => rcand[r] # cand[p]
  BY InHand
<1>2. \A q \in Runner : pc[q] \in {"midmark", "mark"} => cand[q] # cand[p]
  BY <1>1 DEF AtWork
<1>3. QED
  BY <1>1, <1>2, NoOtherHand

LEMMA RunnerRuns ==
  ASSUME Inductive, LostExist, NEW p \in Runner, RunnerStep(p)
  PROVE  Course!Next \/ UNCHANGED Course!rvars
<1>1. CASE StartDrain(p) \/ Consider(p) \/ NothingToClaim(p) \/ SliceEnds(p) \/ Throws(p) \/ Heartbeat(p)
  BY <1>1, CourseFrame DEF StartDrain, Consider, NothingToClaim, SliceEnds, Throws, Heartbeat,
     StageOf, PointerOf
<1>2. ASSUME AtWork(p) PROVE cand[p] \in Job /\ status[cand[p]] # "none"
  BY <1>2, InHand
<1>3. CASE CutMidway(p) \/ SliceCut(p)
  <2>1. AtWork(p) /\ pc[p] = "slice" /\ rest[p] # "child" /\ doubtful' = doubtful
    BY <1>3 DEF CutMidway, SliceCut, Settles, AtWork
  <2>2. PICK j \in Job : j = cand[p]
    BY <1>2, <2>1
  <2>3. status[j] # "none" /\ (j \notin doubtful => status[j] = "running" /\ \A c \in Job : parent[c] # j)
    BY <1>2, <2>1, <2>2, StillWhole
  <2>4. CASE InsertChild(j)
    BY <2>1, <2>3, <2>4, HandsOn
  <2>5. CASE RefuseChild(j)
    BY <2>1, <2>3, <2>5, OnlyLost DEF RefuseChild
  <2>6. QED
    BY <1>3, <2>2, <2>4, <2>5 DEF CutMidway, SliceCut
<1>4. CASE PointToChild(p)
  <2>1. AtWork(p) /\ pc[p] \in {"midmark", "mark"}
    BY <1>4 DEF PointToChild, AtWork
  <2>2. PICK j \in Job : j = cand[p]
    BY <1>2, <2>1
  <2>3. PICK c \in Job : c = child[p] /\ parent[c] = j
    BY <2>1, <2>2, InTable DEF Inductive, DesignerInv, Lineage
  <2>4. status[j] # "none" /\ (j \notin doubtful => status[j] = "running")
    BY <1>2, <2>1, <2>2, InHand DEF Inductive, DesignerInv, HandsKnown
  <2>5. CASE Point(j, c) /\ doubtful' = doubtful
    BY <2>3, <2>4, <2>5, PassesOn
  <2>6. CASE doubtful' = doubtful \cup {j} /\ UNCHANGED rows
    BY <2>4, <2>6, OnlyLost
  <2>7. QED
    BY <1>4, <2>2, <2>3, <2>5, <2>6 DEF PointToChild
<1>5. CASE Close(p)
  <2>1. AtWork(p) /\ pc[p] \in {"done", "failed"} /\ rest[p] # "child" /\ doubtful' = doubtful
    BY <1>5 DEF Close, AtWork, Closed, Inductive, DesignerInv, HandsKnown
  <2>2. PICK j \in Job : j = cand[p]
    BY <1>2, <2>1
  <2>3. status[j] # "none" /\ (j \notin doubtful => status[j] = "running" /\ \A c \in Job : parent[c] # j)
    BY <1>2, <2>1, <2>2, StillWhole
  <2>4. CASE FinishAs(j, pc[p])
    BY <2>1, <2>3, <2>4, Finishes
  <2>5. CASE UNCHANGED rows
    BY <2>1, <2>3, <2>5, OnlyLost
  <2>6. QED
    BY <1>5, <2>2, <2>4, <2>5 DEF Close
<1>6. CASE Die(p)
  <2>1. CASE pc[p] \in {"midmark", "mark"}
    <3>1. AtWork(p)
      BY <2>1 DEF AtWork
    <3>2. QED
      BY <1>2, <1>6, <2>1, <3>1, OnlyLost DEF Die
  <2>2. CASE pc[p] \notin {"midmark", "mark"}
    BY <1>6, <2>2, CourseFrame DEF Die, StageOf, PointerOf
  <2>3. QED
    BY <2>1, <2>2
<1>7. QED
  BY <1>1, <1>3, <1>4, <1>5, <1>6, SubmitRuns, ClaimRuns DEF RunnerStep, Running

\* A running row that nobody has in hand has handed nothing on.
LEMMA LeftWhole ==
  ASSUME Inductive, NEW j \in Job, j \notin doubtful, status[j] = "running", Hands(j) = {}
  PROVE  \A c \in Job : parent[c] # j
<1>1. \A p \in Runner : pc[p] \in {"midmark", "mark"} => cand[p] # j
  BY DEF Hands, AtWork
<1>2. \A r \in Reaper : rpc[r] = "mark" => rcand[r] # j
  BY DEF Hands
<1>3. QED
  BY <1>1, <1>2, NoOtherHand

LEMMA SweepRuns ==
  ASSUME Inductive, LostExist, NEW r \in Reaper, Sweeping(r) \/ ReaperDies(r)
  PROVE  Course!Next \/ UNCHANGED Course!rvars
<1>1. CASE StartSweep(r) \/ ReapSkip(r) \/ EndSweep(r)
  BY <1>1, CourseFrame DEF StartSweep, ReapSkip, EndSweep, Stop, StageOf, PointerOf
<1>2. ASSUME rpc[r] \in {"mark", "fail"}
      PROVE  rcand[r] \in Job /\ status[rcand[r]] # "none"
  <2>1. rcand[r] \in 1..created /\ created \in Nat
    BY <1>2, InTable DEF Inductive, DesignerInv, RunnersApart
  <2>2. ~(rcand[r] > created)
    BY <2>1
  <2>3. QED
    BY <2>1, <2>2, InTable DEF Inductive, DesignerInv, RunnersApart
<1>3. CASE ReapOrphan(r)
  <2>1. PICK j \in Job : j = First(Listed(r)) /\ status[j] # "none"
    BY <1>3, ListedFirst DEF ReapOrphan
  <2>2. CASE FinishAs(j, "failed") /\ doubtful' = Doubt(j, "pending")
    <3>1. doubtful' = doubtful \/ doubtful' = doubtful \cup {j}
      BY <2>2 DEF Doubt
    <3>2. j \notin doubtful' => status[j] = "pending"
      BY <2>2 DEF Doubt
    <3>3. QED
      BY <2>1, <2>2, <3>1, <3>2, Finishes
  <2>3. CASE UNCHANGED <<rows, history>>
    BY <2>3, CourseFrame DEF StageOf, PointerOf
  <2>4. QED
    BY <1>3, <2>1, <2>2, <2>3 DEF ReapOrphan
<1>4. CASE ReapContinue(r)
  <2>1. PICK j \in Job : j = First(Listed(r)) /\ status[j] # "none"
    BY <1>4, ListedFirst DEF ReapContinue
  <2>2. doubtful' = Doubt(j, "running") /\ (InsertChild(j) \/ RefuseChild(j))
    BY <1>4, <2>1 DEF ReapContinue
  <2>3. doubtful' = doubtful \/ doubtful' = doubtful \cup {j}
    BY <2>2 DEF Doubt
  <2>4. j \notin doubtful' => j \notin doubtful /\ status[j] = "running" /\ Hands(j) = {}
    BY <2>2 DEF Doubt
  <2>5. CASE InsertChild(j)
    BY <2>1, <2>3, <2>4, <2>5, HandsOn, LeftWhole
  <2>6. CASE RefuseChild(j)
    BY <2>1, <2>3, <2>6, OnlyLost DEF RefuseChild
  <2>7. QED
    BY <2>2, <2>5, <2>6
<1>5. CASE ReapPoint(r)
  <2>1. rpc[r] = "mark"
    BY <1>5 DEF ReapPoint
  <2>2. PICK j \in Job : j = rcand[r] /\ status[j] # "none"
    BY <1>2, <2>1
  <2>3. PICK c \in Job : c = rchild[r] /\ parent[c] = j
    BY <2>1, <2>2, InTable DEF Inductive, DesignerInv, Lineage
  <2>4. j \notin doubtful => status[j] = "running"
    BY <2>1, <2>2, UnderReap
  <2>5. CASE Point(j, c) /\ doubtful' = doubtful
    BY <2>3, <2>4, <2>5, PassesOn
  <2>6. CASE doubtful' = doubtful \cup {j} /\ UNCHANGED rows
    BY <2>2, <2>6, OnlyLost
  <2>7. QED
    BY <1>5, <2>2, <2>3, <2>5, <2>6 DEF ReapPoint
<1>6. CASE ReapFail(r)
  <2>1. rpc[r] = "fail" /\ doubtful' = doubtful
    BY <1>6 DEF ReapFail
  <2>2. PICK j \in Job : j = rcand[r] /\ status[j] # "none"
    BY <1>2, <2>1
  <2>3. ASSUME j \notin doubtful PROVE status[j] = "running" /\ \A c \in Job : parent[c] # j
    <3>1. /\ status[j] = "running" /\ \A p \in Runner : AtWork(p) => cand[p] # j
          /\ \A q \in Reaper : rpc[q] = "mark" => rcand[q] # j
      BY <2>1, <2>2, <2>3, UnderReap
    <3>2. \A p \in Runner : pc[p] \in {"midmark", "mark"} => cand[p] # j
      BY <3>1 DEF AtWork
    <3>3. QED
      BY <2>3, <3>1, <3>2, NoOtherHand
  <2>4. CASE FinishAs(j, "failed")
    BY <2>1, <2>2, <2>3, <2>4, Finishes
  <2>5. CASE UNCHANGED rows
    BY <2>1, <2>2, <2>5, OnlyLost
  <2>6. QED
    BY <1>6, <2>2, <2>4, <2>5 DEF ReapFail
<1>7. CASE ReaperDies(r)
  <2>1. CASE rpc[r] = "mark"
    <3>1. rcand[r] \in Job /\ status[rcand[r]] # "none"
      BY <1>2, <2>1
    <3>2. doubtful' = doubtful \cup {rcand[r]} /\ UNCHANGED rows
      BY <1>7, <2>1 DEF ReaperDies, Stop
    <3>3. QED
      BY <3>1, <3>2, OnlyLost
  <2>2. CASE rpc[r] # "mark"
    BY <1>7, <2>2, CourseFrame DEF ReaperDies, Stop, StageOf, PointerOf
  <2>3. QED
    BY <2>1, <2>2
<1>8. QED
  BY <1>1, <1>3, <1>4, <1>5, <1>6, <1>7 DEF Sweeping

LEMMA CourseStart == Init => Course!Init /\ LostExist
<1> SUFFICES ASSUME Init PROVE Course!Init /\ LostExist
  OBVIOUS
<1>1. LostExist
  BY DEF Init, LostExist
<1>2. \A j \in Job : StageOf(j) = "none" /\ PointerOf(j) = NoJob
  BY DEF Init, StageOf, PointerOf
<1>3. parent = [j \in Job |-> NoJob] /\ depth = [j \in Job |-> 0]
  BY DEF Init
<1>4. QED
  BY <1>1, <1>2, <1>3 DEF Course!Init

LEMMA NextRuns == Inductive /\ LostExist /\ [Next]_vars => [Course!Next]_(Course!rvars)
<1> SUFFICES ASSUME Inductive, LostExist, [Next]_vars
             PROVE  Course!Next \/ UNCHANGED Course!rvars
  OBVIOUS
<1>1. CASE UNCHANGED vars
  BY <1>1, CourseFrame DEF vars, StageOf, PointerOf
<1>2. ASSUME NEW j \in Job, GoStale(j) \/ Age(j) PROVE UNCHANGED Course!rvars
  BY <1>2, CourseFrame DEF GoStale, Age, StageOf, PointerOf
<1>3. QED
  BY <1>1, <1>2, RunnerRuns, SweepRuns DEF Next

\* For any number of pages, workers, sweeps and faults, slices are legs of a relay:
\* each run once, continued once, and at most MaxDepth after the first.
THEOREM DesignersImplementRelay == Spec => RelaySpec
<1>1. Init => Inductive /\ LostExist
  BY DesignerStart, CourseStart
<1>2. Inductive /\ LostExist /\ [Next]_vars => (Inductive /\ LostExist)'
  BY DesignerStep, LostExistKept
<1>3. Init => Course!Init
  BY CourseStart
<1>4. QED
  BY <1>1, <1>2, <1>3, NextRuns, PTL DEF Spec, RelaySpec, Course!Spec

==============================================================================
