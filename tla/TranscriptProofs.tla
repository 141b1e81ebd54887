--------------------------- MODULE TranscriptProofs ---------------------------
(***************************************************************************)
(* What becomes of the work of a turn in the transcript: the reply, or the *)
(* text its drain saves when the generation throws, or the text a reaper   *)
(* salvages from its row.  Neither a drain nor the reapers ever save it    *)
(* twice; where beats arrive, what has none is quick, and nobody dies      *)
(* between the reply and the close, it is there once; where those who save *)
(* live to do so, it is not lost.                                          *)
(***************************************************************************)
EXTENDS TurnPromisesProofs, FiniteSetTheorems

\* The messages of the assistant about turn j among S, notices of the queue apart.
Words(S, j) == {b \in Bubble \ {"user", "notice"} : <<j, b>> \in S}

\* A new message is about one turn.
LEMMA WordsWith ==
  ASSUME NEW S, NEW i, NEW b \in Bubble \ {"user", "notice"}
  PROVE  /\ Words(S \cup {<<i, b>>}, i) = Words(S, i) \cup {b}
         /\ \A j : j # i => Words(S \cup {<<i, b>>}, j) = Words(S, j)
BY DEF Words

\* Those that the turn itself leaves.
Own == {"reply", "runner"}

\* The points at which a drain has saved what it had to save: its reply, if there was
\* one, or what its turn had written when it threw.
Replied == {"voice", "speak", "read", "close"}
Told == Replied \cup {"mark"}

------------------------------------------------------------------------------
(* What a step can say *)

\* A drain saves its reply, or what its turn had written when it threw.
TurnSpeaks(d) ==
  /\ \/ SaveReply(d) /\ posted' = posted \cup {<<cand[d], "reply">>}
     \/ SaveOwnPartial(d)

\* Nobody else but a reaper adds to the words of a turn, and none is taken away.
LEMMA WordsFrom ==
  ASSUME QueueInv, Next
  PROVE  /\ posted \subseteq posted'
         /\ \/ \A j \in Job : Words(posted', j) = Words(posted, j)
            \/ \E d \in Drain : TurnSpeaks(d)
            \/ \E r \in Reaper : ReapSalvage(r)
<1> DEFINE Quietly == posted' = posted
           Noted == \E i : posted' = posted \cup {<<i, "user">>} \/ posted' = posted \cup {<<i, "notice">>}
<1>1. Quietly \/ Noted => posted \subseteq posted' /\ \A j \in Job : Words(posted', j) = Words(posted, j)
  BY DEF Words
<1> USE DEF transcript
<1>2. CASE Environment
  <2>1. ASSUME NEW t \in Thread, NEW k \in Kind, Enqueue(t, k) PROVE Quietly \/ Noted
    BY <2>1 DEF Enqueue
  <2>2. ASSUME NEW t \in Thread, ScheduleLooks(t) \/ ScheduleFires(t) \/ KitRunStarts(t) \/ KitRunEnds(t)
        PROVE  Quietly
    BY <2>2 DEF ScheduleLooks, ScheduleFires, KitRunStarts, KitRunEnds
  <2>3. ASSUME NEW i \in Job, CancelTurn(i) \/ CancelSince(i) \/ GoStale(i) \/ Age(i)
        PROVE  Quietly
    BY <2>3 DEF CancelTurn, CancelSince, GoStale, Age
  <2>4. QED
    BY <1>1, <1>2, <2>1, <2>2, <2>3 DEF Environment
<1>3. ASSUME NEW d \in Drain, DrainStep(d) PROVE Quietly \/ Noted \/ TurnSpeaks(d)
  <2>1. CASE Claiming(d)
    BY <2>1 DEF Claiming, StartDrain, SkipCandidate, PickCandidate, NothingToClaim,
       Claim, ClaimLost
  <2>2. CASE AnswerClear(d) \/ BeginTurn(d) \/ SaveAbsorbed(d)
    BY <2>2 DEF AnswerClear, BeginTurn, SaveAbsorbed
  <2>3. CASE BeginClear(d) \/ CloseClear(d) \/ MarkOwnPartial(d)
    BY <2>3 DEF BeginClear, CloseClear, MarkOwnPartial
  <2>4. CASE SaveReply(d)
    BY <2>4 DEF SaveReply, TurnSpeaks
  <2>5. CASE SaveOwnPartial(d)
    BY <2>5 DEF TurnSpeaks
  <2>6. CASE Settling(d) /\ ~SaveReply(d)
    BY <2>6 DEF Settling, EndGeneration, NoContinuation, WantContinuation, InsertContinuation,
       ContinuationLost, AskRoom, NextVoice, NoVoice, ReadRow, Close
  <2>7. CASE Abandon(d) \/ GenerationFails(d)
    BY <2>7 DEF Abandon, GenerationFails, FailChatJob
  <2>8. CASE Heartbeat(d) \/ StepWrites(d) \/ Crash(d)
    BY <2>8 DEF Heartbeat, StepWrites, Crash
  <2>9. ASSUME NEW k \in Job, Absorb(d, k) PROVE Quietly
    BY <2>9 DEF Absorb
  <2>10. QED
    BY <1>3, <2>1, <2>2, <2>3, <2>4, <2>5, <2>6, <2>7, <2>8, <2>9 DEF DrainStep, Running
<1>4. ASSUME NEW r \in Reaper, ReaperStep(r) PROVE Quietly \/ ReapSalvage(r)
  BY <1>4 DEF ReaperStep, StartSweep, ReapSkip, ReapClaim, ReapLose, ReapMark, EndSweep,
     ReaperDies, RestReaper
<1>5. ASSUME NEW d \in Drain, TurnSpeaks(d) PROVE posted \subseteq posted'
  BY <1>5 DEF TurnSpeaks, SaveOwnPartial
<1>6. ASSUME NEW r \in Reaper, ReapSalvage(r) PROVE posted \subseteq posted'
  BY <1>6 DEF ReapSalvage
<1>7. QED
  BY <1>1, <1>2, <1>3, <1>4, <1>5, <1>6 DEF Next

\* A drain that speaks does so about its row, before which it had not.
LEMMA TurnSays ==
  ASSUME QueueInv, NEW d \in Drain, TurnSpeaks(d)
  PROVE  \E b \in Own :
           /\ Working(d) /\ pc[d] = (IF b = "reply" THEN "save" ELSE "salvage")
           /\ pc'[d] \in Told /\ (b = "reply" => pc'[d] = "voice")
           /\ cand[d] \in Job /\ cand' = cand /\ \A e \in Drain : e # d => pc'[e] = pc[e]
           /\ posted' = posted \cup {<<cand[d], b>>}
           /\ Words(posted', cand[d]) = Words(posted, cand[d]) \cup {b}
           /\ \A j \in Job : j # cand[d] => Words(posted', j) = Words(posted, j)
           /\ UNCHANGED <<status, partial, reapers>>
<1>1. pc \in [Drain -> PC]
  BY DEF QueueInv, TypeOK
<1>2. ASSUME NEW b \in Own, posted' = posted \cup {<<cand[d], b>>}
      PROVE  /\ Words(posted', cand[d]) = Words(posted, cand[d]) \cup {b}
             /\ \A j \in Job : j # cand[d] => Words(posted', j) = Words(posted, j)
  <2>1. b \in Bubble \ {"user", "notice"}
    BY DEF Own, Bubble
  <2>2. QED
    BY <1>2, <2>1, WordsWith
<1>3. CASE SaveReply(d) /\ posted' = posted \cup {<<cand[d], "reply">>}
  <2>1. /\ pc[d] = "save" /\ pc'[d] = "voice" /\ cand' = cand
        /\ \A e \in Drain : e # d => pc'[e] = pc[e]
        /\ UNCHANGED <<status, partial, reapers>>
    BY <1>1, <1>3 DEF SaveReply, Goto
  <2>2. cand[d] \in Job
    BY <2>1, InHand
  <2>3. QED
    BY <1>2, <1>3, <2>1, <2>2 DEF Own, Told, Replied, Working
<1>4. CASE SaveOwnPartial(d)
  <2>1. /\ pc[d] = "salvage" /\ pc'[d] = "mark" /\ cand' = cand
        /\ \A e \in Drain : e # d => pc'[e] = pc[e]
        /\ posted' = posted \cup {<<cand[d], "runner">>}
        /\ UNCHANGED <<status, partial, reapers>>
    BY <1>1, <1>4 DEF SaveOwnPartial, Goto
  <2>2. cand[d] \in Job
    BY <2>1, InHand
  <2>3. QED
    BY <1>2, <2>1, <2>2 DEF Own, Told, Replied, Working
<1>5. QED
  BY <1>3, <1>4 DEF TurnSpeaks

\* The same of a reaper and the row it salvages.
LEMMA ReaperSays ==
  ASSUME QueueInv, NEW r \in Reaper, ReapSalvage(r)
  PROVE  /\ rpc[r] = "salvage" /\ Salvaging(r) /\ rpc'[r] = "mark" /\ rcand[r] \in Job
         /\ Words(posted', rcand[r]) = Words(posted, rcand[r]) \cup {r}
         /\ \A j \in Job : j # rcand[r] => Words(posted', j) = Words(posted, j)
         /\ UNCHANGED <<status, partial, drains, rcand>>
         /\ \A q \in Reaper : q # r => rpc'[q] = rpc[q]
<1>1. rpc \in [Reaper -> {"idle", "sweep", "salvage", "mark"}]
  BY DEF QueueInv, TypeOK
<1>2. /\ rpc[r] = "salvage" /\ rpc'[r] = "mark"
      /\ \A q \in Reaper : q # r => rpc'[q] = rpc[q]
      /\ posted' = posted \cup {<<rcand[r], r>>}
      /\ UNCHANGED <<status, partial, drains, rcand>>
  BY <1>1 DEF ReapSalvage, Rows
<1>3. rcand[r] \in Job
  BY <1>2, InReach
<1>4. r \in Bubble \ {"user", "notice"}
  BY ChatQueueAssumption DEF Bubble
<1>5. QED
  BY <1>2, <1>3, <1>4, WordsWith DEF Salvaging

------------------------------------------------------------------------------
(* Nobody saves twice *)

\* A drain that has not saved finds no word of its own, and has closed its row if it
\* threw; a row a reaper may still claim has none of a reaper, and the one that
\* claimed it is alone.
SavesApart ==
  /\ \A d \in Drain : pc[d] \in {"salvage", "mark"} => status[cand[d]] \notin Open
  /\ \A d \in Drain : Working(d) /\ pc[d] \notin Told => Words(posted, cand[d]) \cap Own = {}
  /\ \A j \in Job : status[j] \in Open => Words(posted, j) \cap Reaper = {}
  /\ \A r \in Reaper : Salvaging(r) => status[rcand[r]] \notin Open
  /\ \A r \in Reaper : rpc[r] = "salvage" => Words(posted, rcand[r]) \cap Reaper = {}
  /\ \A r, q \in Reaper : Salvaging(r) /\ Salvaging(q) /\ rcand[r] = rcand[q] => r = q

\* A closed row is never open again.
LEMMA StaysOver ==
  ASSUME QueueInv, PointsKnown, Next, NEW j \in Job, status[j] \notin Open \cup Unclaimed
  PROVE  status'[j] \notin Open
<1>1. ASSUME NEW d \in Drain, Claim(d) PROVE cand[d] # j
  BY <1>1 DEF Claim, Unclaimed
<1>2. QED
  BY <1>1, StatusMoves DEF Unclaimed, Over, Open

\* A row that is open was, or is new.
LEMMA WasOpen ==
  ASSUME QueueInv, PointsKnown, Next, NEW j \in Job, status'[j] \in Open
  PROVE  status[j] \in Open \/ status[j] = "none"
BY StaysOver DEF Unclaimed, Open

\* How a turn comes to throw, and how it leaves the points at which it has something
\* to save, or has saved it.
LEMMA TurnPoints ==
  ASSUME QueueInv, Next, NEW d \in Drain
  PROVE  /\ pc'[d] = "validate" => pc[d] = "validate" \/ Claim(d)
         /\ pc'[d] \in {"salvage", "mark"} => pc[d] \in {"salvage", "mark"} \/ GenerationFails(d)
         /\ pc[d] = "salvage" => pc'[d] = "salvage" \/ SaveOwnPartial(d) \/ Crash(d)
         /\ pc[d] \in Told =>
              \/ pc'[d] \in Told
              \/ /\ pc'[d] = "idle"
                 /\ Close(d) \/ MarkOwnPartial(d) \/ Crash(d) \/ Abandon(d)
         /\ pc'[d] \in Replied => pc[d] \in Replied \/ SaveReply(d)
         /\ Working(d)' => wrote'[d] = wrote[d] \/ StepWrites(d)
<1>1. pc \in [Drain -> PC] /\ wrote \in [Drain -> BOOLEAN]
  BY DEF QueueInv, TypeOK
<1>2. CASE pc'[d] = pc[d] /\ wrote'[d] = wrote[d]
  BY <1>2
<1> USE <1>1 DEF Told, Replied, Working
<1>3. ASSUME NEW e \in Drain, DrainStep(e), e # d PROVE pc'[d] = pc[d] /\ wrote'[d] = wrote[d]
  BY <1>3, DrainMoves
<1>4. CASE Claiming(d)
  <2>1. pc[d] \in {"idle", "scan", "claim"} /\ pc'[d] \in {"idle", "scan", "claim", "validate"}
        /\ wrote' = wrote
    BY <1>4 DEF Claiming, StartDrain, SkipCandidate, PickCandidate, NothingToClaim, Claim,
       ClaimLost, Goto
  <2>2. pc'[d] = "validate" => Claim(d)
    BY <1>4 DEF Claiming, StartDrain, SkipCandidate, PickCandidate, NothingToClaim, ClaimLost, Goto
  <2>3. QED
    BY <2>1, <2>2
<1>5. CASE Running(d)
  <2>1. CASE BeginClear(d) \/ AnswerClear(d) \/ BeginTurn(d) \/ SaveAbsorbed(d)
    BY <2>1 DEF BeginClear, AnswerClear, BeginTurn, SaveAbsorbed, Goto
  <2>2. CASE CloseClear(d) \/ SaveOwnPartial(d) \/ MarkOwnPartial(d)
    BY <2>2 DEF CloseClear, SaveOwnPartial, MarkOwnPartial, Goto, Release
  <2>3. QED
    BY <1>5, <2>1, <2>2 DEF Running
<1>6. CASE Settling(d)
  <2>1. CASE Close(d)
    BY <2>1 DEF Close, Goto, Release
  <2>2. CASE \/ EndGeneration(d) \/ NoContinuation(d) \/ WantContinuation(d)
             \/ InsertContinuation(d) \/ ContinuationLost(d) \/ SaveReply(d)
    BY <2>2 DEF EndGeneration, NoContinuation, WantContinuation, InsertContinuation,
       ContinuationLost, SaveReply, Goto
  <2>3. CASE AskRoom(d) \/ NextVoice(d) \/ NoVoice(d) \/ ReadRow(d)
    BY <2>3 DEF AskRoom, NextVoice, NoVoice, ReadRow, Goto
  <2>4. QED
    BY <1>6, <2>1, <2>2, <2>3 DEF Settling
<1>7. CASE Heartbeat(d) \/ StepWrites(d) \/ (\E k \in Job : Absorb(d, k))
  <2>1. CASE StepWrites(d)
    <3>1. pc' = pc
      BY <2>1 DEF StepWrites
    <3>2. QED
      BY <2>1, <3>1
  <2>2. CASE Heartbeat(d) \/ (\E k \in Job : Absorb(d, k))
    BY <2>2 DEF Heartbeat, Absorb, Generating, drains
  <2>3. QED
    BY <1>7, <2>1, <2>2
<1>8. CASE Abandon(d) \/ GenerationFails(d) \/ Crash(d)
  <2>1. CASE Abandon(d)
    BY <2>1, ChatQueueAssumption DEF Abandon, AfterGeneration
  <2>2. CASE Crash(d)
    BY <2>2 DEF Crash
  <2>3. CASE GenerationFails(d)
    <3>1. pc[d] = "generate" /\ pc'[d] \in {"salvage", "idle"} /\ (pc'[d] # "idle" => wrote' = wrote)
      BY <2>3 DEF GenerationFails
    <3>2. QED
      BY <2>3, <3>1
  <2>4. QED
    BY <1>8, <2>1, <2>2, <2>3
<1>3a. CASE UNCHANGED drains
  BY <1>2, <1>3a DEF drains
<1>10. QED
  BY <1>2, <1>3, <1>4, <1>5, <1>6, <1>7, <1>8, <1>3a, DrainsStand DEF Next, DrainStep

\* A drain that has not saved had not, or has just claimed its row.
LEMMA StillUntold ==
  ASSUME QueueInv, OneOwner, Next, NEW d \in Drain, Working(d)', pc'[d] \notin Told
  PROVE  /\ cand'[d] = cand[d] /\ cand[d] \in Job
         /\ \/ Claim(d) /\ status[cand[d]] = "pending" /\ posted' = posted
            \/ Working(d) /\ pc[d] \notin Told
<1>1. /\ cand'[d] = cand[d] /\ cand[d] \in Job
      /\ Working(d) \/ (Claim(d) /\ status[cand[d]] = "pending")
  BY WorkersOwn
<1>2. Claim(d) => posted' = posted
  BY DEF Claim, transcript
<1>3. ASSUME Working(d), pc[d] \in Told PROVE FALSE
  BY <1>3, TurnPoints DEF Working
<1>4. QED
  BY <1>1, <1>2, <1>3

\* Who salvages a row was about to, or has just claimed it.
LEMMA SalvageStarts ==
  ASSUME QueueInv, Next, NEW r \in Reaper, rpc'[r] = "salvage"
  PROVE  /\ rcand'[r] \in Job
         /\ \/ rpc[r] = "salvage" /\ rcand'[r] = rcand[r]
            \/ ReapClaim(r) /\ status[rcand'[r]] \in Open /\ posted' = posted
<1>1. rpc \in [Reaper -> {"idle", "sweep", "salvage", "mark"}]
  BY DEF QueueInv, TypeOK
<1>2. ReapClaim(r) => posted' = posted
  BY DEF ReapClaim, transcript
<1>3. ASSUME rpc[r] = "mark" PROVE FALSE
  <2>1. rpc'[r] # rpc[r]
    BY <1>3
  <2>2. UNCHANGED reapers => FALSE
    BY <2>1 DEF reapers
  <2>3. Environment => UNCHANGED reapers
    BY DEF Environment, Enqueue, ScheduleLooks, ScheduleFires, KitRunStarts, KitRunEnds,
       CancelTurn, CancelSince, GoStale, Age
  <2>4. ASSUME NEW q \in Reaper, ReaperStep(q) PROVE FALSE
    BY <1>1, <1>3, <2>4 DEF ReaperStep, StartSweep, ReapSkip, ReapClaim, ReapLose, ReapSalvage,
       ReapMark, EndSweep, ReaperDies, RestReaper
  <2>5. QED
    BY <2>2, <2>3, <2>4, DrainMoves DEF Next
<1>4. QED
  BY <1>1, <1>2, <1>3, SalvagersKnown DEF Salvaging

LEMMA SavesApartStep ==
  ASSUME QueueInv, PointsKnown, OneOwner, Untold, SavesApart, Next
  PROVE  SavesApart'
<1>1. /\ "reply" \notin Reaper /\ "runner" \notin Reaper
      /\ \A j \in Job : status[j] \in Unclaimed => Words(posted, j) = {}
  BY ChatQueueAssumption DEF Untold, Unanswered, Words
<1>2. ASSUME NEW d \in Drain, Working(d)', pc'[d] \notin Told
      PROVE  Words(posted', cand'[d]) \cap Own = {}
  <2> DEFINE c == cand[d]
  <2>1. /\ cand'[d] = c /\ c \in Job
        /\ \/ Claim(d) /\ status[c] = "pending" /\ posted' = posted
           \/ Working(d) /\ pc[d] \notin Told
    BY <1>2, StillUntold
  <2>2. Words(posted, c) \cap Own = {}
    BY <1>1, <2>1 DEF SavesApart, Unclaimed
  <2>3. CASE posted' = posted
    BY <2>1, <2>2, <2>3 DEF Words
  <2>4. CASE Working(d) /\ pc[d] \notin Told
    <3>1. ASSUME NEW e \in Drain, TurnSpeaks(e), cand[e] = c PROVE FALSE
      BY <1>2, <2>4, <3>1, TurnSays DEF OneOwner
    <3>2. ASSUME NEW e \in Drain, TurnSpeaks(e), cand[e] # c PROVE Words(posted', c) = Words(posted, c)
      BY <2>1, <3>2, TurnSays
    <3>3. ASSUME NEW r \in Reaper, ReapSalvage(r) PROVE Words(posted', c) \subseteq Words(posted, c) \cup Reaper
      BY <2>1, <3>3, ReaperSays
    <3>4. QED
      BY <1>1, <2>1, <2>2, <3>1, <3>2, <3>3, WordsFrom DEF Own
  <2>5. QED
    BY <2>1, <2>3, <2>4
<1>3. ASSUME NEW j \in Job, status'[j] \in Open PROVE Words(posted', j) \cap Reaper = {}
  <2>1. status[j] \in Open \/ status[j] = "none"
    BY <1>3, WasOpen
  <2>2. Words(posted, j) \cap Reaper = {}
    BY <1>1, <2>1 DEF SavesApart, Unclaimed
  <2>3. ASSUME NEW d \in Drain, TurnSpeaks(d) PROVE Words(posted', j) \subseteq Words(posted, j) \cup Own
    BY <2>3, TurnSays
  <2>4. ASSUME NEW r \in Reaper, ReapSalvage(r) PROVE Words(posted', j) = Words(posted, j)
    <3>1. rcand[r] # j
      BY <2>1, <2>4, ReaperSays DEF SavesApart, OneOwner, Unclaimed
    <3>2. QED
      BY <2>4, <3>1, ReaperSays
  <2>5. QED
    BY <1>1, <2>2, <2>3, <2>4, WordsFrom DEF Own
<1>4. ASSUME NEW r \in Reaper, Salvaging(r)' PROVE status'[rcand'[r]] \notin Open
  BY <1>4, SalvagersKnown, StaysOver DEF SavesApart, OneOwner, Open
<1>5. ASSUME NEW r \in Reaper, rpc'[r] = "salvage" PROVE Words(posted', rcand'[r]) \cap Reaper = {}
  <2> DEFINE c == rcand'[r]
  <2>1. /\ c \in Job
        /\ \/ rpc[r] = "salvage" /\ c = rcand[r]
           \/ status[c] \in Open /\ posted' = posted
    BY <1>5, SalvageStarts
  <2>2. Words(posted, c) \cap Reaper = {}
    BY <2>1 DEF SavesApart
  <2>3. ASSUME NEW d \in Drain, TurnSpeaks(d) PROVE Words(posted', c) \subseteq Words(posted, c) \cup Own
    BY <2>1, <2>3, TurnSays
  <2>4. ASSUME NEW q \in Reaper, ReapSalvage(q) PROVE Words(posted', c) = Words(posted, c)
    <3>1. CASE posted' = posted
      BY <3>1 DEF Words
    <3>2. CASE rpc[r] = "salvage" /\ c = rcand[r]
      <4>1. rcand[q] # c
        BY <1>5, <2>4, <3>2, ReaperSays DEF SavesApart, Salvaging
      <4>2. QED
        BY <2>1, <2>4, <4>1, ReaperSays
    <3>3. QED
      BY <2>1, <3>1, <3>2
  <2>5. QED
    BY <1>1, <2>1, <2>2, <2>3, <2>4, WordsFrom DEF Own
<1>6. ASSUME NEW r \in Reaper, NEW q \in Reaper, Salvaging(r)', Salvaging(q)',
             rcand'[r] = rcand'[q], r # q
      PROVE  FALSE
  <2>1. CASE Salvaging(r) /\ rcand'[r] = rcand[r] /\ Salvaging(q) /\ rcand'[q] = rcand[q]
    BY <1>6, <2>1 DEF SavesApart
  <2>2. ASSUME NEW x \in Reaper, NEW y \in Reaper, x # y, ReapClaim(x), Salvaging(y)' PROVE Salvaging(y)
    BY <2>2 DEF ReapClaim, Salvaging, QueueInv, TypeOK
  <2>3. ASSUME NEW x \in Reaper, NEW y \in Reaper, x # y, ReapClaim(x), Salvaging(y)' PROVE ~ReapClaim(y)
    BY <2>2, <2>3 DEF ReapClaim, Salvaging
  <2>4. ASSUME NEW x \in Reaper, NEW y \in Reaper, x # y, rcand'[x] = rcand'[y],
               status[rcand'[x]] \in Open, Salvaging(y), rcand'[y] = rcand[y]
        PROVE  FALSE
    BY <2>4 DEF SavesApart
  <2>5. QED
    BY <1>6, <2>1, <2>2, <2>3, <2>4, SalvagersKnown
<1>7. ASSUME NEW d \in Drain, pc'[d] \in {"salvage", "mark"} PROVE status'[cand'[d]] \notin Open
  <2>1. cand'[d] = cand[d] /\ cand[d] \in Job /\ (pc[d] \in {"salvage", "mark"} \/ GenerationFails(d))
    BY <1>7, TurnPoints, WorkedRow DEF Working
  <2>2. CASE GenerationFails(d)
    BY <2>1, <2>2 DEF GenerationFails, FailChatJob, Open, QueueInv, TypeOK
  <2>3. CASE pc[d] \in {"salvage", "mark"}
    BY <2>1, <2>3, StaysOver DEF SavesApart, OneOwner, Working
  <2>4. QED
    BY <2>1, <2>2, <2>3
<1>8. QED
  BY <1>2, <1>3, <1>4, <1>5, <1>6, <1>7 DEF SavesApart

LEMMA SavesApartAlways == Spec => []SavesApart
<1>1. Init => SavesApart
  BY DEF Init, SavesApart, Working, Salvaging, Words
<1>2. QueueInv /\ PointsKnown /\ OneOwner /\ Untold /\ SavesApart /\ [Next]_vars => SavesApart'
  <2>1. QueueInv /\ PointsKnown /\ OneOwner /\ Untold /\ SavesApart /\ Next => SavesApart'
    BY SavesApartStep
  <2>2. SavesApart /\ UNCHANGED vars => SavesApart'
    BY DEF SavesApart, Working, Salvaging, Words, vars, transcript, drains, reapers
  <2>3. QED
    BY <2>1, <2>2
<1>3. QED
  BY <1>1, <1>2, QueueInvariant, PointsAlways, OneOwnerAlways, UntoldAlways, PTL DEF Spec

\* Whatever dies, stalls or is stopped, and however many reapers have listed the
\* row of a turn, neither its drain nor the reapers save its work a second time.
THEOREM NobodySavesTwice == Spec => []SavedOnce
<1>1. QueueInv /\ SavesApart => SavedOnce
  <2> SUFFICES ASSUME QueueInv, SavesApart PROVE SavedOnce
    OBVIOUS
  <2>1. ASSUME NEW d \in Drain, pc[d] \in {"save", "salvage"}
        PROVE  posted \cap ({cand[d]} \X {"reply", "runner"}) = {}
    <3>1. Words(posted, cand[d]) \cap Own = {}
      BY <2>1 DEF SavesApart, Working, Told, Replied
    <3>2. QED
      BY <3>1 DEF Words, Own, Bubble
  <2>2. ASSUME NEW r \in Reaper, rpc[r] = "salvage" PROVE posted \cap ({rcand[r]} \X Reaper) = {}
    <3>1. Words(posted, rcand[r]) \cap Reaper = {}
      BY <2>2 DEF SavesApart
    <3>2. QED
      BY <3>1, ChatQueueAssumption DEF Words, Bubble
  <2>3. QED
    BY <2>1, <2>2 DEF SavedOnce
<1>2. QED
  BY <1>1, QueueInvariant, SavesApartAlways, PTL

------------------------------------------------------------------------------
(* The work of a turn is told once *)

\* No drain dies between the reply of its turn and the close of the row.
TellersLive == CrashAt \cap Replied = {}

\* Nor is it silent there, or before it, from the end of the generation on, as long
\* as the limit.
Prompt == SilentAt \cap AfterGeneration = {}

\* Of an open row whose words are in the thread the drain is still there to close it;
\* who is about to speak of a turn finds nothing said, and nobody says a second word.
OneWord ==
  /\ \A j \in Job : status[j] \in Open /\ Words(posted, j) # {} =>
       \E d \in Drain : pc[d] \in Told /\ cand[d] = j
  /\ \A d \in Drain : Working(d) /\ pc[d] \notin Told => Words(posted, cand[d]) = {}
  /\ \A r \in Reaper : rpc[r] = "salvage" => Words(posted, rcand[r]) = {}
  /\ \A j \in Job : \A b, c \in Words(posted, j) : b = c

\* A drain that has spoken of an open row is still there after the step, or the
\* row is closed.
LEMMA TellerStays ==
  ASSUME TellersLive, QueueInv, SavesApart, Next, NEW d \in Drain, pc[d] \in Told,
         status'[cand[d]] \in Open
  PROVE  status[cand[d]] \in Open => pc'[d] \in Told /\ cand'[d] = cand[d]
<1> SUFFICES ASSUME status[cand[d]] \in Open PROVE pc'[d] \in Told /\ cand'[d] = cand[d]
  OBVIOUS
<1>1. pc[d] # "mark"
  BY DEF SavesApart
<1>2. cand[d] \in Job
  BY InHand DEF Told, Replied
<1>3. ~Close(d)
  BY <1>2 DEF Close, Closable, Open, QueueInv, TypeOK
<1>4. ~MarkOwnPartial(d)
  BY <1>1 DEF MarkOwnPartial, Goto
<1>5. ~Crash(d)
  BY <1>1 DEF Crash, TellersLive, Told
<1>6. ~Abandon(d)
  BY <1>2 DEF Abandon, FailChatJob, Open, QueueInv, TypeOK
<1>7. pc'[d] \in Told
  BY <1>3, <1>4, <1>5, <1>6, TurnPoints
<1>8. QED
  BY <1>7, WorkersKnown DEF Working, Told, Replied

LEMMA OneWordStep ==
  ASSUME Beating, Prompt, TellersLive, QueueInv, PointsKnown, OneOwner, Untold, HeldRows,
         SavesApart, OneWord, Next
  PROVE  OneWord'
<1>1. \A j \in Job : status[j] \in Unclaimed => Words(posted, j) = {}
  BY ChatQueueAssumption DEF Untold, Unanswered, Words
\* A drain and a reaper never speak of the same row.
<1>2. ASSUME NEW d \in Drain, NEW r \in Reaper, Working(d), Salvaging(r), cand[d] = rcand[r]
      PROVE  FALSE
  <2>1. cand[d] \in Job
    BY <1>2, InHand DEF Working
  <2>2. QED
    BY <1>2, <2>1 DEF HeldRows, Held, LateOn, Overtaken, Prompt
<1>3. ASSUME NEW j \in Job, status'[j] \in Open, Words(posted', j) # {}
      PROVE  \E d \in Drain : pc'[d] \in Told /\ cand'[d] = j
  <2>1. status[j] \in Open \/ (status[j] = "none" /\ Words(posted, j) = {})
    BY <1>1, <1>3, WasOpen DEF Unclaimed
  <2>2. CASE Words(posted, j) # {}
    <3>1. PICK d \in Drain : pc[d] \in Told /\ cand[d] = j
      BY <2>1, <2>2 DEF OneWord
    <3>2. QED
      BY <1>3, <2>1, <2>2, <3>1, TellerStays
  <2>3. ASSUME NEW d \in Drain, TurnSpeaks(d), cand[d] = j PROVE pc'[d] \in Told /\ cand'[d] = j
    BY <2>3, TurnSays
  <2>4. ASSUME NEW r \in Reaper, ReapSalvage(r) PROVE rcand[r] # j
    BY <2>1, <2>4, ReaperSays DEF SavesApart, OneOwner, Unclaimed
  <2>5. QED
    BY <1>3, <2>2, <2>3, <2>4, WordsFrom, TurnSays, ReaperSays
<1>4. ASSUME NEW d \in Drain, Working(d)', pc'[d] \notin Told PROVE Words(posted', cand'[d]) = {}
  <2> DEFINE c == cand[d]
  <2>1. /\ cand'[d] = c /\ c \in Job
        /\ \/ status[c] = "pending" /\ posted' = posted
           \/ Working(d) /\ pc[d] \notin Told
    BY <1>4, StillUntold
  <2>2. Words(posted, c) = {}
    BY <1>1, <2>1 DEF OneWord, Unclaimed
  <2>3. CASE posted' = posted
    BY <2>1, <2>2, <2>3
  <2>4. CASE Working(d)
    <3>1. ASSUME NEW e \in Drain, TurnSpeaks(e) PROVE cand[e] # c
      BY <1>4, <2>4, <3>1, TurnSays DEF OneOwner
    <3>2. ASSUME NEW r \in Reaper, ReapSalvage(r) PROVE rcand[r] # c
      BY <1>2, <2>4, <3>2, ReaperSays
    <3>3. QED
      BY <2>1, <2>2, <3>1, <3>2, WordsFrom, TurnSays, ReaperSays
  <2>5. QED
    BY <2>1, <2>3, <2>4
<1>5. ASSUME NEW r \in Reaper, rpc'[r] = "salvage" PROVE Words(posted', rcand'[r]) = {}
  <2> DEFINE c == rcand'[r]
  <2>1. c \in Job
    BY <1>5, SalvageStarts
  <2>2. CASE rpc[r] = "salvage" /\ c = rcand[r]
    <3>1. ASSUME NEW d \in Drain, TurnSpeaks(d) PROVE cand[d] # c
      BY <1>2, <2>2, <3>1, TurnSays DEF Salvaging
    <3>2. ASSUME NEW q \in Reaper, ReapSalvage(q) PROVE rcand[q] # c
      BY <1>5, <2>2, <3>2, ReaperSays DEF SavesApart, Salvaging
    <3>3. QED
      BY <2>1, <2>2, <3>1, <3>2, WordsFrom, TurnSays, ReaperSays DEF OneWord
  <2>3. CASE ReapClaim(r) /\ status[c] \in Open /\ posted' = posted
    <3>1. seen[r][c] # "none" /\ c \in seenText[r]
      <4>1. ~Salvaging(r)
        BY <2>3 DEF ReapClaim, Salvaging
      <4>2. Salvaging(r)'
        BY <1>5 DEF Salvaging
      <4>3. QED
        BY <4>1, <4>2, SalvagersKnown
    <3>2. Held(r, c)
      BY <2>1, <3>1 DEF HeldRows, Held
    <3>3. \A d \in Drain : Working(d) => cand[d] # c
      BY <2>1, <3>2 DEF HeldRows, LateOn, Overtaken, Prompt
    <3>4. QED
      BY <2>1, <2>3, <3>3 DEF OneWord, Working, Told, Replied
  <2>4. QED
    BY <1>5, <2>2, <2>3, SalvageStarts
<1>6. ASSUME NEW j \in Job, NEW b \in Words(posted', j), NEW c \in Words(posted', j)
      PROVE  b = c
  <2>1. CASE Words(posted', j) = Words(posted, j)
    BY <1>6, <2>1 DEF OneWord
  <2>2. ASSUME NEW d \in Drain, TurnSpeaks(d), cand[d] = j
        PROVE  \E w : Words(posted', j) = {w}
    <3>1. Words(posted, j) = {}
      BY <2>2, TurnSays DEF OneWord, Told, Replied, Own
    <3>2. QED
      BY <2>2, <3>1, TurnSays
  <2>3. ASSUME NEW r \in Reaper, ReapSalvage(r), rcand[r] = j
        PROVE  \E w : Words(posted', j) = {w}
    <3>1. Words(posted, j) = {}
      BY <2>3, ReaperSays DEF OneWord
    <3>2. QED
      BY <2>3, <3>1, ReaperSays
  <2>4. QED
    BY <1>6, <2>1, <2>2, <2>3, WordsFrom, TurnSays, ReaperSays
<1>7. QED
  BY <1>3, <1>4, <1>5, <1>6 DEF OneWord

LEMMA OneWordAlways ==
  ASSUME Beating, Prompt, TellersLive
  PROVE  Spec => []OneWord
<1>1. Init => OneWord
  BY DEF Init, OneWord, Working, Words
<1>2. QueueInv /\ PointsKnown /\ OneOwner /\ Untold /\ HeldRows /\ SavesApart /\ OneWord
      /\ [Next]_vars => OneWord'
  <2>1. QueueInv /\ PointsKnown /\ OneOwner /\ Untold /\ HeldRows /\ SavesApart /\ OneWord
        /\ Next => OneWord'
    BY OneWordStep
  <2>2. OneWord /\ UNCHANGED vars => OneWord'
    <3> SUFFICES ASSUME OneWord, UNCHANGED vars PROVE OneWord'
      OBVIOUS
    <3>1. UNCHANGED <<status, posted, pc, cand, rpc, rcand>>
      BY DEF vars, transcript, drains, reapers
    <3>2. QED
      BY <3>1 DEF OneWord, Working, Words
  <2>3. QED
    BY <2>1, <2>2
<1>3. Spec => []HeldRows
  BY HeldRowsAlways
<1>4. QED
  BY <1>1, <1>2, <1>3, QueueInvariant, PointsAlways, OneOwnerAlways, UntoldAlways,
     SavesApartAlways, PTL DEF Spec

\* Where beats arrive, what comes before and after them takes less than the limit,
\* sweeps are quick and no drain dies between its reply and its close, a turn that is
\* over shows one message at most, whoever stopped it, declared it dead or salvaged
\* it, and wherever else its drain or its reapers died.
THEOREM EachTurnOneBubble ==
  ASSUME Beating, Prompt, TellersLive
  PROVE  Spec => []OneBubblePerTurn
<1>1. OneWord => OneBubblePerTurn
  <2> SUFFICES ASSUME OneWord, NEW j \in Job PROVE Cardinality(Shown(j)) <= 1
    BY DEF OneBubblePerTurn
  <2>1. Shown(j) \subseteq Words(posted, j)
    BY DEF Shown, Words
  <2>2. Shown(j) = {} \/ \E b : Shown(j) = {b}
    BY <2>1 DEF OneWord
  <2>3. CASE Shown(j) = {}
    BY <2>3, FS_EmptySet
  <2>4. ASSUME NEW b, Shown(j) = {b} PROVE Cardinality(Shown(j)) <= 1
    <3>1. Cardinality({b}) = 1
      BY FS_Singleton
    <3>2. QED
      BY <2>4, <3>1
  <2>5. QED
    BY <2>2, <2>3, <2>4
<1>2. QED
  BY <1>1, OneWordAlways, PTL

------------------------------------------------------------------------------
(* The work of a turn is not lost *)

\* Who has closed a row lives to save what its turn had written, and no call throws
\* from the end of the generation to the save of the reply.
SaversLive == ~ReapersDie /\ "salvage" \notin CrashAt
              /\ FailAt \cap {"settle", "enqueue", "save"} = {}

\* The text on the row of a live turn is in the memory of its drain, and the text on
\* a row listed as dead in the list; a drain past its reply has saved what it had; a
\* failed row that has text has left its words, or somebody is about to save them; a
\* message is hidden behind a reply only, and a reply never is.
WorkHeld ==
  /\ \A d \in Drain : pc[d] = "validate" => partial[cand[d]] # "text"
  /\ \A d \in Drain : Working(d) /\ partial[cand[d]] = "text" => wrote[d]
  /\ \A r \in Reaper, j \in Job : seen[r][j] = "old" /\ partial[j] = "text" => j \in seenText[r]
  /\ \A d \in Drain : pc[d] \in Replied /\ wrote[d] => "reply" \in Words(posted, cand[d])
  /\ \A j \in Job : status[j] = "failed" /\ partial[j] = "text" =>
       \/ Words(posted, j) # {}
       \/ \E d \in Drain : pc[d] = "salvage" /\ cand[d] = j
       \/ \E r \in Reaper : rpc[r] = "salvage" /\ rcand[r] = j
  /\ \A j \in Job, b \in Bubble : <<j, b>> \in superseded =>
       b \in Reaper /\ <<j, "reply">> \in posted

\* Only a full reply hides a message, when it reads its row.
LEMMA HidesFrom ==
  ASSUME Next, superseded' # superseded
  PROVE  \E d \in Drain : ReadRow(d)
<1> USE DEF transcript
<1>1. ASSUME Environment PROVE FALSE
  BY <1>1 DEF Environment, Enqueue, ScheduleLooks, ScheduleFires, KitRunStarts, KitRunEnds,
     CancelTurn, CancelSince, GoStale, Age
<1>2. ASSUME NEW d \in Drain, DrainStep(d) PROVE ReadRow(d)
  <2>1. CASE Claiming(d)
    BY <2>1 DEF Claiming, StartDrain, SkipCandidate, PickCandidate, NothingToClaim, Claim, ClaimLost
  <2>2. CASE Running(d)
    BY <2>2 DEF Running, BeginClear, AnswerClear, CloseClear, BeginTurn, SaveAbsorbed,
       SaveOwnPartial, MarkOwnPartial
  <2>3. CASE Settling(d)
    BY <2>3 DEF Settling, EndGeneration, NoContinuation, WantContinuation, InsertContinuation,
       ContinuationLost, SaveReply, AskRoom, NextVoice, NoVoice, Close
  <2>4. CASE Heartbeat(d) \/ StepWrites(d) \/ (\E k \in Job : Absorb(d, k))
    BY <2>4 DEF Heartbeat, StepWrites, Absorb
  <2>5. CASE Abandon(d) \/ GenerationFails(d) \/ Crash(d)
    BY <2>5 DEF Abandon, GenerationFails, FailChatJob, Crash
  <2>6. QED
    BY <1>2, <2>1, <2>2, <2>3, <2>4, <2>5 DEF DrainStep
<1>3. ASSUME NEW r \in Reaper, ReaperStep(r) PROVE FALSE
  BY <1>3 DEF ReaperStep, StartSweep, ReapSkip, ReapClaim, ReapLose, ReapSalvage,
     ReapMark, EndSweep, ReaperDies, RestReaper
<1>4. QED
  BY <1>1, <1>2, <1>3 DEF Next

\* Who declares a turn failed: its drain, or the reaper that holds its row.
LEMMA FailedBy ==
  ASSUME QueueInv, SavesApart, Next, NEW j \in Job, status[j] # "failed", status'[j] = "failed"
  PROVE  \/ \E d \in Drain : (Abandon(d) \/ GenerationFails(d)) /\ cand[d] = j
         \/ \E r \in Reaper : /\ rpc[r] = "sweep" /\ seen[r][j] # "none"
                              /\ j \in seenText[r] => rpc'[r] = "salvage" /\ rcand'[r] = j
<1>1. /\ status \in [Job -> Status] /\ rpc \in [Reaper -> {"idle", "sweep", "salvage", "mark"}]
      /\ rcand \in [Reaper -> Job \cup {NoJob}]
  BY DEF QueueInv, TypeOK
<1>2. ASSUME NEW t, NEW k, NEW n, Insert(t, k, n) PROVE FALSE
  BY <1>2, NewRow
<1> USE <1>1 DEF Rows
<1>3. ASSUME Environment PROVE FALSE
  BY <1>2, <1>3 DEF Environment, Enqueue, ScheduleLooks, ScheduleFires, KitRunStarts,
     KitRunEnds, CancelTurn, CancelSince, GoStale, Age
<1>4. ASSUME NEW d \in Drain, DrainStep(d)
      PROVE  (Abandon(d) \/ GenerationFails(d)) /\ cand[d] = j
  <2>1. CASE Claiming(d)
    BY <2>1 DEF Claiming, StartDrain, SkipCandidate, PickCandidate, NothingToClaim, Claim, ClaimLost
  <2>2. CASE Running(d) /\ ~MarkOwnPartial(d)
    BY <2>2 DEF Running, BeginClear, AnswerClear, CloseClear, BeginTurn, SaveAbsorbed, SaveOwnPartial
  <2>3. ASSUME MarkOwnPartial(d) PROVE FALSE
    BY <2>3 DEF MarkOwnPartial, MarkSalvaged, Goto, SavesApart
  <2>4. CASE InsertContinuation(d) \/ NextVoice(d)
    BY <1>2, <2>4 DEF InsertContinuation, NextVoice
  <2>5. CASE Settling(d) /\ ~InsertContinuation(d) /\ ~NextVoice(d)
    BY <2>5 DEF Settling, EndGeneration, NoContinuation, WantContinuation, ContinuationLost,
       SaveReply, AskRoom, NoVoice, ReadRow, Close
  <2>6. CASE Heartbeat(d) \/ StepWrites(d) \/ Crash(d) \/ (\E k \in Job : Absorb(d, k))
    BY <2>6 DEF Heartbeat, StepWrites, Crash, Absorb
  <2>7. CASE Abandon(d) \/ GenerationFails(d)
    <3>1. cand[d] = j
      BY <2>7 DEF Abandon, GenerationFails, FailChatJob
    <3>2. QED
      BY <2>7, <3>1
  <2>8. QED
    BY <1>4, <2>1, <2>2, <2>3, <2>4, <2>5, <2>6, <2>7 DEF DrainStep
<1>5. ASSUME NEW r \in Reaper, ReaperStep(r)
      PROVE  /\ rpc[r] = "sweep" /\ seen[r][j] # "none"
             /\ j \in seenText[r] => rpc'[r] = "salvage" /\ rcand'[r] = j
  <2>1. CASE ReapClaim(r)
    <3>1. First(Listed(r)) \in Listed(r)
      <4>1. Listed(r) \in SUBSET Job
        BY DEF Listed
      <4>2. QED
        BY <2>1, <4>1, FirstIsMember DEF ReapClaim
    <3>2. j = First(Listed(r))
      BY <2>1 DEF ReapClaim
    <3>3. QED
      BY <2>1, <3>1, <3>2 DEF ReapClaim, Listed
  <2>2. ASSUME ReapMark(r) PROVE FALSE
    BY <2>2 DEF ReapMark, MarkSalvaged, SavesApart, Salvaging
  <2>3. CASE ReaperStep(r) /\ ~ReapClaim(r) /\ ~ReapMark(r)
    BY <2>3 DEF ReaperStep, StartSweep, ReapSkip, ReapLose, ReapSalvage, EndSweep,
       ReaperDies, RestReaper
  <2>4. QED
    BY <1>5, <2>1, <2>2, <2>3
<1>6. QED
  BY <1>3, <1>4, <1>5 DEF Next

\* A reaper set to salvage a row does so, unless it dies.
LEMMA SalvageEnds ==
  ASSUME QueueInv, SaversLive, Next, NEW r \in Reaper, rpc[r] = "salvage"
  PROVE  ReapSalvage(r) \/ (rpc'[r] = "salvage" /\ rcand'[r] = rcand[r])
<1>1. /\ rpc \in [Reaper -> {"idle", "sweep", "salvage", "mark"}]
      /\ rcand \in [Reaper -> Job \cup {NoJob}]
  BY DEF QueueInv, TypeOK
<1>2. CASE UNCHANGED reapers
  BY <1>2 DEF reapers
<1>3. ASSUME Environment PROVE UNCHANGED reapers
  BY <1>3 DEF Environment, Enqueue, ScheduleLooks, ScheduleFires, KitRunStarts,
     KitRunEnds, CancelTurn, CancelSince, GoStale, Age
<1>4. ASSUME NEW q \in Reaper, ReaperStep(q), q # r
      PROVE  rpc'[r] = rpc[r] /\ rcand'[r] = rcand[r]
  BY <1>1, <1>4 DEF ReaperStep, StartSweep, ReapSkip, ReapClaim, ReapLose, ReapSalvage,
     ReapMark, EndSweep, ReaperDies, RestReaper
<1>5. ASSUME ReaperStep(r) PROVE ReapSalvage(r)
  BY <1>5 DEF ReaperStep, StartSweep, ReapSkip, ReapClaim, ReapLose, ReapMark, EndSweep,
     ReaperDies, SaversLive
<1>6. QED
  BY <1>2, <1>3, <1>4, <1>5, DrainMoves DEF Next

LEMMA WorkHeldStep ==
  ASSUME Punctual, SaversLive, QueueInv, PointsKnown, OneOwner, HeldRows, KeptRows,
         SavesApart, WorkHeld, Next
  PROVE  WorkHeld'
\* Only its drain writes on a row.
<1>1. ASSUME NEW j \in Job, partial'[j] = "text", partial[j] # "text"
      PROVE  \E d \in Drain : /\ pc[d] \in Generating /\ cand[d] = j /\ wrote[d]
                              /\ status[j] = "running" /\ pc' = pc
  <2>1. PICK d \in Drain : Heartbeat(d) /\ cand[d] = j /\ wrote[d]
    BY <1>1, PartialFrom
  <2>2. QED
    BY <2>1 DEF Heartbeat, drains
<1>2. ASSUME NEW d \in Drain, pc'[d] = "validate" PROVE partial'[cand'[d]] # "text"
  <2> DEFINE c == cand[d]
  <2>1. cand'[d] = c /\ c \in Job
    BY <1>2, WorkedRow DEF Working
  <2>2. CASE Claim(d)
    BY <2>1, <2>2 DEF Claim, QueueInv, TypeOK
  <2>3. CASE pc[d] = "validate"
    BY <1>1, <2>1, <2>3 DEF WorkHeld, OneOwner, Working, Generating
  <2>4. QED
    BY <1>2, <2>2, <2>3, TurnPoints
<1>3. ASSUME NEW d \in Drain, Working(d)', partial'[cand'[d]] = "text" PROVE wrote'[d]
  <2> DEFINE c == cand[d]
  <2>1. cand'[d] = c /\ c \in Job
    BY <1>3, WorkedRow
  <2>2. ~Claim(d)
    BY <1>3, <2>1 DEF Claim, QueueInv, TypeOK
  <2>3. Working(d)
    BY <1>3, <2>2, WorkersKnown
  <2>4. wrote[d]
    BY <1>1, <1>3, <2>1, <2>3 DEF WorkHeld, OneOwner, Working, Generating
  <2>5. ~StepWrites(d) /\ wrote'[d] = wrote[d]
    BY <1>3, <2>4, TurnPoints DEF StepWrites
  <2>6. QED
    BY <2>4, <2>5
\* Nobody writes on a row whose beat is known to be old.
<1>4. ASSUME NEW r \in Reaper, NEW j \in Job, seen[r][j] = "old", partial'[j] = "text"
      PROVE  partial[j] = "text"
  <2>1. LateOn(j)
    BY <1>4 DEF HeldRows, Held
  <2>2. QED
    BY <1>1, <1>4, <2>1 DEF LateOn, Overtaken, AfterGeneration, Generating, Working
<1>5. ASSUME NEW r \in Reaper, NEW j \in Job, seen'[r][j] = "old", partial'[j] = "text"
      PROVE  j \in seenText'[r]
  <2>1. CASE seen[r][j] = "old" /\ (j \in seenText'[r] <=> j \in seenText[r])
    BY <1>5, <1>4, <2>1 DEF WorkHeld
  <2>2. CASE partial' = partial /\ (j \in seenText'[r] <=> partial[j] = "text")
    BY <1>5, <2>2
  <2>3. QED
    BY <1>5, <2>1, <2>2, ListedFrom DEF Punctual
<1>6. ASSUME NEW j \in Job, status'[j] = "failed", partial'[j] = "text"
      PROVE  \/ Words(posted', j) # {}
             \/ \E d \in Drain : pc'[d] = "salvage" /\ cand'[d] = j
             \/ \E r \in Reaper : rpc'[r] = "salvage" /\ rcand'[r] = j
  <2>1. CASE status[j] = "failed"
    <3>1. partial[j] = "text"
      BY <1>1, <1>6, <2>1
    <3>2. CASE Words(posted, j) # {}
      BY <3>2, WordsFrom DEF Words
    <3>3. ASSUME NEW d \in Drain, pc[d] = "salvage", cand[d] = j
          PROVE  Words(posted', j) # {} \/ (pc'[d] = "salvage" /\ cand'[d] = j)
      <4>1. CASE SaveOwnPartial(d)
        BY <3>3, <4>1 DEF SaveOwnPartial, Words, Bubble
      <4>2. ~Crash(d)
        BY <3>3 DEF Crash, SaversLive
      <4>3. QED
        BY <3>3, <4>1, <4>2, TurnPoints, WorkersKnown DEF Working
    <3>4. ASSUME NEW r \in Reaper, rpc[r] = "salvage", rcand[r] = j
          PROVE  Words(posted', j) # {} \/ (rpc'[r] = "salvage" /\ rcand'[r] = j)
      BY <3>4, SalvageEnds, ReaperSays
    <3>5. QED
      BY <2>1, <3>1, <3>2, <3>3, <3>4 DEF WorkHeld
  <2>2. CASE status[j] # "failed"
    <3>1. ASSUME NEW d \in Drain, Abandon(d), cand[d] = j PROVE Words(posted', j) # {}
      <4>1. pc[d] \in {"validate"} \cup Replied /\ partial[j] = "text" /\ posted \subseteq posted'
        BY <1>6, <3>1, ChatQueueAssumption DEF Abandon, FailChatJob, SaversLive, AfterGeneration, Replied
      <4>2. pc[d] \in Replied /\ wrote[d]
        BY <3>1, <4>1 DEF WorkHeld, Working, Replied
      <4>3. QED
        BY <3>1, <4>1, <4>2 DEF WorkHeld, Words
    <3>2. ASSUME NEW d \in Drain, GenerationFails(d), cand[d] = j
          PROVE  pc'[d] = "salvage" /\ cand'[d] = j
      <4>1. pc[d] = "generate" /\ partial' = partial
        BY <3>2 DEF GenerationFails, FailChatJob
      <4>2. wrote[d]
        BY <1>6, <3>2, <4>1 DEF WorkHeld, Working
      <4>3. QED
        BY <3>2, <4>2 DEF GenerationFails, QueueInv, TypeOK
    <3>3. ASSUME NEW r \in Reaper, seen[r][j] # "none",
                 j \in seenText[r] => rpc'[r] = "salvage" /\ rcand'[r] = j
          PROVE  rpc'[r] = "salvage" /\ rcand'[r] = j
      <4>1. seen[r][j] = "old"
        BY <3>3 DEF KeptRows
      <4>2. partial[j] = "text"
        BY <1>6, <1>4, <4>1
      <4>3. QED
        BY <3>3, <4>1, <4>2 DEF WorkHeld
    <3>4. QED
      BY <1>6, <2>2, <3>1, <3>2, <3>3, FailedBy
  <2>3. QED
    BY <2>1, <2>2
<1>7. ASSUME NEW j \in Job, NEW b \in Bubble, <<j, b>> \in superseded'
      PROVE  b \in Reaper /\ <<j, "reply">> \in posted'
  <2>1. CASE <<j, b>> \in superseded
    BY <2>1, WordsFrom DEF WorkHeld
  <2>2. ASSUME NEW d \in Drain, ReadRow(d), <<j, b>> \notin superseded
        PROVE  b \in Reaper /\ <<j, "reply">> \in posted
    BY <1>7, <2>2 DEF ReadRow, Doubled
  <2>3. QED
    BY <1>7, <2>1, <2>2, HidesFrom, WordsFrom
<1>8. ASSUME NEW d \in Drain, pc'[d] \in Replied, wrote'[d]
      PROVE  "reply" \in Words(posted', cand'[d])
  <2>1. Working(d)' /\ pc'[d] # "generate"
    BY <1>8 DEF Working, Replied
  <2>2. cand'[d] = cand[d]
    BY <2>1, WorkedRow
  <2>3. CASE pc[d] \in Replied
    <3>1. wrote[d]
      BY <1>8, <2>1, <2>3, TurnPoints DEF StepWrites, Replied
    <3>2. QED
      BY <2>2, <2>3, <3>1, WordsFrom DEF WorkHeld, Words
  <2>4. CASE SaveReply(d)
    <3>1. wrote[d]
      BY <1>8, <2>4 DEF SaveReply
    <3>2. QED
      BY <2>2, <2>4, <3>1 DEF SaveReply, Words, Bubble
  <2>5. QED
    BY <1>8, <2>3, <2>4, TurnPoints
<1>9. QED
  BY <1>2, <1>3, <1>5, <1>6, <1>7, <1>8 DEF WorkHeld

LEMMA WorkHeldAlways ==
  ASSUME Punctual, SaversLive
  PROVE  Spec => []WorkHeld
<1>1. Init => WorkHeld
  BY DEF Init, WorkHeld, Working
<1>2. QueueInv /\ PointsKnown /\ OneOwner /\ HeldRows /\ KeptRows /\ SavesApart /\ WorkHeld
      /\ [Next]_vars => WorkHeld'
  <2>1. QueueInv /\ PointsKnown /\ OneOwner /\ HeldRows /\ KeptRows /\ SavesApart /\ WorkHeld
        /\ Next => WorkHeld'
    BY WorkHeldStep
  <2>2. WorkHeld /\ UNCHANGED vars => WorkHeld'
    <3> SUFFICES ASSUME WorkHeld, UNCHANGED vars PROVE WorkHeld'
      OBVIOUS
    <3>1. /\ UNCHANGED <<status, partial, posted, superseded, pc, cand, wrote>>
          /\ UNCHANGED <<rpc, rcand, seen, seenText>>
      BY DEF vars, transcript, drains, reapers
    <3>2. QED
      BY <3>1 DEF WorkHeld, Working, Words
  <2>3. QED
    BY <2>1, <2>2
<1>3. Spec => [](HeldRows /\ KeptRows)
  BY HeldRowsAlways, KeptRowsAlways, PTL DEF Punctual
<1>4. QED
  BY <1>1, <1>2, <1>3, QueueInvariant, PointsAlways, OneOwnerAlways, SavesApartAlways, PTL DEF Spec

\* Where beats arrive while a turn generates, sweeps are quick, rows do not outlive the
\* pending limit, and who has closed a row lives to save its text, the text that a
\* failed turn had mirrored on its row is in the thread, and shown, once nobody is at
\* the row any more; even when a drain that was slow after its generation is taken for
\* dead and hides what was salvaged from it behind its reply.
THEOREM WorkIsKept ==
  ASSUME Punctual, SaversLive
  PROVE  Spec => []NoWorkLost
<1>1. WorkHeld => NoWorkLost
  <2> SUFFICES ASSUME WorkHeld, NEW j \in Job, status[j] = "failed", partial[j] = "text", Settled(j)
               PROVE  Shown(j) # {}
    BY DEF NoWorkLost
  <2>1. Words(posted, j) # {}
    BY DEF WorkHeld, Settled, Working
  <2>2. PICK b \in Bubble \ {"user", "notice"} : <<j, b>> \in posted
    BY <2>1 DEF Words
  <2>3. CASE <<j, b>> \notin superseded
    BY <2>2, <2>3 DEF Shown
  <2>4. CASE <<j, b>> \in superseded
    <3>1. <<j, "reply">> \in posted \ superseded
      BY <2>4, ChatQueueAssumption DEF WorkHeld, Bubble
    <3>2. QED
      BY <3>1 DEF Shown, Bubble
  <2>5. QED
    BY <2>3, <2>4
<1>2. QED
  BY <1>1, WorkHeldAlways, PTL

==============================================================================
