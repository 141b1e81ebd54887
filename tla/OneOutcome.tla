----------------------------- MODULE OneOutcome -----------------------------
(***************************************************************************)
(* What the background tool jobs promise to the conversation that started  *)
(* them: a job is taken up at most once, it ends once, and its outcome is  *)
(* told at most once and is the one it ended with.  Nothing is said of     *)
(* drains, reapers, heartbeats or rows: ToolJobs is the detailed           *)
(* specification and implements this one.                                  *)
(***************************************************************************)
EXTENDS Sequences

CONSTANT Task   \* the jobs that can ever be started

VARIABLES
  stage,    \* stage[k]: where job k stands
  told      \* told[k]: the outcomes of job k the conversation heard of

ovars == <<stage, told>>

Outcome == {"done", "failed"}

Init ==
  /\ stage = [k \in Task |-> "none"]
  /\ told = [k \in Task |-> <<>>]

Begin(k) ==
  /\ stage[k] = "none"
  /\ stage' = [stage EXCEPT ![k] = "pending"]
  /\ UNCHANGED told

Take(k) ==
  /\ stage[k] = "pending"
  /\ stage' = [stage EXCEPT ![k] = "running"]
  /\ UNCHANGED told

\* A job may end without having been taken up, but never done.
End(k, o) ==
  /\ stage[k] \in (IF o = "done" THEN {"running"} ELSE {"pending", "running"})
  /\ stage' = [stage EXCEPT ![k] = o]
  /\ UNCHANGED told

\* A Stop ends several jobs at once.
Stop(K) ==
  /\ K # {}
  /\ \A k \in K : stage[k] \in {"pending", "running"}
  /\ stage' = [k \in Task |-> IF k \in K THEN "cancelled" ELSE stage[k]]
  /\ UNCHANGED told

Tell(k) ==
  /\ stage[k] \in Outcome
  /\ told[k] = <<>>
  /\ told' = [told EXCEPT ![k] = <<stage[k]>>]
  /\ UNCHANGED stage

Next ==
  \/ \E k \in Task : Begin(k) \/ Take(k) \/ Tell(k) \/ (\E o \in Outcome : End(k, o))
  \/ \E K \in SUBSET Task : Stop(K)

Spec == Init /\ [][Next]_ovars

==============================================================================
