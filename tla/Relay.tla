------------------------------- MODULE Relay -------------------------------
(***************************************************************************)
(* What a long piece of work cut into legs promises: a leg has one runner  *)
(* and is run once; the rest of the work is handed on to one leg, queued   *)
(* before the runner's own is over, so that the legs of a brief follow one *)
(* another, at most Most after the first; what a leg ended with stays.  A  *)
(* leg may be lost, and then all that is promised of it is that what is    *)
(* handed on from it is within the limit.  Nothing is said of processes,   *)
(* heartbeats or sweeps: DesignerJobs is the detailed specification and    *)
(* implements this one.                                                    *)
(***************************************************************************)
EXTENDS Naturals

CONSTANTS
  Leg,     \* the legs that can ever be run
  NoLeg,   \* not one of them
  Most     \* how many legs may follow the first of a brief

VARIABLES
  stage,   \* stage[l]: "none", "pending", "running", "done", "failed" or "lost"
  prev,    \* prev[l]: the leg that handed the work on to l, NoLeg for a first
  succ,    \* succ[l]: the leg to which l, once done, points
  past     \* past[l]: how many legs of its brief were before l

rvars == <<stage, prev, succ, past>>

Init ==
  /\ stage = [l \in Leg |-> "none"]
  /\ prev = [l \in Leg |-> NoLeg] /\ succ = [l \in Leg |-> NoLeg]
  /\ past = [l \in Leg |-> 0]

\* Nothing has been handed on from leg l.
Whole(l) == \A m \in Leg : prev[m] # l

\* A brief begins, with somebody at its first leg.
Begin(l) ==
  /\ stage[l] = "none"
  /\ stage' = [stage EXCEPT ![l] = "running"]
  /\ prev' = [prev EXCEPT ![l] = NoLeg] /\ past' = [past EXCEPT ![l] = 0]
  /\ UNCHANGED succ

TakeUp(l) ==
  /\ stage[l] = "pending"
  /\ stage' = [stage EXCEPT ![l] = "running"]
  /\ UNCHANGED <<prev, succ, past>>

\* Leg m becomes the next after l.
Follows(l, m) ==
  /\ stage[m] = "none" /\ past[l] < Most
  /\ prev' = [prev EXCEPT ![m] = l]
  /\ past' = [past EXCEPT ![m] = past[l] + 1]

HandOn(l, m) ==
  /\ stage[l] = "running" /\ Whole(l) /\ Follows(l, m)
  /\ stage' = [stage EXCEPT ![m] = "pending"]
  /\ UNCHANGED succ

\* The leg is over, and points to the one it was continued by.
Pass(l, m) ==
  /\ stage[l] = "running" /\ prev[m] = l
  /\ stage' = [stage EXCEPT ![l] = "done"]
  /\ succ' = [succ EXCEPT ![l] = m]
  /\ UNCHANGED <<prev, past>>

\* The leg is over and nothing was handed on, as the work is whole or cannot go on.
End(l, o) ==
  /\ stage[l] = "running" /\ Whole(l) /\ o \in {"done", "failed"}
  /\ stage' = [stage EXCEPT ![l] = o]
  /\ UNCHANGED <<prev, succ, past>>

\* Nobody came for it.
GiveUp(l) ==
  /\ stage[l] = "pending"
  /\ stage' = [stage EXCEPT ![l] = "failed"]
  /\ UNCHANGED <<prev, succ, past>>

Lose(l) ==
  /\ stage[l] # "none"
  /\ stage' = [stage EXCEPT ![l] = "lost"]
  /\ succ' = [succ EXCEPT ![l] = NoLeg]
  /\ UNCHANGED <<prev, past>>

\* The work of a leg is handed on, perhaps not for the first time: it is lost, if it
\* was not before.
Fork(l, m) ==
  /\ stage[l] # "none" /\ Follows(l, m)
  /\ stage' = [stage EXCEPT ![l] = "lost", ![m] = "pending"]
  /\ succ' = [succ EXCEPT ![l] = NoLeg]

Next == \E l \in Leg :
  \/ Begin(l) \/ TakeUp(l) \/ GiveUp(l) \/ Lose(l)
  \/ \E m \in Leg : HandOn(l, m) \/ Pass(l, m) \/ Fork(l, m)
  \/ \E o \in {"done", "failed"} : End(l, o)

Spec == Init /\ [][Next]_rvars

==============================================================================
