----------------------------- MODULE AtMostOnce -----------------------------
(***************************************************************************)
(* What the ledger promises of a deed that must not be done twice: one     *)
(* attempt at a time is made at it, the deed happens within an attempt or  *)
(* not at all, and another attempt is allowed only if nothing happened.    *)
(* Nothing is said of rows, processes, verdicts or reconciliations:        *)
(* EffectsLedger is the detailed specification and implements this one.    *)
(***************************************************************************)
EXTENDS Naturals

CONSTANT Deed   \* the things that can ever be done

VARIABLES
  phase,      \* phase[x]: "free" to be tried, "trying" or "spent"
  happened    \* happened[x]: how many times deed x was done

dvars == <<phase, happened>>

Init ==
  /\ phase = [x \in Deed |-> "free"]
  /\ happened = [x \in Deed |-> 0]

Try(x) ==
  /\ phase[x] = "free"
  /\ phase' = [phase EXCEPT ![x] = "trying"]
  /\ UNCHANGED happened

\* The attempt is over, with the deed done or without.
Succeed(x) ==
  /\ phase[x] = "trying"
  /\ phase' = [phase EXCEPT ![x] = "spent"]
  /\ happened' = [happened EXCEPT ![x] = @ + 1]

Miss(x) ==
  /\ phase[x] = "trying"
  /\ phase' = [phase EXCEPT ![x] = "spent"]
  /\ UNCHANGED happened

\* An attempt known to have done nothing may be made again.
Release(x) ==
  /\ phase[x] = "spent" /\ happened[x] = 0
  /\ phase' = [phase EXCEPT ![x] = "free"]
  /\ UNCHANGED happened

Next == \E x \in Deed : Try(x) \/ Succeed(x) \/ Miss(x) \/ Release(x)

Spec == Init /\ [][Next]_dvars

==============================================================================
