------------------------------ MODULE LastWord ------------------------------
(***************************************************************************)
(* What an agent run promises to the conversation it belongs to: it is     *)
(* granted to one holder after another, every holder says one thing at     *)
(* most, nothing is said after the run has ended, and a run that is given  *)
(* up is spoken for only if it never spoke.  Nothing is said of leases,    *)
(* fences, heartbeats or sweeps: RunLease is the detailed specification    *)
(* and implements this one.                                                *)
(***************************************************************************)
EXTENDS Naturals, Sequences

CONSTANT Errand   \* the runs that can ever be started

VARIABLES
  phase,    \* phase[k]: "open", "over" or "givenup"
  turns,    \* turns[k]: how many times run k has been granted
  words     \* words[k]: what run k has said, with the grant that said it

wvars == <<phase, turns, words>>

Word(kind, turn) == [kind |-> kind, turn |-> turn]

\* The holder of the last grant has not spoken yet.
Unspoken(k) == \A i \in 1..Len(words[k]) : words[k][i].turn < turns[k]

Init ==
  /\ phase = [k \in Errand |-> "open"]
  /\ turns = [k \in Errand |-> 0]
  /\ words = [k \in Errand |-> <<>>]

Grant(k) ==
  /\ phase[k] = "open"
  /\ turns' = [turns EXCEPT ![k] = @ + 1]
  /\ UNCHANGED <<phase, words>>

\* The holder stops, with a question to the user, and the run stays open.
Ask(k) ==
  /\ phase[k] = "open" /\ Unspoken(k)
  /\ words' = [words EXCEPT ![k] = Append(@, Word("question", turns[k]))]
  /\ UNCHANGED <<phase, turns>>

\* The run ends, with an answer or silently.
Answer(k) ==
  /\ phase[k] = "open" /\ Unspoken(k)
  /\ phase' = [phase EXCEPT ![k] = "over"]
  /\ words' = [words EXCEPT ![k] = Append(@, Word("answer", turns[k]))]
  /\ UNCHANGED turns

End(k) ==
  /\ phase[k] = "open"
  /\ phase' = [phase EXCEPT ![k] = "over"]
  /\ UNCHANGED <<turns, words>>

GiveUp(k) ==
  /\ phase[k] = "open"
  /\ phase' = [phase EXCEPT ![k] = "givenup"]
  /\ UNCHANGED <<turns, words>>

\* What a run had written before it was given up becomes its only word.
Salvage(k) ==
  /\ phase[k] = "givenup" /\ words[k] = <<>>
  /\ words' = [words EXCEPT ![k] = <<Word("salvage", turns[k])>>]
  /\ UNCHANGED <<phase, turns>>

Next == \E k \in Errand :
  Grant(k) \/ Ask(k) \/ Answer(k) \/ End(k) \/ GiveUp(k) \/ Salvage(k)

Spec == Init /\ [][Next]_wvars

==============================================================================
