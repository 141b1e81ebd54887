----------------------------- MODULE MCAgentRuns -----------------------------
(* Instances of AgentRuns for TLC. *)
EXTENDS AgentRuns, TLC

\* The workers are interchangeable.
Processes == Permutations(Worker)

==============================================================================
