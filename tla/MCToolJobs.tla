----------------------------- MODULE MCToolJobs -----------------------------
(* Instances of ToolJobs for TLC. *)
EXTENDS ToolJobs, TLC

\* The processes are interchangeable.
Processes == Permutations(Drain) \cup Permutations(Reaper)

==============================================================================
