--------------------------- MODULE MCDesignerJobs ---------------------------
(* Instances of DesignerJobs for TLC. *)
EXTENDS DesignerJobs, TLC

\* The processes of each kind are interchangeable.
Processes == Permutations(Worker) \cup Permutations(Reaper)

==============================================================================
