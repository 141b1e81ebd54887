----------------------------- MODULE MCChatQueue -----------------------------
(* Instances of ChatQueue for TLC. *)
EXTENDS ChatQueue, TLC

\* The processes are interchangeable; threads are not permuted, because Init
\* chooses one of them.
Processes == Permutations(Drain) \cup Permutations(Reaper)

==============================================================================
