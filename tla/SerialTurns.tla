----------------------------- MODULE SerialTurns -----------------------------
(***************************************************************************)
(* What the background queue of chat turns promises, seen from a thread:   *)
(* the turns asked on a thread are spoken one at a time, each at most      *)
(* once, and a turn that is over is never spoken again.  Nothing is said   *)
(* of who runs a turn, of crashes or of rows: ChatQueue is the detailed    *)
(* specification and implements this one.                                  *)
(***************************************************************************)

CONSTANTS
  Turn,     \* the turns that can ever be asked
  Thread    \* the conversations

VARIABLES
  phase,    \* phase[u]: where turn u stands
  on        \* on[u]: the thread turn u was asked on

svars == <<phase, on>>

Phase == {"absent", "waiting", "speaking", "over"}

Init ==
  /\ phase = [u \in Turn |-> "absent"]
  /\ on \in [Turn -> Thread]

\* No other turn of the same thread is being spoken.
Silent(u) == \A v \in Turn \ {u} : on[v] = on[u] => phase[v] # "speaking"

Ask(u, t) ==
  /\ phase[u] = "absent"
  /\ phase' = [phase EXCEPT ![u] = "waiting"]
  /\ on' = [on EXCEPT ![u] = t]

Speak(u) ==
  /\ phase[u] = "waiting"
  /\ Silent(u)
  /\ phase' = [phase EXCEPT ![u] = "speaking"]
  /\ UNCHANGED on

\* A turn ends spoken or unspoken, several of one thread possibly at once.
Finish(U) ==
  /\ U # {}
  /\ \A u \in U : phase[u] \in {"waiting", "speaking"}
  /\ phase' = [u \in Turn |-> IF u \in U THEN "over" ELSE phase[u]]
  /\ UNCHANGED on

Next ==
  \/ \E u \in Turn, t \in Thread : Ask(u, t)
  \/ \E u \in Turn : Speak(u)
  \/ \E U \in SUBSET Turn : Finish(U)

Spec == Init /\ [][Next]_svars

==============================================================================
