----------------------------- MODULE MCWebConn -----------------------------
(* Small instances of WebConn for TLC. MaxData bounds the pieces of data all *)
(* peers send together, after which clients fall silent.                     *)
EXTENDS WebConn

CONSTANT MaxData

VARIABLE pieces

mcVars == <<connVars, pieces>>

MCInit == ConnInit /\ pieces = MaxData

MCNext ==
  \/ ~fault /\ pieces > 0 /\ Data /\ pieces' = pieces - 1
  \/ /\ ~fault
     /\ Callback \/ (\E k \in 1 .. SndBuf : Sent(k)) \/ Tick
     /\ UNCHANGED pieces

PollOverdue == ~fault /\ Overdue /\ (\E p \in Conns : Poll(p)) /\ UNCHANGED pieces
TimePasses  == ~fault /\ Tick /\ UNCHANGED pieces

\* lwIP polls every connection every two seconds, and the clock goes on.
MCSpec == MCInit /\ [][MCNext]_mcVars /\ WF_mcVars(PollOverdue) /\ WF_mcVars(TimePasses)
=============================================================================
