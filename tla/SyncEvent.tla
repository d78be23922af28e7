------------------------------ MODULE SyncEvent ------------------------------
(***************************************************************************)
(* What CThreadEvent promises to those who wait.  An event is signaled by  *)
(* Set until Reset; a wait ends while the event is signaled, and ends the  *)
(* signal when the event is of the kind that resets itself; a wait with a  *)
(* limit may also end without one.                                         *)
(***************************************************************************)
EXTENDS Threads

VARIABLES
  manualReset,  \* whether a signal lasts until Reset
  signaled,  \* whether a wait would end now
  waiters,   \* threads in Wait
  limited    \* those of them whose wait has a limit

eventVars == <<manualReset, signaled, waiters, limited>>

Init ==
  manualReset \in BOOLEAN /\ signaled = FALSE /\ waiters = {} /\ limited = {}

Set == signaled' = TRUE /\ UNCHANGED <<waiters, limited>>
Reset == signaled' = FALSE /\ UNCHANGED <<waiters, limited>>

Leave(t) == waiters' = waiters \ {t} /\ limited' = limited \ {t}

Wait(t) ==
  /\ t \notin waiters
  /\ waiters' = waiters \cup {t}
  /\ limited' \in {limited, limited \cup {t}}
  /\ UNCHANGED signaled

\* The event is signaled when the wait begins.
Pass(t) ==
  /\ t \notin waiters
  /\ signaled
  /\ signaled' = manualReset
  /\ UNCHANGED <<waiters, limited>>

Wake(t) ==
  /\ t \in waiters
  /\ signaled
  /\ signaled' = manualReset
  /\ Leave(t)

GiveUp(t) ==
  /\ t \in limited
  /\ Leave(t)
  /\ UNCHANGED signaled

Next ==
  /\ \/ Set
     \/ Reset
     \/ \E t \in Thread : Wait(t) \/ Pass(t) \/ Wake(t) \/ GiveUp(t)
  /\ UNCHANGED manualReset

Spec == Init /\ [][Next]_eventVars
=============================================================================
