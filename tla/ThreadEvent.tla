------------------------------ MODULE ThreadEvent ------------------------------
(***************************************************************************)
(* CThreadEvent as built for POSIX (src/tier0/threadtools.cpp): a mutex, a *)
(* condition variable, m_cSet and m_bWakeForEvent.                         *)
(*                                                                         *)
(* Everything but the time in pthread_cond_timedwait happens with the      *)
(* mutex held and is one step.  The condition variable wakes at most one   *)
(* thread per signal, may wake a thread for nothing, and a wait that times *)
(* out may use up a signal sent at the same moment: POSIX allows all three.*)
(***************************************************************************)
EXTENDS Threads

VARIABLES
  manualReset,  \* m_bManualReset, what the constructor was given
  cSet,     \* m_cSet
  wake,     \* m_bWakeForEvent
  eventPc,  \* "free", "blocked" in the condition variable, or "woken"
  timeout,  \* the limit of the wait: "none" (TT_INFINITE) or "some"
  ret,      \* what pthread_cond_timedwait returned: "ok" or "timedout"
  lost      \* history: a wait that timed out has used up a signal

eventVars == <<manualReset, cSet, wake, eventPc, timeout, ret, lost>>

EventTypeOK ==
  /\ manualReset \in BOOLEAN
  /\ cSet \in {0, 1}
  /\ wake \in BOOLEAN
  /\ eventPc \in [Thread -> {"free", "blocked", "woken"}]
  /\ timeout \in [Thread -> {"none", "some"}]
  /\ ret \in [Thread -> {"ok", "timedout"}]
  /\ lost \in BOOLEAN

EventInit ==
  /\ manualReset \in BOOLEAN
  /\ cSet = 0
  /\ wake = FALSE
  /\ eventPc = [t \in Thread |-> "free"]
  /\ timeout = [t \in Thread |-> "none"]
  /\ ret = [t \in Thread |-> "ok"]
  /\ lost = FALSE

-----------------------------------------------------------------------------
Blocked == {t \in Thread : eventPc[t] = "blocked"}

\* pthread_cond_signal: one thread that is blocked, if there is one.
Signal ==
  \/ Blocked = {} /\ UNCHANGED <<eventPc, ret>>
  \/ \E t \in Blocked :
       /\ eventPc' = [eventPc EXCEPT ![t] = "woken"]
       /\ ret' = [ret EXCEPT ![t] = "ok"]

\* Slip: the flag that the loop of Wait looks at is not raised.
SetWithoutFlag ==
  /\ cSet' = 1
  /\ Signal
  /\ lost' = FALSE
  /\ UNCHANGED <<wake, timeout>>

Set ==
  /\ cSet' = 1
  /\ wake' = TRUE
  /\ Signal
  /\ lost' = FALSE
  /\ UNCHANGED timeout

Reset ==
  /\ cSet' = 0
  /\ wake' = FALSE
  /\ lost' = FALSE
  /\ UNCHANGED <<eventPc, timeout, ret>>

(***************************************************************************)
(* The end of Wait: the flag goes down and an event that resets itself is  *)
(* reset, both only when Wait is going to return true.                     *)
(***************************************************************************)
Return(t, bRet) ==
  /\ eventPc' = [eventPc EXCEPT ![t] = "free"]
  /\ wake' = (wake /\ ~bRet)
  /\ cSet' = IF bRet /\ ~manualReset THEN 0 ELSE cSet

Wait(t, limit) ==
  /\ eventPc[t] = "free"
  /\ timeout' = [timeout EXCEPT ![t] = limit]
  /\ \/ cSet > 0 /\ Return(t, TRUE)
     \/ /\ cSet = 0
        /\ eventPc' = [eventPc EXCEPT ![t] = "blocked"]
        /\ UNCHANGED <<cSet, wake>>
  /\ UNCHANGED <<ret, lost>>

(***************************************************************************)
(* The condition variable.  An unlimited wait for a manual event is a      *)
(* series of waits of ten milliseconds; one for an event that resets       *)
(* itself has a limit of weeks and does not time out here.                 *)
(***************************************************************************)
Polls(t) == timeout[t] = "some" \/ manualReset

Wakeup(t, how) ==
  /\ eventPc' = [eventPc EXCEPT ![t] = "woken"]
  /\ ret' = [ret EXCEPT ![t] = how]
  /\ UNCHANGED <<cSet, wake, timeout, lost>>

TimeOut(t) == eventPc[t] = "blocked" /\ Polls(t) /\ Wakeup(t, "timedout")

SpuriousWakeup(t) == eventPc[t] = "blocked" /\ Wakeup(t, "ok")

\* The thread a signal was meant for times out before it gets the mutex.
TimeOutWithSignal(t) ==
  /\ eventPc[t] = "woken"
  /\ ret[t] = "ok"
  /\ Polls(t)
  /\ ret' = [ret EXCEPT ![t] = "timedout"]
  /\ lost' = TRUE
  /\ UNCHANGED <<cSet, wake, eventPc, timeout>>

\* Slip: the loop believes every wakeup.
StaysWhileNotSignaled(t) == ret[t] # "ok" /\ manualReset /\ timeout[t] = "none"

(***************************************************************************)
(* The loop of Wait once the mutex is held again: a manual event that is   *)
(* set ends it, an unlimited wait for one ignores the time, and otherwise  *)
(* the flag or the time decide.                                            *)
(***************************************************************************)
StaysInLoop(t) ==
  /\ ~(manualReset /\ cSet > 0)
  /\ ~wake
  /\ ret[t] = "ok" \/ (manualReset /\ timeout[t] = "none")

WaitLoop(t) ==
  /\ eventPc[t] = "woken"
  /\ \/ /\ StaysInLoop(t)
        /\ eventPc' = [eventPc EXCEPT ![t] = "blocked"]
        /\ UNCHANGED <<cSet, wake>>
     \/ /\ ~StaysInLoop(t)
        /\ Return(t, ret[t] = "ok")
  /\ UNCHANGED <<timeout, ret, lost>>

Waiter(t) ==
  \/ \E limit \in {"none", "some"} : Wait(t, limit)
  \/ TimeOut(t)
  \/ SpuriousWakeup(t)
  \/ TimeOutWithSignal(t)
  \/ WaitLoop(t)

EventNext ==
  /\ Set \/ Reset \/ \E t \in Thread : Waiter(t)
  /\ UNCHANGED manualReset

EventSpec == EventInit /\ [][EventNext]_eventVars

-----------------------------------------------------------------------------
(***************************************************************************)
(* The event implements SyncEvent, wakeups for nothing, signals that come  *)
(* too late and races between Set, Reset and a waking thread included.     *)
(***************************************************************************)
Waiters == {t \in Thread : eventPc[t] # "free"}
EventPromise == INSTANCE SyncEvent WITH
  signaled <- cSet > 0,
  waiters <- Waiters,
  limited <- {t \in Waiters : timeout[t] = "some"}
EventImplementsPromise == EventPromise!Spec

(***************************************************************************)
(* No wakeup is lost: while the event is set, a thread that is blocked for *)
(* it polls, or another one is on its way to take the signal.  The         *)
(* exception is a signal that a wait used up while it timed out: then a    *)
(* thread without a limit sleeps beside an event that is set.              *)
(***************************************************************************)
NoWakeupLost ==
  cSet > 0 /\ ~lost =>
    \A t \in Blocked : Polls(t) \/ \E u \in Thread : eventPc[u] = "woken"
=============================================================================
