------------------------------ MODULE WorkerThread ------------------------------
(***************************************************************************)
(* CWorkerThread (src/tier0/threadtools.cpp): masters call a worker over   *)
(* one channel of two manual events, a parameter and a return value, all   *)
(* of them plain members.  m_Lock serialises the calls and the end of the  *)
(* thread; the worker does not take it to reply, and a client that waits   *)
(* on after a timeout does not take it at all.                             *)
(*                                                                         *)
(* The parameter of a call is its number, and the answer to a call is the  *)
(* number again.  The events are those of SyncEvent: a poll with Wait(0)   *)
(* sees whether they are signaled.                                         *)
(***************************************************************************)
EXTENDS Threads

CONSTANTS
  Client,   \* the threads that call the worker
  CallMax,  \* calls made
  RunMax    \* times the worker is started

ASSUME CallsAssumption == CallMax \in Nat /\ RunMax \in Nat

VARIABLES
  mLock,      \* m_Lock, a set of at most one holder
  alive,      \* m_threadId # 0
  exitEvent,  \* m_ExitEvent, which resets itself and is signaled at the end
  sendEvent,  \* m_EventSend
  completeEvent,  \* m_EventComplete
  param,      \* m_Param
  returnVal,  \* m_ReturnVal
  callPc,     \* where each master is
  call,       \* the number of each master's latest call
  result,     \* what its latest call or wait returned
  workerPc,   \* where the worker is
  taken,      \* the parameter the worker has read
  calls, runs,
  gaveUp      \* history: a master has stopped waiting for an answer

channel == <<sendEvent, completeEvent, param, returnVal>>
masterVars == <<callPc, call, result, calls, gaveUp>>
workerVars == <<workerPc, taken, runs>>
workerThreadVars == <<mLock, alive, exitEvent, channel, masterVars, workerVars>>

\* WTCR_FAIL and WTCR_TIMEOUT
FAIL == -1
TIMEOUT == -2

\* What the other side takes for its turn.
Locked == mLock # {}
InCall(t) == mLock = {t}

WorkerTypeOK ==
  /\ mLock \in SUBSET Client /\ Cardinality(mLock) <= 1
  /\ {alive, exitEvent, sendEvent, completeEvent, gaveUp} \subseteq BOOLEAN
  /\ param \in 0..CallMax
  /\ returnVal \in {TIMEOUT} \cup 0..CallMax
  /\ callPc \in [Client -> {"idle", "lock", "param", "reset", "send", "complete",
                            "exited", "drop", "late", "return"}]
  /\ call \in [Client -> 0..CallMax]
  /\ result \in [Client -> {FAIL, TIMEOUT} \cup 0..CallMax]
  /\ workerPc \in {"off", "wait", "fetch", "serve", "value", "unsend",
                   "signal", "exit"}
  /\ taken \in 0..CallMax
  /\ calls \in 0..CallMax /\ runs \in 0..RunMax
  /\ \A t \in mLock : callPc[t] \notin {"idle", "lock"}

WorkerInit ==
  /\ mLock = {}
  /\ alive = FALSE /\ exitEvent = FALSE /\ gaveUp = FALSE
  /\ sendEvent = FALSE /\ completeEvent = FALSE
  /\ param = 0 /\ returnVal = 0
  /\ callPc = [t \in Client |-> "idle"]
  /\ call = [t \in Client |-> 0]
  /\ result = [t \in Client |-> 0]
  /\ workerPc = "off" /\ taken = 0
  /\ calls = 0 /\ runs = 0

-----------------------------------------------------------------------------
\* Call, whose caller heeds the assertion that no call is pending.
BeginCall(t) ==
  /\ calls < CallMax
  /\ ~sendEvent
  /\ Goto(callPc, t, "idle", "lock")
  /\ calls' = calls + 1
  /\ call' = [call EXCEPT ![t] = calls']
  /\ UNCHANGED <<mLock, alive, exitEvent, channel, result, gaveUp, workerVars>>

\* Slip: the lock is not taken.
LockCallShared(t) ==
  /\ Goto(callPc, t, "lock", IF alive THEN "param" ELSE "idle")
  /\ mLock' = IF alive THEN mLock \cup {t} ELSE mLock
  /\ result' = [result EXCEPT ![t] = IF alive THEN @ ELSE FAIL]
  /\ UNCHANGED <<alive, exitEvent, channel, call, calls, gaveUp, workerVars>>

LockCall(t) ==
  /\ ~Locked
  /\ \/ /\ alive
        /\ mLock' = {t}
        /\ Goto(callPc, t, "lock", "param")
        /\ UNCHANGED result
     \/ /\ ~alive
        /\ Goto(callPc, t, "lock", "idle")
        /\ result' = [result EXCEPT ![t] = FAIL]
        /\ UNCHANGED mLock
  /\ UNCHANGED <<alive, exitEvent, channel, call, calls, gaveUp, workerVars>>

SetParam(t) ==
  /\ Goto(callPc, t, "param", "reset")
  /\ param' = call[t]
  /\ UNCHANGED <<mLock, alive, exitEvent, sendEvent, completeEvent, returnVal>>
  /\ UNCHANGED <<call, result, calls, gaveUp, workerVars>>

\* Slip: the completion of the call before is left standing.
KeepComplete(t) ==
  /\ Goto(callPc, t, "reset", "send")
  /\ UNCHANGED <<mLock, alive, exitEvent, channel>>
  /\ UNCHANGED <<call, result, calls, gaveUp, workerVars>>

ResetComplete(t) ==
  /\ Goto(callPc, t, "reset", "send")
  /\ completeEvent' = FALSE
  /\ UNCHANGED <<mLock, alive, exitEvent, sendEvent, param, returnVal>>
  /\ UNCHANGED <<call, result, calls, gaveUp, workerVars>>

SetSend(t) ==
  /\ Goto(callPc, t, "send", "complete")
  /\ sendEvent' = TRUE
  /\ UNCHANGED <<mLock, alive, exitEvent, completeEvent, param, returnVal>>
  /\ UNCHANGED <<call, result, calls, gaveUp, workerVars>>

(***************************************************************************)
(* WaitForReply: WaitForMultiple polls m_EventComplete, then m_ExitEvent,  *)
(* then looks at the time.  TT_INFINITE is thirty seconds.                 *)
(***************************************************************************)
\* The client waits on for the answer to a call that has timed out.
AwaitReply(t) ==
  /\ result[t] = TIMEOUT
  /\ Goto(callPc, t, "idle", "complete")
  /\ UNCHANGED <<mLock, alive, exitEvent, channel, call, result, calls, gaveUp>>
  /\ UNCHANGED workerVars

PollComplete(t) ==
  /\ Goto(callPc, t, "complete", IF completeEvent THEN "return" ELSE "exited")
  /\ UNCHANGED <<mLock, alive, exitEvent, channel, call, result, calls, gaveUp>>
  /\ UNCHANGED workerVars

PollExit(t) ==
  /\ Goto(callPc, t, "exited", IF exitEvent THEN "drop" ELSE "complete")
  /\ exitEvent' = FALSE
  /\ UNCHANGED <<mLock, alive, channel, call, result, calls, gaveUp, workerVars>>

\* Slip: an unlimited wait that is one.
NeverTimeOut(t) == FALSE /\ UNCHANGED workerThreadVars

TimeOutReply(t) ==
  /\ ~exitEvent
  /\ Goto(callPc, t, "exited", "late")
  /\ UNCHANGED <<mLock, alive, exitEvent, channel, call, result, calls, gaveUp>>
  /\ UNCHANGED workerVars

DropSend(t) ==
  /\ Goto(callPc, t, "drop", "late")
  /\ sendEvent' = FALSE
  /\ UNCHANGED <<mLock, alive, exitEvent, completeEvent, param, returnVal>>
  /\ UNCHANGED <<call, result, calls, gaveUp, workerVars>>

ReturnLate(t) ==
  /\ Goto(callPc, t, "late", "return")
  /\ returnVal' = TIMEOUT
  /\ gaveUp' = TRUE
  /\ UNCHANGED <<mLock, alive, exitEvent, sendEvent, completeEvent, param>>
  /\ UNCHANGED <<call, result, calls, workerVars>>

\* m_ReturnVal is read, and m_Lock given back by those who have it.
ReturnResult(t) ==
  /\ Goto(callPc, t, "return", "idle")
  /\ result' = [result EXCEPT ![t] = returnVal]
  /\ mLock' = mLock \ {t}
  /\ UNCHANGED <<alive, exitEvent, channel, call, calls, gaveUp, workerVars>>

-----------------------------------------------------------------------------
\* The worker: Start, WaitForCall, Reply, and the end of ThreadProc.
StartWorker ==
  /\ ~Locked /\ ~alive /\ workerPc = "off" /\ runs < RunMax
  /\ alive' = TRUE
  /\ workerPc' = "wait"
  /\ runs' = runs + 1
  /\ UNCHANGED <<mLock, exitEvent, channel, masterVars, taken>>

Work(from, to) ==
  /\ workerPc = from
  /\ workerPc' = to
  /\ UNCHANGED <<mLock, alive, exitEvent, masterVars, runs>>

WaitForCall == sendEvent /\ Work("wait", "fetch") /\ UNCHANGED <<channel, taken>>

FetchParam == Work("fetch", "serve") /\ taken' = param /\ UNCHANGED channel

ClearParam ==
  /\ Work("serve", "value")
  /\ param' = 0
  /\ UNCHANGED <<sendEvent, completeEvent, returnVal, taken>>

SetReturnVal ==
  /\ Work("value", "unsend")
  /\ returnVal' = taken
  /\ UNCHANGED <<sendEvent, completeEvent, param, taken>>

ResetSend ==
  /\ Work("unsend", "signal")
  /\ sendEvent' = FALSE
  /\ UNCHANGED <<completeEvent, param, returnVal, taken>>

SetComplete ==
  /\ Work("signal", "wait")
  /\ completeEvent' = TRUE
  /\ UNCHANGED <<sendEvent, param, returnVal, taken>>

\* Run returns between two calls, or without an answer to the one it has.
LeaveRun ==
  /\ Work("wait", "exit") \/ Work("serve", "exit")
  /\ UNCHANGED <<channel, taken>>

EndThread ==
  /\ workerPc = "exit" /\ ~Locked
  /\ workerPc' = "off"
  /\ alive' = FALSE
  /\ exitEvent' = TRUE
  /\ UNCHANGED <<mLock, channel, masterVars, taken, runs>>

Reply == ClearParam \/ SetReturnVal \/ ResetSend \/ SetComplete

Master(t) ==
  \/ LockCall(t) \/ SetParam(t) \/ ResetComplete(t) \/ SetSend(t)
  \/ PollComplete(t) \/ PollExit(t) \/ TimeOutReply(t) \/ DropSend(t)
  \/ ReturnLate(t) \/ ReturnResult(t)

WorkerNext ==
  \/ \E t \in Client : BeginCall(t) \/ AwaitReply(t) \/ Master(t)
  \/ StartWorker \/ WaitForCall \/ FetchParam \/ Reply \/ LeaveRun \/ EndThread

\* Threads run, time passes, and a thread that leaves Run ends.
WorkerFairness ==
  /\ \A t \in Client :
       WF_workerThreadVars(Master(t)) /\ SF_workerThreadVars(TimeOutReply(t))
  /\ WF_workerThreadVars(EndThread)

WorkerSpec ==
  WorkerInit /\ [][WorkerNext]_workerThreadVars /\ WorkerFairness

-----------------------------------------------------------------------------
(***************************************************************************)
(* A call returns the answer to itself, as long as nobody has given up     *)
(* waiting: nothing is left of an earlier call, its worker's end or a      *)
(* restart that a later call could take for its answer.                    *)
(***************************************************************************)
AnswersOwnCall ==
  \A t \in Client :
    callPc[t] = "idle" /\ result[t] > 0 /\ ~gaveUp => result[t] = call[t]

(***************************************************************************)
(* Between calls the channel is clean: when nobody calls and the worker    *)
(* waits, no request stands, unless one was given up.                      *)
(***************************************************************************)
CleanBetweenCalls ==
  /\ \A t \in Client : callPc[t] \in {"idle", "lock"}
  /\ workerPc \in {"off", "wait", "exit"}
  /\ ~gaveUp
  => ~sendEvent /\ param = 0

(***************************************************************************)
(* Requests and answers belong together: a call returns its own answer,    *)
(* and leaves nothing behind for the next, whatever ends and restarts lie  *)
(* between them.                                                           *)
(***************************************************************************)
CallsAreAnswered == AnswersOwnCall /\ CleanBetweenCalls

(***************************************************************************)
(* Every call returns, whatever the worker does with it and although the   *)
(* worker cannot end while a call holds m_Lock.                            *)
(***************************************************************************)
CallsReturn ==
  \A t \in Client : callPc[t] # "idle" ~> callPc[t] = "idle"

(***************************************************************************)
(* "Master: Signal the thread, and block for a response": a call takes the *)
(* worker for gone only when it is.                                        *)
(***************************************************************************)
CallBlocksForResponse ==
  \A t \in Client : callPc[t] = "drop" /\ InCall(t) => ~alive
=============================================================================
