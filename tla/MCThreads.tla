------------------------------- MODULE MCThreads -------------------------------
(***************************************************************************)
(* The locks, the event, the threads, the message queue and the list of    *)
(* tier0, each by itself: part says which one a behaviour is about, and    *)
(* the others stay as they were constructed.  Parts are those of a run.    *)
(***************************************************************************)
EXTENDS SpinRWLock, FastMutex, ThreadRWLock, ThreadEvent,
        WorkerThread, ThreadStart, MessageQueue, TSList

CONSTANT Parts

VARIABLE part

others == <<spinVars, mutexVars, rwVars, eventVars,
            workerThreadVars, startVars, queueVars, listVars>>

MCInit ==
  /\ part \in Parts
  /\ SpinInit /\ MutexInit /\ RWInit /\ EventInit
  /\ WorkerInit /\ StartInit /\ QueueInit /\ ListInit
  /\ part # "event" => ~manualReset
  /\ part # "list" => \E u \in User : inHand[u] = Node /\ u = CHOOSE v \in User : TRUE

Synchronizing ==
  \/ part = "spin" /\ SpinNext /\ UNCHANGED <<mutexVars, rwVars, eventVars>>
  \/ part = "mutex" /\ MutexNext /\ UNCHANGED <<spinVars, rwVars, eventVars>>
  \/ part = "rwlock" /\ RWNext /\ UNCHANGED <<spinVars, mutexVars, eventVars>>
  \/ part = "event" /\ EventNext /\ UNCHANGED <<spinVars, mutexVars, rwVars>>

Communicating ==
  \/ part = "calls" /\ WorkerNext /\ UNCHANGED <<startVars, queueVars, listVars>>
  \/ part = "start" /\ StartNext
     /\ UNCHANGED <<workerThreadVars, queueVars, listVars>>
  \/ part = "queue" /\ QueueNext
     /\ UNCHANGED <<workerThreadVars, startVars, listVars>>
  \/ part = "list" /\ ListNext
     /\ UNCHANGED <<workerThreadVars, startVars, queueVars>>

MCNext ==
  /\ \/ Synchronizing
        /\ UNCHANGED <<workerThreadVars, startVars, queueVars, listVars>>
     \/ Communicating /\ UNCHANGED <<spinVars, mutexVars, rwVars, eventVars>>
  /\ UNCHANGED part

MCSpec == MCInit /\ [][MCNext]_<<part, others>>

MCFairSpec ==
  /\ MCSpec
  /\ SpinFairness /\ RWFairness
  /\ WorkerFairness /\ StartFairness /\ QueueFairness

(***************************************************************************)
(* Every part of tier0 keeps its types.                                    *)
(***************************************************************************)
ThreadsTypeOK ==
  /\ SpinTypeOK /\ MutexTypeOK /\ RWTypeOK /\ EventTypeOK
  /\ WorkerTypeOK /\ StartTypeOK /\ QueueTypeOK /\ ListTypeOK

(***************************************************************************)
(* Whoever waits for a lock gets on: a spinning thread is not the only one *)
(* for ever, a writer writes, and a reader reads unless writers come.      *)
(***************************************************************************)
LocksProgress == SpinLockProgress /\ WritersProgress /\ ReadersProgress
=============================================================================
