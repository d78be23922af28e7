----------------------------- MODULE ThreadRWLock -----------------------------
(***************************************************************************)
(* CThreadRWLock (src/tier0/threadtools.cpp, src/public/tier0/             *)
(* threadtools.h): three counts under a mutex and two events.  The events  *)
(* are what SyncEvent says of them: m_CanRead stays signaled until Reset,  *)
(* m_CanWrite lets one wait pass per signal.                               *)
(*                                                                         *)
(* What a function does with the mutex held is one step; the waits are     *)
(* outside of it.  A thread holds the lock at most once.                   *)
(***************************************************************************)
EXTENDS Threads

VARIABLES
  canRead,         \* m_CanRead
  canWrite,        \* m_CanWrite
  nWriters,        \* m_nWriters: those that write and those that wait to
  nActiveReaders,  \* m_nActiveReaders
  nPendingReaders, \* m_nPendingReaders
  rwPc               \* where each thread is

counts == <<nWriters, nActiveReaders, nPendingReaders>>
rwVars == <<canRead, canWrite, nWriters, nActiveReaders, nPendingReaders, rwPc>>

RWTypeOK ==
  /\ canRead \in BOOLEAN
  /\ canWrite \in BOOLEAN
  /\ nWriters \in Nat
  /\ nActiveReaders \in Nat
  /\ nPendingReaders \in Nat
  /\ rwPc \in [Thread -> {"free", "waitRead", "relock", "reading",
                        "waitWrite", "writing"}]

RWInit ==
  /\ canRead = FALSE
  /\ canWrite = FALSE
  /\ nWriters = 0
  /\ nActiveReaders = 0
  /\ nPendingReaders = 0
  /\ rwPc = [t \in Thread |-> "free"]

\* Slip: a reader joins those inside although a writer waits.
LockForReadOvertaking(t) ==
  /\ \/ /\ nWriters = 0 \/ nActiveReaders # 0
        /\ Goto(rwPc, t, "free", "reading")
        /\ nActiveReaders' = nActiveReaders + 1
        /\ UNCHANGED nPendingReaders
     \/ /\ nWriters # 0 /\ nActiveReaders = 0
        /\ Goto(rwPc, t, "free", "waitRead")
        /\ nPendingReaders' = nPendingReaders + 1
        /\ UNCHANGED nActiveReaders
  /\ UNCHANGED <<canRead, canWrite, nWriters>>

\* LockForRead: past the writers at once, or into WaitForRead.
LockForRead(t) ==
  /\ \/ /\ nWriters = 0
        /\ Goto(rwPc, t, "free", "reading")
        /\ nActiveReaders' = nActiveReaders + 1
        /\ UNCHANGED nPendingReaders
     \/ /\ nWriters # 0
        /\ Goto(rwPc, t, "free", "waitRead")
        /\ nPendingReaders' = nPendingReaders + 1
        /\ UNCHANGED nActiveReaders
  /\ UNCHANGED <<canRead, canWrite, nWriters>>

CanReadWait(t) ==
  /\ canRead
  /\ Goto(rwPc, t, "waitRead", "relock")
  /\ UNCHANGED <<canRead, canWrite, counts>>

\* Slip: the event is taken for the answer, without another look.
RelockForReadBlindly(t) ==
  /\ Goto(rwPc, t, "relock", "reading")
  /\ nPendingReaders' = nPendingReaders - 1
  /\ nActiveReaders' = nActiveReaders + 1
  /\ UNCHANGED <<canRead, canWrite, nWriters>>

(***************************************************************************)
(* The end of the loop of WaitForRead, under the mutex again: another      *)
(* round when a writer has come in the meantime.                           *)
(***************************************************************************)
RelockForRead(t) ==
  /\ \/ /\ nWriters # 0
        /\ Goto(rwPc, t, "relock", "waitRead")
        /\ UNCHANGED <<nActiveReaders, nPendingReaders>>
     \/ /\ nWriters = 0
        /\ Goto(rwPc, t, "relock", "reading")
        /\ nPendingReaders' = nPendingReaders - 1
        /\ nActiveReaders' = nActiveReaders + 1
  /\ UNCHANGED <<canRead, canWrite, nWriters>>

UnlockRead(t) ==
  /\ Goto(rwPc, t, "reading", "free")
  /\ nActiveReaders' = nActiveReaders - 1
  /\ canWrite' = (canWrite \/ (nActiveReaders' = 0 /\ nWriters # 0))
  /\ UNCHANGED <<canRead, nWriters, nPendingReaders>>

LockForWrite(t) ==
  /\ Goto(rwPc, t, "free", IF nWriters # 0 \/ nActiveReaders # 0
                       THEN "waitWrite" ELSE "writing")
  /\ nWriters' = nWriters + 1
  /\ canRead' = FALSE
  /\ UNCHANGED <<canWrite, nActiveReaders, nPendingReaders>>

CanWriteWait(t) ==
  /\ canWrite
  /\ Goto(rwPc, t, "waitWrite", "writing")
  /\ canWrite' = FALSE
  /\ UNCHANGED <<canRead, counts>>

\* Slip: a writer that wakes the readers and the next writer.
UnlockWriteForAll(t) ==
  /\ Goto(rwPc, t, "writing", "free")
  /\ nWriters' = nWriters - 1
  /\ canRead' = (canRead \/ nPendingReaders # 0)
  /\ canWrite' = TRUE
  /\ UNCHANGED <<nActiveReaders, nPendingReaders>>

UnlockWrite(t) ==
  /\ Goto(rwPc, t, "writing", "free")
  /\ nWriters' = nWriters - 1
  /\ canRead' = (canRead \/ (nWriters' = 0 /\ nPendingReaders # 0))
  /\ canWrite' = (canWrite \/ nWriters' # 0)
  /\ UNCHANGED <<nActiveReaders, nPendingReaders>>

Waking(t) == CanReadWait(t) \/ RelockForRead(t) \/ CanWriteWait(t)
Unlock(t) == UnlockRead(t) \/ UnlockWrite(t)

RWNext ==
  \E t \in Thread :
    LockForRead(t) \/ LockForWrite(t) \/ Waking(t) \/ Unlock(t)

RWSpec == RWInit /\ [][RWNext]_rwVars

\* Waits end when their event allows it, and a lock is given back.
RWFairness == \A t \in Thread : WF_rwVars(Waking(t)) /\ WF_rwVars(Unlock(t))

-----------------------------------------------------------------------------
Pending == At(rwPc, {"waitRead", "relock"})
Reading == At(rwPc, {"reading"})
Writing == At(rwPc, {"writing"})
WaitingToWrite == At(rwPc, {"waitWrite"})

(***************************************************************************)
(* The counts are those of the threads, whatever they wait for.            *)
(***************************************************************************)
CountsHold ==
  /\ nActiveReaders = Cardinality(Reading)
  /\ nPendingReaders = Cardinality(Pending)
  /\ nWriters = Cardinality(WaitingToWrite \cup Writing)

(***************************************************************************)
(* m_CanWrite is a token of the right to write: it is signaled only while  *)
(* nobody holds the lock and somebody waits to write, and when somebody    *)
(* waits to write, the token is there or a holder will pass it on.         *)
(***************************************************************************)
OneWriteToken ==
  /\ canWrite => /\ WaitingToWrite # {}
                 /\ Reading \cup Writing = {}
  /\ WaitingToWrite # {} =>
       canWrite \/ Reading \cup Writing # {}

(***************************************************************************)
(* No reader is left waiting: while nobody writes or waits to, the event   *)
(* that a pending reader waits for is signaled.                            *)
(***************************************************************************)
ReadersAreWoken == nWriters = 0 /\ At(rwPc, {"waitRead"}) # {} => canRead

(***************************************************************************)
(* Nobody is forgotten: the counts by which the lock decides whom to wake  *)
(* are true, the right to write is handed on exactly once, and the readers *)
(* are woken when the last writer has gone.                                *)
(***************************************************************************)
NobodyIsForgotten == CountsHold /\ OneWriteToken /\ ReadersAreWoken

(***************************************************************************)
(* The lock implements RWLock.                                             *)
(***************************************************************************)
RWPromise == INSTANCE RWLock WITH
  readers <- Reading, writers <- Writing
RWLockImplementsPromise == RWPromise!Spec

(***************************************************************************)
(* A thread that waits to write leaves some writer in the lock sooner or   *)
(* later, and a thread that waits to read gets in once writers stop coming.*)
(***************************************************************************)
WritersProgress == (WaitingToWrite # {}) ~> (Writing # {})
ReadersProgress ==
  \A t \in Thread :
    (t \in Pending) ~> (t \notin Pending \/ nWriters # 0)
=============================================================================
