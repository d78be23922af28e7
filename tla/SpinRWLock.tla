------------------------------ MODULE SpinRWLock ------------------------------
(***************************************************************************)
(* CThreadSpinRWLock (src/public/tier0/threadtools.h), as it is compiled:  *)
(* not reentrant.  The lock is one 32-bit word, a count of readers and a   *)
(* writer's bit above it, changed by compare-and-swap.                     *)
(*                                                                         *)
(* A step is one access to the word or to m_writerId.  The rounds of       *)
(* SpinLockForWrite and SpinLockForRead differ only in how long they pause *)
(* between attempts and are one loop here.                                 *)
(***************************************************************************)
EXTENDS Threads

VARIABLES
  lockInfo,  \* m_lockInfo.m_i32
  writerId,  \* m_writerId, a set of at most one thread
  spinPc,        \* where each thread is, "free" outside of the lock
  seen,      \* the word a reader compares with, oldValue
  tries      \* whether the call in progress is one of the Try functions

spinVars == <<lockInfo, writerId, spinPc, seen, tries>>

WriteBit == ReaderLimit

IsWriting(word) == word >= WriteBit
Readers(word) == word % WriteBit

Steps == {"free", "readCheck", "readLoad", "readSwap", "reading",
          "writeCheck", "writeSwap", "writeOwn", "writing", "writeDisown"}

SpinTypeOK ==
  /\ lockInfo \in 0..(2 * WriteBit - 1)
  /\ writerId \in SUBSET Thread
  /\ spinPc \in [Thread -> Steps]
  /\ seen \in [Thread -> 0..(WriteBit - 1)]
  /\ tries \in [Thread -> BOOLEAN]

SpinInit ==
  /\ lockInfo = 0
  /\ writerId = {}
  /\ spinPc = [t \in Thread |-> "free"]
  /\ seen = [t \in Thread |-> 0]
  /\ tries = [t \in Thread |-> FALSE]

-----------------------------------------------------------------------------
\* A failed attempt leaves a Try function and repeats in a Lock function.
Again(t, from, retry) ==
  Goto(spinPc, t, from, IF tries[t] THEN "free" ELSE retry)

CallForRead(t, try) ==
  /\ Goto(spinPc, t, "free", "readCheck")
  /\ tries' = [tries EXCEPT ![t] = try]
  /\ UNCHANGED <<lockInfo, writerId, seen>>

(***************************************************************************)
(* TryLockForRead reads the word once to see whether somebody writes, and  *)
(* once more, without the writer's bit, for the value to compare with.     *)
(***************************************************************************)
ReadCheck(t) ==
  /\ \/ ~IsWriting(lockInfo) /\ Goto(spinPc, t, "readCheck", "readLoad")
     \/ IsWriting(lockInfo) /\ Again(t, "readCheck", "readCheck")
  /\ UNCHANGED <<lockInfo, writerId, seen, tries>>

ReadLoad(t) ==
  /\ Goto(spinPc, t, "readLoad", "readSwap")
  /\ seen' = [seen EXCEPT ![t] = Readers(lockInfo)]
  /\ UNCHANGED <<lockInfo, writerId, tries>>

ReadSwap(t) ==
  /\ \/ /\ lockInfo = seen[t]
        /\ Goto(spinPc, t, "readSwap", "reading")
        /\ lockInfo' = seen[t] + 1
     \/ /\ lockInfo # seen[t]
        /\ Again(t, "readSwap", "readCheck")
        /\ UNCHANGED lockInfo
  /\ seen' = [seen EXCEPT ![t] = 0]
  /\ UNCHANGED <<writerId, tries>>

SpinUnlockRead(t) ==
  /\ Goto(spinPc, t, "reading", "free")
  /\ lockInfo' = (lockInfo - 1) % (2 * WriteBit)
  /\ UNCHANGED <<writerId, seen, tries>>

CallForWrite(t, try) ==
  /\ Goto(spinPc, t, "free", "writeCheck")
  /\ tries' = [tries EXCEPT ![t] = try]
  /\ UNCHANGED <<lockInfo, writerId, seen>>

WriteCheck(t) ==
  /\ \/ ~IsWriting(lockInfo) /\ Goto(spinPc, t, "writeCheck", "writeSwap")
     \/ IsWriting(lockInfo) /\ Again(t, "writeCheck", "writeCheck")
  /\ UNCHANGED <<lockInfo, writerId, seen, tries>>

\* Slip: the swap only looks for another writer.
WriteSwapPastReaders(t) ==
  \/ /\ ~IsWriting(lockInfo)
     /\ Goto(spinPc, t, "writeSwap", "writeOwn")
     /\ lockInfo' = WriteBit
     /\ UNCHANGED <<writerId, seen, tries>>
  \/ /\ IsWriting(lockInfo)
     /\ Again(t, "writeSwap", "writeCheck")
     /\ UNCHANGED <<lockInfo, writerId, seen, tries>>

WriteSwap(t) ==
  \/ /\ lockInfo = 0
     /\ Goto(spinPc, t, "writeSwap", "writeOwn")
     /\ lockInfo' = WriteBit
     /\ UNCHANGED <<writerId, seen, tries>>
  \/ /\ lockInfo # 0
     /\ Again(t, "writeSwap", "writeCheck")
     /\ UNCHANGED <<lockInfo, writerId, seen, tries>>

WriteOwn(t) ==
  /\ Goto(spinPc, t, "writeOwn", "writing")
  /\ writerId' = {t}
  /\ UNCHANGED <<lockInfo, seen, tries>>

\* UnlockWrite gives up the name first and the word after a barrier.
SpinUnlockWrite(t) ==
  /\ Goto(spinPc, t, "writing", "writeDisown")
  /\ writerId' = {}
  /\ UNCHANGED <<lockInfo, seen, tries>>

ReleaseWord(t) ==
  /\ Goto(spinPc, t, "writeDisown", "free")
  /\ lockInfo' = 0
  /\ UNCHANGED <<writerId, seen, tries>>

Acquire(t) ==
  \/ ReadCheck(t) \/ ReadLoad(t) \/ ReadSwap(t)
  \/ WriteCheck(t) \/ WriteSwap(t) \/ WriteOwn(t)

Release(t) == SpinUnlockRead(t) \/ SpinUnlockWrite(t) \/ ReleaseWord(t)

Call(t) == \E try \in BOOLEAN : CallForRead(t, try) \/ CallForWrite(t, try)

SpinNext == \E t \in Thread : Call(t) \/ Acquire(t) \/ Release(t)

SpinSpec == SpinInit /\ [][SpinNext]_spinVars

\* A thread goes on with a call it has made and gives the lock back in the
\* end; it need not call.
SpinFairness == \A t \in Thread : WF_spinVars(Acquire(t)) /\ WF_spinVars(Release(t))

-----------------------------------------------------------------------------

ReadHolders == At(spinPc, {"reading"})
WriteHolders == At(spinPc, {"writeOwn", "writing", "writeDisown"})

(***************************************************************************)
(* The word tells the truth: its count is the number of threads that read, *)
(* its bit is set exactly while a thread writes, and m_writerId names that *)
(* thread while its caller holds the lock.  UnlockRead asserts as much.    *)
(***************************************************************************)
WordCountsHolders ==
  /\ Readers(lockInfo) = Cardinality(ReadHolders)
  /\ IsWriting(lockInfo) <=> WriteHolders # {}
  /\ At(spinPc, {"writing"}) \subseteq writerId
  /\ ReadHolders # {} => writerId = {}

(***************************************************************************)
(* The lock implements RWLock: a thread writes from its successful swap to *)
(* the store that clears the word.                                         *)
(***************************************************************************)
SpinPromise == INSTANCE RWLock WITH
  readers <- ReadHolders, writers <- WriteHolders
SpinLockImplementsRWLock == SpinPromise!Spec

(***************************************************************************)
(* Somebody always gets the lock: as long as a thread waits in LockForRead *)
(* or LockForWrite, the threads that compete for it cannot keep each other *)
(* from it, although any one of them may be overtaken for ever.            *)
(***************************************************************************)
SpinWaiting == {t \in Thread : ~tries[t] /\ spinPc[t] \notin {"free", "reading",
              "writeOwn", "writing", "writeDisown"}}
SpinLockProgress == (SpinWaiting # {}) ~> (ReadHolders \cup WriteHolders # {})
=============================================================================
