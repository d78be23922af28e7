---------------------------- MODULE Threads_proofs ----------------------------
(***************************************************************************)
(* What the locks, the events, the calls of a worker and the starts of a   *)
(* thread do for every number of threads, calls and starts, and what the   *)
(* message queue and the lock-free list do for every set of nodes.         *)
(***************************************************************************)
EXTENDS FastMutex, SpinRWLock, ThreadRWLock, ThreadEvent, WorkerThread,
        ThreadStart, MessageQueue, TSList, Iteration, SequenceTheorems,
        FiniteSetTheorems, TLAPS

-----------------------------------------------------------------------------
(***************************************************************************)
(* Mutual exclusion and nesting of CThreadFastMutex for any set of threads *)
(* and any depth.  The inductive invariant says who the owner is at every  *)
(* step of Lock and Unlock, and what m_depth is while the owner is between *)
(* the read and the write of it.                                           *)
(***************************************************************************)
\* What m_depth is while t is inside, by the step t is about to take.
DepthAt(t) ==
  /\ mutexPc[t] \in {"run", "compare", "load", "test"} => depth = held[t]
  /\ mutexPc[t] = "store" => depth = held[t] /\ read[t] = held[t]
  /\ mutexPc[t] = "unload" => depth = held[t] + 1
  /\ mutexPc[t] = "unstore" => depth = held[t] + 1 /\ read[t] = depth
  /\ mutexPc[t] = "release" => depth = 0 /\ held[t] = 0

OwnerIsInside ==
  /\ ownerID = Inside
  /\ \A t, u \in Inside : t = u
  /\ ownerID = {} => depth = 0

Bounds(t) ==
  /\ mutexPc[t] \in {"compare", "swap", "load", "store"} => held[t] < DepthMax
  /\ mutexPc[t] \in {"unload", "unstore"} => held[t] + 1 \in 0..DepthMax
  /\ mutexPc[t] = "swap" => held[t] = 0

MutexInv ==
  /\ MutexTypeOK
  /\ OwnerIsInside
  /\ \A t \in Thread : Bounds(t)
  /\ \A t \in Inside : DepthAt(t)

LEMMA MutexInitInv == MutexInit => MutexInv
  BY DepthMaxAssumption DEF MutexInit, MutexInv, MutexTypeOK, OwnerIsInside, Inside, Bounds,
     DepthAt

LEMMA MutexStepInv == MutexInv /\ [MutexNext]_mutexVars => MutexInv'
<1> SUFFICES ASSUME MutexInv, [MutexNext]_mutexVars
             PROVE  MutexInv'
  OBVIOUS
<1> USE DepthMaxAssumption DEF MutexInv, MutexTypeOK, OwnerIsInside, Inside, Bounds, DepthAt
<1>1. ASSUME NEW t \in Thread, CallLock(t)
      PROVE  MutexInv'
  BY <1>1 DEF CallLock, Goto
<1>2. ASSUME NEW t \in Thread, CallUnlock(t)
      PROVE  MutexInv'
  BY <1>2 DEF CallUnlock, Goto
<1>3. ASSUME NEW t \in Thread, CompareOwner(t)
      PROVE  MutexInv'
  BY <1>3 DEF CompareOwner, Goto
<1>4. ASSUME NEW t \in Thread, SwapOwner(t)
      PROVE  MutexInv'
  BY <1>4 DEF SwapOwner, Goto
<1>5. ASSUME NEW t \in Thread, LoadDepth(t)
      PROVE  MutexInv'
  BY <1>5 DEF LoadDepth, Goto
<1>6. ASSUME NEW t \in Thread, StoreDeeper(t)
      PROVE  MutexInv'
  BY <1>6 DEF StoreDeeper, Goto
<1>7. ASSUME NEW t \in Thread, StoreShallower(t)
      PROVE  MutexInv'
  BY <1>7 DEF StoreShallower, Goto
<1>8. ASSUME NEW t \in Thread, TestDepth(t)
      PROVE  MutexInv'
  BY <1>8 DEF TestDepth, Goto
<1>9. ASSUME NEW t \in Thread, ReleaseOwner(t)
      PROVE  MutexInv'
  BY <1>9 DEF ReleaseOwner, Goto
<1>10. CASE UNCHANGED mutexVars
  BY <1>10 DEF mutexVars
<1> QED
  BY <1>1, <1>2, <1>3, <1>4, <1>5, <1>6, <1>7, <1>8, <1>9, <1>10
     DEF MutexNext, Locking, Unlocking

LEMMA MutexInvariance == MutexSpec => []MutexInv
BY MutexInitInv, MutexStepInv, PTL DEF MutexSpec

-----------------------------------------------------------------------------
(***************************************************************************)
(* The counts and steps stay in their ranges: the depth never passes what  *)
(* the callers have asked for.                                             *)
(***************************************************************************)
THEOREM MutexTyped == MutexSpec => []MutexTypeOK
<1>1. MutexInv => MutexTypeOK
  BY DEF MutexInv
<1> QED
  BY <1>1, MutexInvariance, PTL

(***************************************************************************)
(* One thread at a time is inside of the mutex, it is the one that         *)
(* m_ownerID names, and m_depth is the number of calls it has not given    *)
(* back, whichever reads and writes of TryLock, Lock and Unlock interleave *)
(* and although ++ and -- are a read and a write each.                     *)
(***************************************************************************)
THEOREM MutexNests == MutexSpec => []OwnershipNests
<1>1. MutexInv => MutexExclusion
  BY DEF MutexInv, OwnerIsInside, MutexExclusion, Inside
<1>2. MutexInv => DepthIsNesting
  BY DEF MutexInv, OwnerIsInside, DepthIsNesting, DepthAt, Inside
<1> QED
  BY <1>1, <1>2, MutexInvariance, PTL DEF OwnershipNests

-----------------------------------------------------------------------------
(***************************************************************************)
(* CThreadSpinRWLock implements RWLock for any set of threads that its     *)
(* count of readers can hold.  The inductive invariant ties the lock word  *)
(* to the threads: it is the number of readers while nobody writes, and    *)
(* just the writer's bit while somebody does.                              *)
(***************************************************************************)
LEMMA SmallModulo ==
  ASSUME NEW n \in Nat, NEW x \in Nat, x < n
  PROVE  x % n = x
  OBVIOUS

LEMMA ModuloItself ==
  ASSUME NEW n \in Nat, n > 0
  PROVE  n % n = 0
  OBVIOUS

\* A set of threads is smaller than the reader limit, and counts as sets do.
LEMMA ThreadsCount ==
  ASSUME NEW S \in SUBSET Thread
  PROVE  /\ Cardinality(S) \in Nat
         /\ Cardinality(S) < ReaderLimit
         /\ Cardinality(S) = 0 <=> S = {}
         /\ \A t \in Thread \ S : Cardinality(S \cup {t}) = Cardinality(S) + 1
         /\ \A t \in S : Cardinality(S \ {t}) = Cardinality(S) - 1
<1>1. IsFiniteSet(S) /\ Cardinality(S) <= Cardinality(Thread)
  BY ThreadAssumption, FS_Subset
<1>2. Cardinality(S) \in Nat /\ Cardinality(Thread) \in Nat
  BY <1>1, ThreadAssumption, FS_CardinalityType
<1>3. /\ Cardinality(S) = 0 <=> S = {}
      /\ \A t \in Thread \ S : Cardinality(S \cup {t}) = Cardinality(S) + 1
      /\ \A t \in S : Cardinality(S \ {t}) = Cardinality(S) - 1
  BY <1>1, FS_EmptySet, FS_AddElement, FS_RemoveElement
<1> QED
  BY <1>1, <1>2, <1>3, ReaderLimitAssumption

WordOfReaders == lockInfo = Cardinality(ReadHolders)
WordOfWriter == lockInfo = WriteBit /\ ReadHolders = {}

SpinInv ==
  /\ SpinTypeOK
  /\ WriteHolders = {} => WordOfReaders
  /\ WriteHolders # {} => WordOfWriter
  /\ \A t, u \in WriteHolders : t = u
  /\ writerId = At(spinPc, {"writing"})

LEMMA SpinInitInv == SpinInit => SpinInv
<1> SUFFICES ASSUME SpinInit
             PROVE  SpinInv
  OBVIOUS
<1>1. ReadHolders = {} /\ WriteHolders = {} /\ At(spinPc, {"writing"}) = {}
  BY DEF SpinInit, ReadHolders, WriteHolders, At
<1>2. Cardinality({}) = 0
  BY FS_EmptySet
<1>3. WriteBit \in Nat /\ WriteBit > 0
  BY ReaderLimitAssumption, ThreadsCount DEF WriteBit
<1> QED
  BY <1>1, <1>2, <1>3 DEF SpinInit, SpinInv, SpinTypeOK, WordOfReaders, WordOfWriter, Steps

\* A step of one thread that changes neither the word nor who holds it.
LEMMA SpinPrivateStep ==
  ASSUME SpinInv, NEW t \in Thread, NEW from \in Steps, NEW to \in Steps,
         Goto(spinPc, t, from, to),
         from \notin {"reading", "writeOwn", "writing", "writeDisown"},
         to \notin {"reading", "writeOwn", "writing", "writeDisown"},
         UNCHANGED <<lockInfo, writerId>>,
         seen' \in [Thread -> 0..(WriteBit - 1)], tries' \in [Thread -> BOOLEAN]
  PROVE  SpinInv' /\ UNCHANGED <<ReadHolders, WriteHolders>>
<1> USE DEF SpinInv, SpinTypeOK, Goto
<1>1. UNCHANGED <<ReadHolders, WriteHolders>> /\ UNCHANGED At(spinPc, {"writing"})
  BY DEF ReadHolders, WriteHolders, At
<1>2. spinPc' \in [Thread -> Steps]
  OBVIOUS
<1> QED
  BY <1>1, <1>2 DEF WordOfReaders, WordOfWriter

-----------------------------------------------------------------------------
(***************************************************************************)
(* Every step keeps the invariant and is a step of RWLock, or none of its  *)
(* business: the swaps and the two ways to unlock are the steps that are.  *)
(***************************************************************************)
SpinSimulates == [SpinPromise!Next]_SpinPromise!rwVars

LEMMA SpinSwapForRead ==
  ASSUME SpinInv, NEW t \in Thread, ReadSwap(t)
  PROVE  SpinInv' /\ SpinSimulates
<1> USE DEF SpinInv, SpinTypeOK, Goto, Again, Steps
<1>1. CASE lockInfo = seen[t] /\ spinPc' = [spinPc EXCEPT ![t] = "reading"]
           /\ spinPc[t] = "readSwap" /\ lockInfo' = seen[t] + 1
  <2>1. WriteHolders = {} /\ lockInfo = Cardinality(ReadHolders)
    BY <1>1 DEF WordOfReaders, WordOfWriter
  <2>2. /\ ReadHolders' = ReadHolders \cup {t} /\ t \notin ReadHolders
        /\ WriteHolders' = {} /\ At(spinPc, {"writing"})' = {}
    BY <1>1, <2>1 DEF ReadHolders, WriteHolders, At
  <2>3. ReadHolders \in SUBSET Thread /\ ReadHolders' \in SUBSET Thread
    BY DEF ReadHolders, At
  <2>4. Cardinality(ReadHolders') = Cardinality(ReadHolders) + 1
        /\ Cardinality(ReadHolders') \in Nat /\ Cardinality(ReadHolders') < ReaderLimit
    BY <2>2, <2>3, ThreadsCount
  <2>5. UNCHANGED <<writerId, tries>> /\ At(spinPc, {"writing"}) = {}
    BY <1>1, <2>1 DEF ReadSwap, WriteHolders, At
  <2>6. seen' \in [Thread -> 0..(WriteBit - 1)] /\ spinPc' \in [Thread -> Steps]
    BY <1>1, ReaderLimitAssumption, ThreadsCount DEF ReadSwap, WriteBit
  <2>7. SpinInv'
    <3>1. SpinTypeOK'
      BY <1>1, <2>1, <2>4, <2>5, <2>6, ReaderLimitAssumption DEF WriteBit
    <3>2. WordOfReaders' /\ writerId' = At(spinPc, {"writing"})'
      BY <1>1, <2>1, <2>2, <2>4, <2>5 DEF WordOfReaders
    <3> QED
      BY <2>2, <3>1, <3>2
  <2>8. SpinPromise!LockForRead(t)
    BY <2>1, <2>2 DEF SpinPromise!LockForRead
  <2> QED
    BY <2>7, <2>8 DEF SpinSimulates, SpinPromise!Next
<1>2. CASE lockInfo # seen[t] /\ Again(t, "readSwap", "readCheck") /\ UNCHANGED lockInfo
  <2>1. seen' \in [Thread -> 0..(WriteBit - 1)] /\ tries' \in [Thread -> BOOLEAN]
    BY <1>2, ReaderLimitAssumption, ThreadsCount DEF ReadSwap, WriteBit
  <2>2. PICK to \in {"free", "readCheck"} : Goto(spinPc, t, "readSwap", to)
    BY <1>2
  <2> QED
    BY <1>2, <2>1, <2>2, SpinPrivateStep DEF ReadSwap, SpinSimulates, SpinPromise!rwVars
<1> QED
  BY <1>1, <1>2 DEF ReadSwap

LEMMA SpinSwapForWrite ==
  ASSUME SpinInv, NEW t \in Thread, WriteSwap(t)
  PROVE  SpinInv' /\ SpinSimulates
<1> USE DEF SpinInv, SpinTypeOK, Goto, Again, Steps
<1>1. CASE lockInfo = 0 /\ Goto(spinPc, t, "writeSwap", "writeOwn") /\ lockInfo' = WriteBit
           /\ UNCHANGED <<writerId, seen, tries>>
  <2>1. WriteHolders = {} /\ Cardinality(ReadHolders) = 0
    BY <1>1, ReaderLimitAssumption, ThreadsCount DEF WordOfReaders, WordOfWriter, WriteBit
  <2>2. ReadHolders = {}
    BY <2>1, ThreadsCount DEF ReadHolders, At
  <2>3. /\ ReadHolders' = {} /\ WriteHolders' = {t}
        /\ UNCHANGED At(spinPc, {"writing"})
    BY <1>1, <2>1, <2>2 DEF ReadHolders, WriteHolders, At
  <2>4. SpinInv'
    BY <1>1, <2>3, ReaderLimitAssumption, ThreadsCount DEF WordOfReaders, WordOfWriter, WriteBit
  <2>5. SpinPromise!LockForWrite(t)
    BY <2>1, <2>2, <2>3 DEF SpinPromise!LockForWrite
  <2> QED
    BY <2>4, <2>5 DEF SpinSimulates, SpinPromise!Next
<1>2. CASE lockInfo # 0 /\ Again(t, "writeSwap", "writeCheck")
           /\ UNCHANGED <<lockInfo, writerId, seen, tries>>
  <2>1. PICK to \in {"free", "writeCheck"} : Goto(spinPc, t, "writeSwap", to)
    BY <1>2
  <2> QED
    BY <1>2, <2>1, SpinPrivateStep DEF SpinSimulates, SpinPromise!rwVars
<1> QED
  BY <1>1, <1>2 DEF WriteSwap

LEMMA SpinReleases ==
  ASSUME SpinInv, NEW t \in Thread, Release(t)
  PROVE  SpinInv' /\ SpinSimulates
<1> USE DEF SpinInv, SpinTypeOK, Goto, Steps
<1>0. WriteBit \in Nat /\ WriteBit > 0
  BY ReaderLimitAssumption, ThreadsCount DEF WriteBit
<1>1. CASE SpinUnlockRead(t)
  <2>1. t \in ReadHolders /\ WriteHolders = {} /\ lockInfo = Cardinality(ReadHolders)
    BY <1>1 DEF SpinUnlockRead, WordOfReaders, WordOfWriter, ReadHolders, At
  <2>2. /\ ReadHolders' = ReadHolders \ {t} /\ WriteHolders' = {}
        /\ At(spinPc, {"writing"}) = {} /\ At(spinPc, {"writing"})' = {}
    BY <1>1, <2>1 DEF SpinUnlockRead, ReadHolders, WriteHolders, At
  <2>3. ReadHolders \in SUBSET Thread
    BY DEF ReadHolders, At
  <2>4. /\ Cardinality(ReadHolders) \in Nat /\ Cardinality(ReadHolders) < WriteBit
        /\ Cardinality(ReadHolders) # 0
        /\ Cardinality(ReadHolders') = Cardinality(ReadHolders) - 1
    BY <2>1, <2>2, <2>3, ThreadsCount DEF WriteBit
  <2>5. lockInfo - 1 \in Nat /\ lockInfo - 1 < 2 * WriteBit /\ 2 * WriteBit \in Nat
    BY <1>0, <2>1, <2>4
  <2>6. lockInfo' = lockInfo - 1
    BY <1>1, <2>5, SmallModulo DEF SpinUnlockRead
  <2>7. SpinInv'
    <3>1. SpinTypeOK'
      BY <1>0, <1>1, <2>1, <2>4, <2>6 DEF SpinUnlockRead
    <3>2. WordOfReaders' /\ writerId' = At(spinPc, {"writing"})'
      BY <1>1, <2>1, <2>2, <2>4, <2>6 DEF SpinUnlockRead, WordOfReaders
    <3> QED
      BY <2>2, <3>1, <3>2
  <2>8. SpinPromise!UnlockRead(t)
    BY <2>1, <2>2 DEF SpinPromise!UnlockRead
  <2> QED
    BY <2>7, <2>8 DEF SpinSimulates, SpinPromise!Next
<1>2. CASE SpinUnlockWrite(t)
  <2>1. /\ t \in WriteHolders /\ At(spinPc, {"writing"})' = {}
        /\ UNCHANGED <<ReadHolders, WriteHolders>>
    BY <1>2 DEF SpinUnlockWrite, ReadHolders, WriteHolders, At
  <2> QED
    BY <1>2, <2>1 DEF SpinUnlockWrite, WordOfReaders, WordOfWriter, SpinSimulates,
       SpinPromise!rwVars
<1>3. CASE ReleaseWord(t)
  <2>1. t \in WriteHolders /\ ReadHolders = {}
    BY <1>3 DEF ReleaseWord, WriteHolders, WordOfWriter, At
  <2>2. ReadHolders' = {} /\ WriteHolders' = {}
    BY <1>3, <2>1 DEF ReleaseWord, ReadHolders, WriteHolders, At
  <2>3. At(spinPc, {"writing"}) = {} /\ At(spinPc, {"writing"})' = {}
    BY <1>3, <2>1, <2>2 DEF ReleaseWord, WriteHolders, At
  <2>4. Cardinality({}) = 0
    BY FS_EmptySet
  <2>5. SpinInv'
    <3>1. SpinTypeOK'
      BY <1>0, <1>3 DEF ReleaseWord
    <3>2. WordOfReaders' /\ writerId' = At(spinPc, {"writing"})'
      BY <1>3, <2>2, <2>3, <2>4 DEF ReleaseWord, WordOfReaders
    <3> QED
      BY <2>2, <3>1, <3>2
  <2>6. SpinPromise!UnlockWrite(t)
    BY <2>1, <2>2 DEF SpinPromise!UnlockWrite
  <2> QED
    BY <2>5, <2>6 DEF SpinSimulates, SpinPromise!Next
<1> QED
  BY <1>1, <1>2, <1>3 DEF Release

LEMMA SpinStepInv ==
  ASSUME SpinInv, [SpinNext]_spinVars
  PROVE  SpinInv' /\ SpinSimulates
<1> USE DEF SpinInv, SpinTypeOK
<1>0. WriteBit \in Nat /\ WriteBit > 0
  BY ReaderLimitAssumption, ThreadsCount DEF WriteBit
<1>1. ASSUME NEW t \in Thread, Call(t)
      PROVE  SpinInv' /\ SpinSimulates
  <2>1. PICK to \in {"readCheck", "writeCheck"} : Goto(spinPc, t, "free", to)
    BY <1>1 DEF Call, CallForRead, CallForWrite
  <2>2. UNCHANGED <<lockInfo, writerId, seen>> /\ tries' \in [Thread -> BOOLEAN]
    BY <1>1 DEF Call, CallForRead, CallForWrite
  <2> QED
    BY <2>1, <2>2, SpinPrivateStep DEF SpinSimulates, SpinPromise!rwVars, Steps
<1>2. ASSUME NEW t \in Thread, ReadCheck(t) \/ ReadLoad(t) \/ WriteCheck(t)
      PROVE  SpinInv' /\ SpinSimulates
  <2>1. PICK from \in {"readCheck", "readLoad", "writeCheck"},
             to \in {"free", "readCheck", "readLoad", "readSwap", "writeCheck", "writeSwap"} :
               Goto(spinPc, t, from, to)
    BY <1>2 DEF ReadCheck, ReadLoad, WriteCheck, Again
  <2>2. Readers(lockInfo) \in 0..(WriteBit - 1)
    BY <1>0 DEF Readers
  <2>3. UNCHANGED <<lockInfo, writerId, tries>> /\ seen' \in [Thread -> 0..(WriteBit - 1)]
    BY <1>2, <2>2 DEF ReadCheck, ReadLoad, WriteCheck
  <2> QED
    BY <2>1, <2>3, SpinPrivateStep DEF SpinSimulates, SpinPromise!rwVars, Steps
<1>3. ASSUME NEW t \in Thread, WriteOwn(t)
      PROVE  SpinInv' /\ SpinSimulates
  <2>1. /\ t \in WriteHolders /\ At(spinPc, {"writing"})' = {t}
        /\ UNCHANGED <<ReadHolders, WriteHolders>>
    BY <1>3 DEF WriteOwn, Goto, ReadHolders, WriteHolders, At
  <2> QED
    BY <1>3, <2>1 DEF WriteOwn, Goto, WordOfReaders, WordOfWriter, SpinSimulates,
       SpinPromise!rwVars, Steps
<1>4. CASE UNCHANGED spinVars
  <2>1. UNCHANGED <<ReadHolders, WriteHolders>> /\ UNCHANGED At(spinPc, {"writing"})
    BY <1>4 DEF spinVars, ReadHolders, WriteHolders, At
  <2> QED
    BY <1>4, <2>1 DEF spinVars, WordOfReaders, WordOfWriter, SpinSimulates, SpinPromise!rwVars
<1> QED
  BY <1>1, <1>2, <1>3, <1>4, SpinSwapForRead, SpinSwapForWrite, SpinReleases
     DEF SpinNext, Acquire

LEMMA SpinInvariance == SpinSpec => []SpinInv
BY SpinInitInv, SpinStepInv, PTL DEF SpinSpec

-----------------------------------------------------------------------------
(***************************************************************************)
(* The word, and what readers note of it, stay within their widths.        *)
(***************************************************************************)
THEOREM SpinTyped == SpinSpec => []SpinTypeOK
<1>1. SpinInv => SpinTypeOK
  BY DEF SpinInv
<1> QED
  BY <1>1, SpinInvariance, PTL

(***************************************************************************)
(* The count in the word is the number of threads that read, its bit says  *)
(* whether one writes, and m_writerId names that one, for as many threads  *)
(* as the count can hold.                                                  *)
(***************************************************************************)
THEOREM SpinWordTrue == SpinSpec => []WordCountsHolders
<1>1. SpinInv => WordCountsHolders
  <2> SUFFICES ASSUME SpinInv
               PROVE  WordCountsHolders
    OBVIOUS
  <2>1. /\ WriteBit \in Nat /\ WriteBit > 0
        /\ Cardinality(ReadHolders) \in Nat /\ Cardinality(ReadHolders) < WriteBit
    BY ReaderLimitAssumption, ThreadsCount DEF WriteBit, ReadHolders, At
  <2>2. Readers(lockInfo) = Cardinality(ReadHolders) /\ (IsWriting(lockInfo) <=> WriteHolders # {})
    <3>1. CASE WriteHolders = {}
      BY <2>1, <3>1, SmallModulo DEF SpinInv, WordOfReaders, Readers, IsWriting
    <3>2. CASE WriteHolders # {}
      BY <2>1, <3>2, ModuloItself, FS_EmptySet DEF SpinInv, WordOfWriter, Readers, IsWriting
    <3> QED
      BY <3>1, <3>2
  <2>3. At(spinPc, {"writing"}) \subseteq writerId /\ (ReadHolders # {} => writerId = {})
    BY DEF SpinInv, WordOfWriter, WriteHolders, At
  <2> QED
    BY <2>2, <2>3 DEF WordCountsHolders
<1> QED
  BY <1>1, SpinInvariance, PTL

(***************************************************************************)
(* CThreadSpinRWLock implements RWLock: readers and writers exclude each   *)
(* other, from the successful swap of either to the store that gives the   *)
(* word back.                                                              *)
(***************************************************************************)
THEOREM SpinRefines == SpinSpec => SpinLockImplementsRWLock
<1>1. SpinInit => SpinPromise!Init
  BY DEF SpinInit, SpinPromise!Init, ReadHolders, WriteHolders, At
<1>2. SpinInv /\ [SpinNext]_spinVars => [SpinPromise!Next]_SpinPromise!rwVars
  BY SpinStepInv DEF SpinSimulates
<1> QED
  BY <1>1, <1>2, SpinInvariance, PTL
     DEF SpinSpec, SpinLockImplementsRWLock, SpinPromise!Spec

-----------------------------------------------------------------------------
(***************************************************************************)
(* CThreadRWLock for any finite set of threads: its counts are true, the   *)
(* right to write is passed on and never doubled, no reader is forgotten,  *)
(* and it implements RWLock.  The invariant adds to the checked ones that  *)
(* holders exclude each other, on which they all rest.                     *)
(***************************************************************************)
Exclusion ==
  /\ \A t, u \in Writing : t = u
  /\ Writing # {} => Reading = {}

RWInv ==
  /\ RWTypeOK
  /\ CountsHold
  /\ OneWriteToken
  /\ ReadersAreWoken
  /\ Exclusion

Writers == WaitingToWrite \cup Writing

\* What the counts say of the sets they count.
LEMMA CountsSay ==
  ASSUME RWInv
  PROVE  /\ nWriters = 0 <=> Writers = {}
         /\ nActiveReaders = 0 <=> Reading = {}
         /\ nPendingReaders = 0 <=> Pending = {}
<1>1. Writers \in SUBSET Thread /\ Reading \in SUBSET Thread /\ Pending \in SUBSET Thread
  BY DEF Writers, WaitingToWrite, Writing, Reading, Pending, At
<1> QED
  BY <1>1, ThreadsCount DEF RWInv, CountsHold, Writers

(***************************************************************************)
(* The counts after a step of thread t: each set of threads gains t, loses *)
(* it or stays, and its count goes with it.                                *)
(***************************************************************************)
Counted(S, n) ==
  \/ S' = S /\ n' = n
  \/ \E t \in Thread \ S : S' = S \cup {t} /\ n' = n + 1
  \/ \E t \in S : S' = S \ {t} /\ n' = n - 1

LEMMA CountsFollow ==
  ASSUME RWInv, Counted(Reading, nActiveReaders), Counted(Pending, nPendingReaders),
         Counted(Writers, nWriters)
  PROVE  /\ CountsHold'
         /\ nActiveReaders' \in Nat /\ nPendingReaders' \in Nat /\ nWriters' \in Nat
<1>1. Writers \in SUBSET Thread /\ Reading \in SUBSET Thread /\ Pending \in SUBSET Thread
  BY DEF Writers, WaitingToWrite, Writing, Reading, Pending, At
<1>2. nActiveReaders' = Cardinality(Reading') /\ nActiveReaders' \in Nat
  <2>1. nActiveReaders = Cardinality(Reading) /\ nActiveReaders \in Nat
    BY <1>1, ThreadsCount DEF RWInv, CountsHold
  <2>2. CASE Reading' = Reading /\ nActiveReaders' = nActiveReaders
    BY <2>1, <2>2
  <2>3. ASSUME NEW t \in Thread \ Reading, Reading' = Reading \cup {t}, nActiveReaders' = nActiveReaders + 1
        PROVE  nActiveReaders' = Cardinality(Reading') /\ nActiveReaders' \in Nat
    BY <1>1, <2>1, <2>3, ThreadsCount
  <2>4. ASSUME NEW t \in Reading, Reading' = Reading \ {t}, nActiveReaders' = nActiveReaders - 1
        PROVE  nActiveReaders' = Cardinality(Reading') /\ nActiveReaders' \in Nat
    <3>1. Reading \ {t} \in SUBSET Thread /\ Cardinality(Reading \ {t}) = nActiveReaders - 1
      BY <1>1, <2>1, <2>4, ThreadsCount
    <3> QED
      BY <2>4, <3>1, ThreadsCount
  <2> QED
    BY <2>2, <2>3, <2>4 DEF Counted
<1>3. nPendingReaders' = Cardinality(Pending') /\ nPendingReaders' \in Nat
  <2>1. nPendingReaders = Cardinality(Pending) /\ nPendingReaders \in Nat
    BY <1>1, ThreadsCount DEF RWInv, CountsHold
  <2>2. CASE Pending' = Pending /\ nPendingReaders' = nPendingReaders
    BY <2>1, <2>2
  <2>3. ASSUME NEW t \in Thread \ Pending, Pending' = Pending \cup {t}, nPendingReaders' = nPendingReaders + 1
        PROVE  nPendingReaders' = Cardinality(Pending') /\ nPendingReaders' \in Nat
    BY <1>1, <2>1, <2>3, ThreadsCount
  <2>4. ASSUME NEW t \in Pending, Pending' = Pending \ {t}, nPendingReaders' = nPendingReaders - 1
        PROVE  nPendingReaders' = Cardinality(Pending') /\ nPendingReaders' \in Nat
    <3>1. Pending \ {t} \in SUBSET Thread /\ Cardinality(Pending \ {t}) = nPendingReaders - 1
      BY <1>1, <2>1, <2>4, ThreadsCount
    <3> QED
      BY <2>4, <3>1, ThreadsCount
  <2> QED
    BY <2>2, <2>3, <2>4 DEF Counted
<1>4. nWriters' = Cardinality(Writers') /\ nWriters' \in Nat
  <2>1. nWriters = Cardinality(Writers) /\ nWriters \in Nat
    BY <1>1, ThreadsCount DEF RWInv, CountsHold, Writers
  <2>2. CASE Writers' = Writers /\ nWriters' = nWriters
    BY <2>1, <2>2
  <2>3. ASSUME NEW t \in Thread \ Writers, Writers' = Writers \cup {t}, nWriters' = nWriters + 1
        PROVE  nWriters' = Cardinality(Writers') /\ nWriters' \in Nat
    BY <1>1, <2>1, <2>3, ThreadsCount
  <2>4. ASSUME NEW t \in Writers, Writers' = Writers \ {t}, nWriters' = nWriters - 1
        PROVE  nWriters' = Cardinality(Writers') /\ nWriters' \in Nat
    <3>1. Writers \ {t} \in SUBSET Thread /\ Cardinality(Writers \ {t}) = nWriters - 1
      BY <1>1, <2>1, <2>4, ThreadsCount
    <3> QED
      BY <2>4, <3>1, ThreadsCount
  <2> QED
    BY <2>2, <2>3, <2>4 DEF Counted
<1> QED
  BY <1>2, <1>3, <1>4 DEF CountsHold, Writers

-----------------------------------------------------------------------------
RWSimulates == [RWPromise!Next]_RWPromise!rwVars

LEMMA RWInitInv == RWInit => RWInv
<1> SUFFICES ASSUME RWInit
             PROVE  RWInv
  OBVIOUS
<1>1. /\ Reading = {} /\ Writing = {} /\ WaitingToWrite = {} /\ Pending = {}
      /\ At(rwPc, {"waitRead"}) = {}
  BY DEF RWInit, Reading, Writing, WaitingToWrite, Pending, At
<1>2. Cardinality({}) = 0
  BY FS_EmptySet
<1> QED
  BY <1>1, <1>2 DEF RWInit, RWInv, RWTypeOK, CountsHold, OneWriteToken, ReadersAreWoken,
     Exclusion

LEMMA RWReads ==
  ASSUME RWInv, NEW t \in Thread,
         LockForRead(t) \/ CanReadWait(t) \/ RelockForRead(t) \/ UnlockRead(t)
  PROVE  RWInv' /\ RWSimulates
<1> USE DEF RWInv, RWTypeOK
<1>1. CASE LockForRead(t) /\ nWriters = 0
  <2>1. /\ t \notin Reading /\ Reading' = Reading \cup {t}
        /\ UNCHANGED <<Writing, WaitingToWrite, Pending, At(rwPc, {"waitRead"})>>
    BY <1>1 DEF LockForRead, Goto, Reading, Writing, WaitingToWrite, Pending, At
  <2>2. /\ nActiveReaders' = nActiveReaders + 1
        /\ UNCHANGED <<nPendingReaders, nWriters, canRead, canWrite>>
        /\ rwPc' = [rwPc EXCEPT ![t] = "reading"]
    BY <1>1 DEF LockForRead, Goto
  <2>3. Writing = {} /\ WaitingToWrite = {}
    BY <1>1, CountsSay DEF Writers
  <2>4. CountsHold' /\ RWTypeOK'
    BY <2>1, <2>2, CountsFollow DEF Counted, Writers
  <2>5. OneWriteToken' /\ ReadersAreWoken' /\ Exclusion'
    BY <2>1, <2>2, <2>3 DEF OneWriteToken, ReadersAreWoken, Exclusion
  <2>6. RWPromise!LockForRead(t)
    BY <2>1, <2>3 DEF RWPromise!LockForRead
  <2> QED
    BY <2>4, <2>5, <2>6 DEF RWSimulates, RWPromise!Next
<1>2. CASE LockForRead(t) /\ nWriters # 0
  <2>1. /\ t \notin Pending /\ Pending' = Pending \cup {t}
        /\ UNCHANGED <<Reading, Writing, WaitingToWrite>>
    BY <1>2 DEF LockForRead, Goto, Reading, Writing, WaitingToWrite, Pending, At
  <2>2. /\ nPendingReaders' = nPendingReaders + 1
        /\ UNCHANGED <<nActiveReaders, nWriters, canRead, canWrite>>
        /\ rwPc' = [rwPc EXCEPT ![t] = "waitRead"]
    BY <1>2 DEF LockForRead, Goto
  <2>3. CountsHold' /\ RWTypeOK'
    BY <2>1, <2>2, CountsFollow DEF Counted, Writers
  <2>4. OneWriteToken' /\ ReadersAreWoken' /\ Exclusion'
    BY <1>2, <2>1, <2>2 DEF OneWriteToken, ReadersAreWoken, Exclusion
  <2> QED
    BY <2>1, <2>3, <2>4 DEF RWSimulates, RWPromise!rwVars
<1>3. CASE CanReadWait(t) \/ (RelockForRead(t) /\ nWriters # 0)
  <2>1. UNCHANGED <<Reading, Writing, WaitingToWrite, Pending>>
    BY <1>3 DEF CanReadWait, RelockForRead, Goto, Reading, Writing, WaitingToWrite, Pending, At
  <2>2. /\ UNCHANGED <<nPendingReaders, nActiveReaders, nWriters, canRead, canWrite>>
        /\ nWriters # 0 \/ canRead
        /\ rwPc' \in [Thread -> {"free", "waitRead", "relock", "reading", "waitWrite",
                                 "writing"}]
    BY <1>3 DEF CanReadWait, RelockForRead, Goto, counts
  <2>3. CountsHold' /\ RWTypeOK'
    BY <2>1, <2>2, CountsFollow DEF Counted, Writers
  <2>4. OneWriteToken' /\ ReadersAreWoken' /\ Exclusion'
    BY <2>1, <2>2 DEF OneWriteToken, ReadersAreWoken, Exclusion
  <2> QED
    BY <2>1, <2>3, <2>4 DEF RWSimulates, RWPromise!rwVars
<1>4. CASE RelockForRead(t) /\ nWriters = 0
  <2>1. /\ t \notin Reading /\ Reading' = Reading \cup {t}
        /\ t \in Pending /\ Pending' = Pending \ {t}
        /\ UNCHANGED <<Writing, WaitingToWrite>> /\ UNCHANGED At(rwPc, {"waitRead"})
    BY <1>4 DEF RelockForRead, Goto, Reading, Writing, WaitingToWrite, Pending, At
  <2>2. /\ nActiveReaders' = nActiveReaders + 1 /\ nPendingReaders' = nPendingReaders - 1
        /\ UNCHANGED <<nWriters, canRead, canWrite>>
        /\ rwPc' = [rwPc EXCEPT ![t] = "reading"]
    BY <1>4 DEF RelockForRead, Goto
  <2>3. Writing = {} /\ WaitingToWrite = {}
    BY <1>4, CountsSay DEF Writers
  <2>4. CountsHold' /\ RWTypeOK'
    BY <2>1, <2>2, CountsFollow DEF Counted, Writers
  <2>5. OneWriteToken' /\ ReadersAreWoken' /\ Exclusion'
    BY <2>1, <2>2, <2>3 DEF OneWriteToken, ReadersAreWoken, Exclusion
  <2>6. RWPromise!LockForRead(t)
    BY <2>1, <2>3 DEF RWPromise!LockForRead
  <2> QED
    BY <2>4, <2>5, <2>6 DEF RWSimulates, RWPromise!Next
<1>5. CASE UnlockRead(t)
  <2>1. /\ t \in Reading /\ Reading' = Reading \ {t}
        /\ UNCHANGED <<Writing, WaitingToWrite, Pending>> /\ UNCHANGED At(rwPc, {"waitRead"})
    BY <1>5 DEF UnlockRead, Goto, Reading, Writing, WaitingToWrite, Pending, At
  <2>2. /\ nActiveReaders' = nActiveReaders - 1
        /\ UNCHANGED <<nPendingReaders, nWriters, canRead>>
        /\ rwPc' = [rwPc EXCEPT ![t] = "free"]
    BY <1>5 DEF UnlockRead, Goto
  <2>3. Writing = {} /\ canWrite = FALSE
    BY <2>1 DEF Exclusion, OneWriteToken
  <2>4. CountsHold' /\ nActiveReaders' \in Nat
    BY <2>1, <2>2, CountsFollow DEF Counted, Writers
  <2>5. nActiveReaders' = 0 <=> Reading' = {}
    <3>1. Reading' \in SUBSET Thread
      BY <2>1 DEF Reading, At
    <3> QED
      BY <2>4, <3>1, ThreadsCount DEF CountsHold
  <2>6. nWriters # 0 <=> WaitingToWrite # {}
    BY <2>3, CountsSay DEF Writers
  <2>7. canWrite' \in BOOLEAN /\ (canWrite' <=> Reading' = {} /\ WaitingToWrite # {})
    <3>1. canWrite' = (canWrite \/ (nActiveReaders' = 0 /\ nWriters # 0))
      BY <1>5 DEF UnlockRead
    <3> QED
      BY <2>3, <2>5, <2>6, <3>1, Zenon
  <2>8. OneWriteToken' /\ ReadersAreWoken' /\ Exclusion'
    BY <2>1, <2>2, <2>3, <2>7 DEF OneWriteToken, ReadersAreWoken, Exclusion
  <2>9. RWPromise!UnlockRead(t)
    BY <2>1 DEF RWPromise!UnlockRead
  <2> QED
    BY <2>2, <2>4, <2>7, <2>8, <2>9 DEF RWSimulates, RWPromise!Next
<1> QED
  BY <1>1, <1>2, <1>3, <1>4, <1>5

LEMMA RWWrites ==
  ASSUME RWInv, NEW t \in Thread,
         LockForWrite(t) \/ CanWriteWait(t) \/ UnlockWrite(t)
  PROVE  RWInv' /\ RWSimulates
<1> USE DEF RWInv, RWTypeOK
<1>1. CASE LockForWrite(t) /\ nWriters = 0 /\ nActiveReaders = 0
  <2>1. /\ t \notin Writing /\ Writing' = Writing \cup {t}
        /\ UNCHANGED <<Reading, WaitingToWrite, Pending>>
    BY <1>1 DEF LockForWrite, Goto, Reading, Writing, WaitingToWrite, Pending, At
  <2>2. /\ nWriters' = nWriters + 1 /\ canRead' = FALSE
        /\ UNCHANGED <<nPendingReaders, nActiveReaders, canWrite>>
        /\ rwPc' = [rwPc EXCEPT ![t] = "writing"]
    BY <1>1 DEF LockForWrite, Goto
  <2>3. Writing = {} /\ WaitingToWrite = {} /\ Reading = {}
    BY <1>1, CountsSay DEF Writers
  <2>4. t \notin Writers /\ Writers' = Writers \cup {t}
    BY <2>1, <2>3 DEF Writers
  <2>5. CountsHold' /\ RWTypeOK'
    BY <2>1, <2>2, <2>4, CountsFollow DEF Counted
  <2>6. OneWriteToken' /\ ReadersAreWoken' /\ Exclusion'
    BY <2>1, <2>2, <2>3 DEF OneWriteToken, ReadersAreWoken, Exclusion
  <2>7. RWPromise!LockForWrite(t)
    BY <2>1, <2>3 DEF RWPromise!LockForWrite
  <2> QED
    BY <2>5, <2>6, <2>7 DEF RWSimulates, RWPromise!Next
<1>2. CASE LockForWrite(t) /\ ~(nWriters = 0 /\ nActiveReaders = 0)
  <2>1. /\ t \notin WaitingToWrite /\ WaitingToWrite' = WaitingToWrite \cup {t}
        /\ t \notin Writing
        /\ UNCHANGED <<Reading, Writing, Pending>>
    BY <1>2 DEF LockForWrite, Goto, Reading, Writing, WaitingToWrite, Pending, At
  <2>2. /\ nWriters' = nWriters + 1 /\ canRead' = FALSE
        /\ UNCHANGED <<nPendingReaders, nActiveReaders, canWrite>>
        /\ rwPc' = [rwPc EXCEPT ![t] = "waitWrite"]
    BY <1>2 DEF LockForWrite, Goto
  <2>3. Writers # {} \/ Reading # {}
    BY <1>2, CountsSay
  <2>4. t \notin Writers /\ Writers' = Writers \cup {t}
    BY <2>1 DEF Writers
  <2>5. CountsHold' /\ RWTypeOK'
    BY <2>1, <2>2, <2>4, CountsFollow DEF Counted
  <2>6. OneWriteToken' /\ ReadersAreWoken' /\ Exclusion'
    BY <2>1, <2>2, <2>3 DEF OneWriteToken, ReadersAreWoken, Exclusion, Writers
  <2> QED
    BY <2>1, <2>5, <2>6 DEF RWSimulates, RWPromise!rwVars
<1>3. CASE CanWriteWait(t)
  <2>1. /\ t \in WaitingToWrite /\ Writing' = Writing \cup {t}
        /\ WaitingToWrite' = WaitingToWrite \ {t}
        /\ UNCHANGED <<Reading, Pending>>
    BY <1>3 DEF CanWriteWait, Goto, Reading, Writing, WaitingToWrite, Pending, At
  <2>2. /\ canWrite /\ canWrite' = FALSE
        /\ UNCHANGED <<nPendingReaders, nActiveReaders, nWriters, canRead>>
        /\ rwPc' = [rwPc EXCEPT ![t] = "writing"]
    BY <1>3 DEF CanWriteWait, Goto, counts
  <2>3. Writing = {} /\ Reading = {}
    BY <2>2 DEF OneWriteToken
  <2>4. Writers' = Writers
    BY <2>1 DEF Writers
  <2>5. CountsHold' /\ RWTypeOK'
    BY <2>1, <2>2, <2>4, CountsFollow DEF Counted
  <2>6. nWriters # 0
    BY <2>1, CountsSay DEF Writers
  <2>7. OneWriteToken' /\ ReadersAreWoken' /\ Exclusion'
    BY <2>1, <2>2, <2>3, <2>6 DEF OneWriteToken, ReadersAreWoken, Exclusion
  <2>8. RWPromise!LockForWrite(t)
    BY <2>1, <2>3 DEF RWPromise!LockForWrite
  <2> QED
    BY <2>5, <2>7, <2>8 DEF RWSimulates, RWPromise!Next
<1>4. CASE UnlockWrite(t)
  <2>1. /\ t \in Writing /\ Writing' = Writing \ {t} /\ t \notin WaitingToWrite
        /\ UNCHANGED <<Reading, WaitingToWrite, Pending>> /\ UNCHANGED At(rwPc, {"waitRead"})
    BY <1>4 DEF UnlockWrite, Goto, Reading, Writing, WaitingToWrite, Pending, At
  <2>2. /\ nWriters' = nWriters - 1
        /\ UNCHANGED <<nPendingReaders, nActiveReaders>>
        /\ rwPc' = [rwPc EXCEPT ![t] = "free"]
    BY <1>4 DEF UnlockWrite, Goto
  <2>3. Writing' = {} /\ Reading = {} /\ canWrite = FALSE
    BY <2>1 DEF Exclusion, OneWriteToken
  <2>4. Writers' = Writers \ {t} /\ t \in Writers /\ Writers' = WaitingToWrite
    BY <2>1, <2>3 DEF Writers
  <2>5. CountsHold' /\ nWriters' \in Nat
    BY <2>1, <2>2, <2>4, CountsFollow DEF Counted
  <2>6. nWriters' = 0 <=> WaitingToWrite = {}
    <3>1. nWriters' = Cardinality(WaitingToWrite)
      BY <2>4, <2>5 DEF CountsHold, Writers
    <3>2. WaitingToWrite \in SUBSET Thread
      BY DEF WaitingToWrite, At
    <3> QED
      BY <3>1, <3>2, ThreadsCount
  <2>7. canWrite' \in BOOLEAN /\ (canWrite' <=> WaitingToWrite # {})
    <3>1. canWrite' = (canWrite \/ nWriters' # 0)
      BY <1>4 DEF UnlockWrite
    <3> QED
      BY <2>3, <2>6, <3>1, Zenon
  <2>8. canRead' \in BOOLEAN /\ (nWriters' = 0 /\ Pending # {} => canRead')
    <3>1. canRead' = (canRead \/ (nWriters' = 0 /\ nPendingReaders # 0))
      BY <1>4 DEF UnlockWrite
    <3>2. nPendingReaders = 0 <=> Pending = {}
      BY CountsSay
    <3> QED
      BY <3>1, <3>2, Zenon
  <2>9. At(rwPc, {"waitRead"}) \subseteq Pending
    BY DEF Pending, At
  <2>10. OneWriteToken' /\ ReadersAreWoken' /\ Exclusion'
    BY <2>1, <2>2, <2>3, <2>7, <2>8, <2>9 DEF OneWriteToken, ReadersAreWoken, Exclusion
  <2>11. RWPromise!UnlockWrite(t)
    BY <2>1, <2>3 DEF RWPromise!UnlockWrite
  <2> QED
    BY <2>2, <2>5, <2>7, <2>8, <2>10, <2>11 DEF RWSimulates, RWPromise!Next
<1> QED
  BY <1>1, <1>2, <1>3, <1>4

LEMMA RWStepInv ==
  ASSUME RWInv, [RWNext]_rwVars
  PROVE  RWInv' /\ RWSimulates
<1>1. CASE UNCHANGED rwVars
  <2>1. /\ UNCHANGED <<Reading, Writing, WaitingToWrite, Pending>>
        /\ UNCHANGED At(rwPc, {"waitRead"})
    BY <1>1 DEF rwVars, Reading, Writing, WaitingToWrite, Pending, At
  <2> QED
    BY <1>1, <2>1 DEF rwVars, RWInv, RWTypeOK, CountsHold, OneWriteToken, ReadersAreWoken,
       Exclusion, RWSimulates, RWPromise!rwVars
<1> QED
  BY <1>1, RWReads, RWWrites DEF RWNext, Waking, Unlock

LEMMA RWInvariance == RWSpec => []RWInv
BY RWInitInv, RWStepInv, PTL DEF RWSpec

-----------------------------------------------------------------------------
(***************************************************************************)
(* No count of CThreadRWLock is ever negative.                             *)
(***************************************************************************)
THEOREM RWTyped == RWSpec => []RWTypeOK
<1>1. RWInv => RWTypeOK
  BY DEF RWInv
<1> QED
  BY <1>1, RWInvariance, PTL

(***************************************************************************)
(* m_nActiveReaders, m_nPendingReaders and m_nWriters count the threads    *)
(* they are about; the signal of m_CanWrite, which is the right to write,  *)
(* is there when the lock is free and a writer waits, and never else; and  *)
(* once no writer is left, the readers that wait are signaled.             *)
(***************************************************************************)
THEOREM RWNobodyForgotten == RWSpec => []NobodyIsForgotten
<1>1. RWInv => NobodyIsForgotten
  BY DEF RWInv, NobodyIsForgotten
<1> QED
  BY <1>1, RWInvariance, PTL

(***************************************************************************)
(* CThreadRWLock implements RWLock.                                        *)
(***************************************************************************)
THEOREM RWRefines == RWSpec => RWLockImplementsPromise
<1>1. RWInit => RWPromise!Init
  BY DEF RWInit, RWPromise!Init, Reading, Writing, At
<1>2. RWInv /\ [RWNext]_rwVars => [RWPromise!Next]_RWPromise!rwVars
  BY RWStepInv DEF RWSimulates
<1> QED
  BY <1>1, <1>2, RWInvariance, PTL DEF RWSpec, RWLockImplementsPromise, RWPromise!Spec

-----------------------------------------------------------------------------
(***************************************************************************)
(* CThreadEvent implements SyncEvent for any set of threads and both kinds *)
(* of event.  The two facts a step needs are in EventInv: the flag that    *)
(* the loop of Wait looks at is up only while the event is set, and only a *)
(* wait that may time out has timed out.                                   *)
(***************************************************************************)
EventInv ==
  /\ EventTypeOK
  /\ wake => cSet = 1
  /\ \A t \in Thread : eventPc[t] = "woken" /\ ret[t] = "timedout" => Polls(t)

LEMMA EventInitInv == EventInit => EventInv
BY DEF EventInit, EventInv, EventTypeOK

\* What Return leaves behind.
LEMMA ReturnFlag ==
  ASSUME NEW t \in Thread, NEW bRet \in BOOLEAN, EventInv, Return(t, bRet)
  PROVE  /\ wake' \in BOOLEAN
         /\ wake' => wake /\ ~bRet
         /\ cSet' \in {0, 1}
         /\ wake' => cSet' = 1
<1>1. wake' \in BOOLEAN /\ (wake' => wake /\ ~bRet)
  BY ZenonT(20) DEF Return
<1>2. cSet' \in {0, 1} /\ (~bRet => cSet' = cSet)
  BY DEF Return, EventInv, EventTypeOK
<1> QED
  BY <1>1, <1>2 DEF EventInv

LEMMA EventStepInv == EventInv /\ [EventNext]_eventVars => EventInv'
<1> SUFFICES ASSUME EventInv, [EventNext]_eventVars
             PROVE  EventInv'
  OBVIOUS
<1> USE DEF EventInv, EventTypeOK, Polls, Blocked
<1>1. ASSUME Set, UNCHANGED manualReset
      PROVE  EventInv'
  BY <1>1 DEF Set, Signal
<1>2. ASSUME Reset, UNCHANGED manualReset
      PROVE  EventInv'
  BY <1>2 DEF Reset
<1>3. ASSUME NEW t \in Thread, NEW limit \in {"none", "some"}, Wait(t, limit),
             UNCHANGED manualReset
      PROVE  EventInv'
  <2>1. CASE cSet > 0
    <3>0. cSet # 0
      BY <2>1
    <3>1. Return(t, TRUE)
      BY <1>3, <3>0 DEF Wait
    <3>2. eventPc' = [eventPc EXCEPT ![t] = "free"]
      BY <3>1 DEF Return
    <3> QED
      BY <1>3, <3>1, <3>2, ReturnFlag DEF Wait
  <2>2. CASE cSet = 0
    BY <1>3, <2>2 DEF Wait
  <2> QED
    BY <2>1, <2>2
<1>4. ASSUME NEW t \in Thread, TimeOut(t), UNCHANGED manualReset
      PROVE  EventInv'
  BY <1>4 DEF TimeOut, Wakeup
<1>5. ASSUME NEW t \in Thread, SpuriousWakeup(t), UNCHANGED manualReset
      PROVE  EventInv'
  BY <1>5 DEF SpuriousWakeup, Wakeup
<1>6. ASSUME NEW t \in Thread, TimeOutWithSignal(t), UNCHANGED manualReset
      PROVE  EventInv'
  BY <1>6 DEF TimeOutWithSignal
<1>7. ASSUME NEW t \in Thread, WaitLoop(t), UNCHANGED manualReset
      PROVE  EventInv'
  <2>1. CASE StaysInLoop(t)
    BY <1>7, <2>1 DEF WaitLoop, StaysInLoop
  <2>2. CASE ~StaysInLoop(t)
    <3>1. Return(t, ret[t] = "ok")
      BY <1>7, <2>2 DEF WaitLoop
    <3>2. eventPc' = [eventPc EXCEPT ![t] = "free"]
      BY <3>1 DEF Return
    <3> QED
      BY <1>7, <3>1, <3>2, ReturnFlag DEF WaitLoop
  <2> QED
    BY <2>1, <2>2
<1>8. CASE UNCHANGED eventVars
  BY <1>8 DEF eventVars
<1> QED
  BY <1>1, <1>2, <1>3, <1>4, <1>5, <1>6, <1>7, <1>8 DEF EventNext, Waiter

LEMMA EventInvariance == EventSpec => []EventInv
BY EventInitInv, EventStepInv, PTL DEF EventSpec

-----------------------------------------------------------------------------
(***************************************************************************)
(* m_cSet is 0 or 1, and what the threads note of a wait stays in range.   *)
(***************************************************************************)
THEOREM EventTyped == EventSpec => []EventTypeOK
<1>1. EventInv => EventTypeOK
  BY DEF EventInv
<1> QED
  BY <1>1, EventInvariance, PTL

-----------------------------------------------------------------------------
(***************************************************************************)
(* Behind NoWakeupLost: the flag of an event that resets itself is up as   *)
(* long as the event is set, and who is on the way to a signal has not     *)
(* timed out.                                                              *)
(***************************************************************************)
OnTheWay == \E u \in Thread : eventPc[u] = "woken" /\ ret[u] = "ok"

SignalInv ==
  /\ EventInv
  /\ ~manualReset /\ cSet = 1 => wake
  /\ cSet = 1 /\ lost = FALSE => \A t \in Blocked : Polls(t) \/ OnTheWay

LEMMA SignalStepInv == SignalInv /\ [EventNext]_eventVars => SignalInv'
<1> SUFFICES ASSUME SignalInv, [EventNext]_eventVars
             PROVE  SignalInv'
  OBVIOUS
<1>0. EventInv'
  BY EventStepInv DEF SignalInv
<1> USE DEF SignalInv, EventInv, EventTypeOK, Polls, Blocked, OnTheWay
<1>1. ASSUME Set, UNCHANGED manualReset
      PROVE  SignalInv'
  BY <1>0, <1>1 DEF Set, Signal
<1>2. ASSUME Reset, UNCHANGED manualReset
      PROVE  SignalInv'
  BY <1>0, <1>2 DEF Reset
<1>3. ASSUME NEW t \in Thread, NEW limit \in {"none", "some"}, Wait(t, limit),
             UNCHANGED manualReset
      PROVE  SignalInv'
  <2>1. CASE cSet > 0
    <3>0. cSet # 0
      BY <2>1
    <3>1. Return(t, TRUE)
      BY <1>3, <3>0 DEF Wait
    <3>2. /\ eventPc' = [eventPc EXCEPT ![t] = "free"]
          /\ cSet' = IF manualReset THEN cSet ELSE 0
      BY <3>1 DEF Return
    <3> QED
      BY <1>0, <1>3, <3>2 DEF Wait
  <2>2. CASE cSet = 0
    <3>1. cSet' = 0
      BY <1>3, <2>2 DEF Wait, Return
    <3> QED
      BY <1>0, <3>1
  <2>3. cSet > 0 \/ cSet = 0
    OBVIOUS
  <2> QED
    BY <2>1, <2>2, <2>3, Zenon
<1>4. ASSUME NEW t \in Thread, TimeOut(t), UNCHANGED manualReset
      PROVE  SignalInv'
  <2>1. UNCHANGED <<cSet, wake, timeout, lost>>
    BY <1>4 DEF TimeOut, Wakeup
  <2>2. /\ eventPc[t] = "blocked"
        /\ eventPc' = [eventPc EXCEPT ![t] = "woken"]
        /\ ret' = [ret EXCEPT ![t] = "timedout"]
    BY <1>4 DEF TimeOut, Wakeup
  <2>3. Blocked' \subseteq Blocked /\ (OnTheWay => OnTheWay')
    BY <2>2
  <2>4. \A u \in Thread : Polls(u) => Polls(u)'
    BY <1>4, <2>1
  <2> QED
    BY <1>0, <1>4, <2>1, <2>3, <2>4
<1>5. ASSUME NEW t \in Thread, SpuriousWakeup(t), UNCHANGED manualReset
      PROVE  SignalInv'
  BY <1>0, <1>5 DEF SpuriousWakeup, Wakeup
<1>6. ASSUME NEW t \in Thread, TimeOutWithSignal(t), UNCHANGED manualReset
      PROVE  SignalInv'
  BY <1>0, <1>6 DEF TimeOutWithSignal
<1>7. ASSUME NEW t \in Thread, WaitLoop(t), UNCHANGED manualReset
      PROVE  SignalInv'
  <2>1. CASE StaysInLoop(t)
    BY <1>0, <1>7, <2>1 DEF WaitLoop, StaysInLoop
  <2>2. CASE ~StaysInLoop(t) /\ ret[t] = "ok"
    <3>1. Return(t, TRUE)
      BY <1>7, <2>2 DEF WaitLoop
    <3>2. /\ eventPc' = [eventPc EXCEPT ![t] = "free"]
          /\ cSet' = IF manualReset THEN cSet ELSE 0
      BY <3>1 DEF Return
    <3> QED
      BY <1>0, <1>7, <3>2 DEF WaitLoop
  <2>3. CASE ~StaysInLoop(t) /\ ret[t] # "ok"
    <3>1. Return(t, FALSE)
      BY <1>7, <2>3 DEF WaitLoop
    <3>2. /\ eventPc' = [eventPc EXCEPT ![t] = "free"]
          /\ cSet' = cSet
      BY <3>1 DEF Return
    <3>3. wake' = wake
      BY <3>1, Zenon DEF Return
    <3>4. UNCHANGED <<timeout, ret, lost>>
      BY <1>7 DEF WaitLoop
    <3>5. ASSUME OnTheWay
          PROVE  OnTheWay'
      BY <2>3, <3>2, <3>4, <3>5
    <3>6. Blocked' \subseteq Blocked
      BY <3>2
    <3>7. \A u \in Thread : Polls(u) => Polls(u)'
      BY <1>7, <3>4
    <3> QED
      BY <1>0, <1>7, <3>2, <3>3, <3>4, <3>5, <3>6, <3>7
  <2> QED
    BY <2>1, <2>2, <2>3
<1>8. CASE UNCHANGED eventVars
  BY <1>0, <1>8 DEF eventVars
<1> QED
  BY <1>1, <1>2, <1>3, <1>4, <1>5, <1>6, <1>7, <1>8 DEF EventNext, Waiter

(***************************************************************************)
(* While the event is set, a thread that sleeps for it without a limit has *)
(* somebody on the way who will take the signal, unless a wait that timed  *)
(* out used one up.                                                        *)
(***************************************************************************)
THEOREM EventWakes == EventSpec => []NoWakeupLost
<1>1. EventInit => SignalInv
  BY EventInitInv DEF EventInit, SignalInv, Blocked
<1>2. SignalInv => NoWakeupLost
  BY DEF SignalInv, EventInv, EventTypeOK, NoWakeupLost, OnTheWay
<1> QED
  BY <1>1, <1>2, SignalStepInv, PTL DEF EventSpec

-----------------------------------------------------------------------------
\* Every step of CThreadEvent is a step of SyncEvent or changes nothing of it.
LEMMA EventStepSimulation ==
  EventInv /\ [EventNext]_eventVars => [EventPromise!Next]_EventPromise!eventVars
<1> SUFFICES ASSUME EventInv, [EventNext]_eventVars
             PROVE  [EventPromise!Next]_EventPromise!eventVars
  OBVIOUS
<1> USE DEF EventInv, EventTypeOK, Polls, Blocked, Waiters
<1>1. ASSUME Set, UNCHANGED manualReset
      PROVE  EventPromise!Set /\ UNCHANGED manualReset
  BY <1>1 DEF Set, Signal, EventPromise!Set
<1>2. ASSUME Reset, UNCHANGED manualReset
      PROVE  EventPromise!Reset /\ UNCHANGED manualReset
  BY <1>2 DEF Reset, EventPromise!Reset
<1>3. ASSUME NEW t \in Thread, NEW limit \in {"none", "some"}, Wait(t, limit),
             UNCHANGED manualReset
      PROVE  EventPromise!Pass(t) \/ EventPromise!Wait(t)
  <2>1. CASE cSet > 0
    BY <1>3, <2>1 DEF Wait, Return, EventPromise!Pass
  <2>2. CASE cSet = 0
    BY <1>3, <2>2 DEF Wait, EventPromise!Wait
  <2> QED
    BY <2>1, <2>2
<1>4. ASSUME NEW t \in Thread, TimeOut(t) \/ SpuriousWakeup(t) \/ TimeOutWithSignal(t),
             UNCHANGED manualReset
      PROVE  UNCHANGED EventPromise!eventVars
  BY <1>4 DEF TimeOut, SpuriousWakeup, TimeOutWithSignal, Wakeup, EventPromise!eventVars
<1>5. ASSUME NEW t \in Thread, WaitLoop(t), UNCHANGED manualReset
      PROVE  \/ EventPromise!Wake(t) \/ EventPromise!GiveUp(t)
             \/ UNCHANGED EventPromise!eventVars
  <2>1. CASE StaysInLoop(t)
    BY <1>5, <2>1 DEF WaitLoop, EventPromise!eventVars
  <2>2. CASE ~StaysInLoop(t) /\ ret[t] = "ok"
    BY <1>5, <2>2 DEF WaitLoop, StaysInLoop, Return, EventPromise!Wake, EventPromise!Leave
  <2>3. CASE ~StaysInLoop(t) /\ ret[t] # "ok" /\ timeout[t] = "some"
    BY <1>5, <2>3 DEF WaitLoop, StaysInLoop, Return, EventPromise!GiveUp, EventPromise!Leave
  <2>4. CASE ~StaysInLoop(t) /\ ret[t] # "ok" /\ timeout[t] = "none"
    BY <1>5, <2>4 DEF WaitLoop, StaysInLoop, Return, EventPromise!Wake, EventPromise!Leave
  <2> QED
    BY <2>1, <2>2, <2>3, <2>4
<1>6. CASE UNCHANGED eventVars
  BY <1>6 DEF eventVars, EventPromise!eventVars
<1> QED
  BY <1>1, <1>2, <1>3, <1>4, <1>5, <1>6 DEF EventNext, Waiter, EventPromise!Next

(***************************************************************************)
(* CThreadEvent as built for POSIX implements SyncEvent, whatever wakeups  *)
(* for nothing, late signals and time-outs the condition variable adds.    *)
(***************************************************************************)
THEOREM EventRefines == EventSpec => EventImplementsPromise
<1>1. EventInit => EventPromise!Init
  BY DEF EventInit, EventPromise!Init, Waiters
<1> QED
  BY <1>1, EventInvariance, EventStepSimulation, PTL
     DEF EventSpec, EventImplementsPromise, EventPromise!Spec

-----------------------------------------------------------------------------
(***************************************************************************)
(* CWorkerThread: a call gets its own answer.  The channel has no sequence *)
(* numbers, so the invariant says what each of its four cells holds at every*)
(* pair of places of the master and the worker, for as long as nobody has  *)
(* given up waiting; who is in a call has m_Lock, and the worker cannot end*)
(* meanwhile.                                                              *)
(***************************************************************************)
\* Nothing of a call is in the channel, and the worker is at none.
Quiet == workerPc \in {"off", "wait", "exit"} /\ ~sendEvent

\* The worker has answered the call c, and has not begun another.
Answered(c) ==
  /\ workerPc \in {"wait", "exit"}
  /\ ~sendEvent /\ completeEvent /\ param = 0 /\ returnVal = c

\* How far the call c has come, by where the worker is.
Served(c) ==
  \/ /\ workerPc \in {"wait", "fetch", "serve", "exit"}
     /\ sendEvent /\ ~completeEvent /\ param = c
     /\ workerPc = "serve" => taken = c
  \/ /\ workerPc \in {"value", "unsend"}
     /\ sendEvent /\ ~completeEvent /\ param = 0 /\ taken = c
     /\ workerPc = "unsend" => returnVal = c
  \/ /\ workerPc = "signal"
     /\ ~sendEvent /\ ~completeEvent /\ param = 0 /\ returnVal = c
  \/ Answered(c)

\* The state of the channel at each step of the call of t.
ChannelAt(t) ==
  /\ callPc[t] = "param" => Quiet /\ param = 0
  /\ callPc[t] = "reset" => Quiet /\ param = call[t]
  /\ callPc[t] = "send" => Quiet /\ ~completeEvent /\ param = call[t]
  /\ callPc[t] \in {"complete", "exited", "drop"} => Served(call[t])
  /\ callPc[t] = "return" => Answered(call[t])

\* What holds as long as nobody has given up.
Patient ==
  /\ returnVal # TIMEOUT
  /\ \A t \in Client : result[t] # TIMEOUT
  /\ \A t \in Client : callPc[t] \notin {"idle", "lock"} => mLock = {t}
  /\ mLock = {} => Quiet /\ param = 0
  /\ \A t \in Client : ChannelAt(t)

CallInv ==
  /\ WorkerTypeOK
  /\ mLock = {} \/ \E t \in Client : mLock = {t}
  /\ alive <=> workerPc # "off"
  /\ Locked => alive
  /\ ~gaveUp => Patient
  /\ AnswersOwnCall

LEMMA CallInitInv == WorkerInit => CallInv
<1>1. Cardinality({}) = 0
  BY FS_EmptySet
<1> SUFFICES ASSUME WorkerInit
             PROVE  CallInv
  OBVIOUS
<1>2. WorkerTypeOK
  <2>1. {alive, exitEvent, sendEvent, completeEvent, gaveUp} \subseteq BOOLEAN
    BY DEF WorkerInit
  <2>2. 0 \in 0..CallMax /\ 0 \in 0..RunMax
    BY CallsAssumption
  <2> QED
    BY <1>1, <2>1, <2>2 DEF WorkerInit, WorkerTypeOK
<1>3. Patient /\ AnswersOwnCall
  BY DEF WorkerInit, Patient, ChannelAt, Quiet, AnswersOwnCall, TIMEOUT
<1> QED
  BY <1>2, <1>3 DEF WorkerInit, CallInv, Locked

LEMMA CallStepInv == CallInv /\ [WorkerNext]_workerThreadVars => CallInv'
<1> SUFFICES ASSUME CallInv, [WorkerNext]_workerThreadVars
             PROVE  CallInv'
  OBVIOUS
<1> USE CallsAssumption DEF CallInv, WorkerTypeOK, Locked, Patient, ChannelAt, Quiet, Answered,
     Served, AnswersOwnCall, TIMEOUT, FAIL, Goto, channel, masterVars, workerVars
<1>0. Cardinality({}) = 0 /\ \A t \in Client : Cardinality({t}) = 1
  BY FS_EmptySet, FS_Singleton
<1>1. ASSUME NEW t \in Client, BeginCall(t)
      PROVE  CallInv'
  BY <1>0, <1>1 DEF BeginCall
<1>2. ASSUME NEW t \in Client, AwaitReply(t)
      PROVE  CallInv'
  BY <1>0, <1>2 DEF AwaitReply
<1>3. ASSUME NEW t \in Client, LockCall(t)
      PROVE  CallInv'
  BY <1>0, <1>3 DEF LockCall
<1>4. ASSUME NEW t \in Client, SetParam(t)
      PROVE  CallInv'
  BY <1>0, <1>4 DEF SetParam
<1>5. ASSUME NEW t \in Client, ResetComplete(t)
      PROVE  CallInv'
  <2>1. WorkerTypeOK' /\ Locked' = Locked /\ alive' = alive /\ workerPc' = workerPc
    BY <1>0, <1>5 DEF ResetComplete
  <2>2. ~gaveUp' => Patient'
    BY <1>0, <1>5 DEF ResetComplete
  <2> QED
    BY <2>1, <2>2, <1>0, <1>5 DEF ResetComplete
<1>6. ASSUME NEW t \in Client, SetSend(t)
      PROVE  CallInv'
  BY <1>0, <1>6 DEF SetSend
<1>7. ASSUME NEW t \in Client, PollComplete(t)
      PROVE  CallInv'
  BY <1>0, <1>7 DEF PollComplete
<1>8. ASSUME NEW t \in Client, PollExit(t)
      PROVE  CallInv'
  BY <1>0, <1>8 DEF PollExit
<1>9. ASSUME NEW t \in Client, TimeOutReply(t)
      PROVE  CallInv'
  BY <1>0, <1>9 DEF TimeOutReply
<1>10. ASSUME NEW t \in Client, DropSend(t)
      PROVE  CallInv'
  <2>1. WorkerTypeOK' /\ Locked' = Locked /\ alive' = alive /\ workerPc' = workerPc
    BY <1>0, <1>10 DEF DropSend
  <2>2. ~gaveUp' => Patient'
    BY <1>0, <1>10 DEF DropSend
  <2> QED
    BY <2>1, <2>2, <1>0, <1>10 DEF DropSend
<1>11. ASSUME NEW t \in Client, ReturnLate(t)
      PROVE  CallInv'
  BY <1>0, <1>11 DEF ReturnLate
<1>12. ASSUME NEW t \in Client, ReturnResult(t)
      PROVE  CallInv'
  BY <1>0, <1>12 DEF ReturnResult
<1>13. CASE StartWorker
  BY <1>0, <1>13 DEF StartWorker
<1>14. CASE WaitForCall
  BY <1>0, <1>14 DEF WaitForCall, Work
<1>15. CASE FetchParam
  BY <1>0, <1>15 DEF FetchParam, Work
<1>16. CASE Reply
  <2>1. CASE ClearParam
    BY <1>0, <2>1 DEF ClearParam, Work
  <2>2. CASE SetReturnVal
    BY <1>0, <2>2 DEF SetReturnVal, Work
  <2>3. CASE ResetSend
    BY <1>0, <2>3 DEF ResetSend, Work
  <2>4. CASE SetComplete
    BY <1>0, <2>4 DEF SetComplete, Work
  <2> QED
    BY <1>16, <2>1, <2>2, <2>3, <2>4 DEF Reply
<1>17. CASE LeaveRun
  BY <1>0, <1>17 DEF LeaveRun, Work
<1>18. CASE EndThread
  BY <1>0, <1>18 DEF EndThread
<1>19. CASE UNCHANGED workerThreadVars
  BY <1>0, <1>19 DEF workerThreadVars
<1> QED
  BY <1>1, <1>2, <1>3, <1>4, <1>5, <1>6, <1>7, <1>8, <1>9, <1>10, <1>11, <1>12, <1>13,
     <1>14, <1>15, <1>16, <1>17, <1>18, <1>19 DEF WorkerNext, Master

LEMMA CallInvariance == WorkerSpec => []CallInv
BY CallInitInv, CallStepInv, PTL DEF WorkerSpec

(***************************************************************************)
(* The channel, the two program counters and the lock keep their types; a  *)
(* thread that has m_Lock is in a call.                                    *)
(***************************************************************************)
THEOREM CallsTyped == WorkerSpec => []WorkerTypeOK
<1>1. CallInv => WorkerTypeOK
  BY DEF CallInv
<1> QED
  BY <1>1, CallInvariance, PTL

(***************************************************************************)
(* As long as nobody gives up waiting, every call returns the answer to    *)
(* itself and leaves the channel clean for the next, for any number of     *)
(* masters, calls, and ends and restarts of the worker between them.       *)
(***************************************************************************)
THEOREM CallsGetOwnAnswer == WorkerSpec => []CallsAreAnswered
<1>1. CallInv => CleanBetweenCalls
  BY DEF CallInv, WorkerTypeOK, Patient, Quiet, CleanBetweenCalls
<1>2. CallInv => AnswersOwnCall
  BY DEF CallInv
<1> QED
  BY <1>1, <1>2, CallInvariance, PTL DEF CallsAreAnswered

-----------------------------------------------------------------------------
(***************************************************************************)
(* CThread built for POSIX: the owner knows its thread.  What a Start may  *)
(* conclude depends on which of its two locals the thread has written last,*)
(* so the invariant ties both to the place of the thread (Reported), and says*)
(* that all threads before the latest have ended.                          *)
(***************************************************************************)
\* The thread that the object knows runs; one that it does not know has ended.
Known ==
  IF threadId # 0
  THEN threadId = started /\ started \in Proc /\ procPc[started] \in {"run", "exit"}
  ELSE started \in Proc => procPc[started] = "ended"

\* What the thread of a Start has written, by where it is.
Reported ==
  /\ procPc[started] \in {"begin", "init", "report", "signal"} => ~complete
  /\ procPc[started] \in {"run", "exit", "ended"} => complete
  /\ procPc[started] \in {"run", "exit"} => initResult[started]
  /\ procPc[started] = "ended" => ~initResult[started]

Orderly ==
  /\ \A n \in Proc : n < started => procPc[n] = "ended"
  /\ ownerPc \in {"idle", "join"} => Known
  /\ ownerPc = "create" => threadId = 0 /\ Known /\ ~complete
  /\ ownerPc \in {"assume", "wait", "check"} =>
       threadId = started /\ started \in Proc /\ Reported
  /\ ownerPc \in {"wait", "check"} /\ procPc[started] \in {"signal", "run", "exit", "ended"} =>
       (initSuccess <=> initResult[started])
  /\ ownerPc = "check" => procPc[started] \in {"run", "exit", "ended"}

StartInv ==
  /\ StartTypeOK
  /\ ownerPc = "create" => started < StartMax
  /\ mishap = {} => Orderly

LEMMA StartInitInv == StartInit => StartInv
<1> SUFFICES ASSUME StartInit
             PROVE  StartInv
  OBVIOUS
<1>1. StartTypeOK
  <2>1. startResult \in BOOLEAN /\ initSuccess \in BOOLEAN /\ complete \in BOOLEAN
        /\ initResult \in [Proc -> BOOLEAN]
    BY Zenon DEF StartInit
  <2>2. \A n \in Proc : procPc[n] = "none" <=> n > started
    BY StartAssumption DEF StartInit, Proc
  <2> QED
    BY <2>1, <2>2, StartAssumption DEF StartInit, StartTypeOK
<1>2. Orderly
  BY DEF StartInit, Orderly, Known, Proc
<1> QED
  BY <1>1, <1>2 DEF StartInit, StartInv

LEMMA StartStepInv == StartInv /\ [StartNext]_startVars => StartInv'
<1> SUFFICES ASSUME StartInv, [StartNext]_startVars
             PROVE  StartInv'
  OBVIOUS
<1> USE StartAssumption DEF StartInv, StartTypeOK, Orderly, Known, Reported, Proc, InStart,
     OwnerGoes, ProcGoes
<1>1. CASE Start
  BY <1>1 DEF Start
<1>2. CASE Join
  BY <1>2 DEF Join
<1>3. CASE CreateThread
  BY <1>3 DEF CreateThread
<1>4. CASE AssumeSuccess
  BY <1>4 DEF AssumeSuccess
<1>5. CASE WaitForCreateComplete
  BY <1>5 DEF WaitForCreateComplete
<1>6. CASE CheckInit
  BY <1>6 DEF CheckInit
<1>7. CASE ThreadJoin
  BY <1>7 DEF ThreadJoin
<1>8. ASSUME NEW n \in Proc, BeginInit(n)
      PROVE  StartInv'
  BY <1>8 DEF BeginInit
<1>9. ASSUME NEW n \in Proc, NEW ok \in BOOLEAN, InitProc(n, ok)
      PROVE  StartInv'
  BY <1>9 DEF InitProc
<1>10. ASSUME NEW n \in Proc, ReportInit(n)
      PROVE  StartInv'
  BY <1>10 DEF ReportInit
<1>11. ASSUME NEW n \in Proc, SignalComplete(n)
      PROVE  StartInv'
  BY <1>11 DEF SignalComplete
<1>12. ASSUME NEW n \in Proc, Stop(n)
      PROVE  StartInv'
  BY <1>12 DEF Stop
<1>13. ASSUME NEW n \in Proc, LeaveProc(n)
      PROVE  StartInv'
  BY <1>13 DEF LeaveProc
<1>14. ASSUME NEW n \in Proc, ExitProc(n)
      PROVE  StartInv'
  BY <1>14 DEF ExitProc
<1>15. CASE UNCHANGED startVars
  BY <1>15 DEF startVars
<1> QED
  BY <1>1, <1>2, <1>3, <1>4, <1>5, <1>6, <1>7, <1>8, <1>9, <1>10, <1>11, <1>12, <1>13,
     <1>14, <1>15 DEF StartNext, Owner, ThreadProc

LEMMA StartInvariance == StartSpec => []StartInv
BY StartInitInv, StartStepInv, PTL DEF StartSpec

LEMMA InvKnows == StartInv => KnowsItsThread
  BY StartAssumption DEF StartInv, StartTypeOK, Orderly, Known, Proc, KnowsItsThread, Alive

(***************************************************************************)
(* The owner, the object and its threads keep their types; threads exist   *)
(* up to the number of those started.                                      *)
(***************************************************************************)
THEOREM StartsTyped == StartSpec => []StartTypeOK
<1>1. StartInv => StartTypeOK
  BY DEF StartInv
<1> QED
  BY <1>1, StartInvariance, PTL

(***************************************************************************)
(* Between two calls of the owner the object knows the one thread that     *)
(* runs, and Join waits for that one, over any number of starts, failures  *)
(* of Init, ends and joins, unless a Start timed out or raced with its     *)
(* thread, or somebody called Stop.                                        *)
(***************************************************************************)
THEOREM OwnerKnows == StartSpec => OwnerKeepsTrack
<1>1. StartInv /\ StartInv' /\ [StartNext]_startVars
        => [mishap' = {} /\ Join => Alive \subseteq {joining'}]_startVars
  BY InvKnows DEF Join, OwnerGoes, KnowsItsThread
<1> QED
  BY <1>1, InvKnows, StartInvariance, PTL DEF StartSpec, OwnerKeepsTrack, JoinsTheRunning

-----------------------------------------------------------------------------
(***************************************************************************)
(* MessageQueue and TSList, the two linked lists of tier0: each list, read *)
(* by its pointers, is a sequence that the operations change as the        *)
(* abstract queue and stack say.                                           *)
(***************************************************************************)
\* s is the list that begins with first: each node points to the next one, the
\* last to none, and none is there twice.
IsChain(link, first, s) ==
  /\ s \in Seq(DOMAIN link)
  /\ s = <<>> => first \notin DOMAIN link
  /\ s # <<>> => first = s[1] /\ link[s[Len(s)]] \notin DOMAIN link
  /\ \A i \in 1..Len(s) - 1 : link[s[i]] = s[i + 1]
  /\ \A i, j \in 1..Len(s) : s[i] = s[j] => i = j

LEMMA LongerType ==
  ASSUME NEW link, NEW D, D = DOMAIN link, NEW s \in Seq(D)
  PROVE  Longer(link, s) \in Seq(D)
<1>1. link[s[Len(s)]] \in D => Append(s, link[s[Len(s)]]) \in Seq(D)
  BY AppendProperties
<1> QED
  BY <1>1 DEF Longer

\* The parts of the list that Chain goes through.
ChainParts(link, first, D, f) ==
  /\ \A n \in Nat : f[n] \in Seq(D)
  /\ f[0] = IF first \in D THEN <<first>> ELSE <<>>
  /\ \A n \in Nat : f[n + 1] = Longer(link, f[n])
  /\ Chain(link, first) = f[Cardinality(D)]

LEMMA ChainSteps ==
  ASSUME NEW link, NEW first, NEW D, D = DOMAIN link
  PROVE  \E f : ChainParts(link, first, D, f)
<1> DEFINE S == Seq(D)
           a == IF first \in D THEN <<first>> ELSE <<>>
           F == [s \in S |-> Longer(link, s)]
           Def(f) == f = [n \in Nat |-> IF n = 0 THEN a ELSE Longer(link, f[n - 1])]
           g == CHOOSE f : Def(f)
<1>1. a \in S
  <2>1. CASE first \in D
    BY <2>1
  <2>2. CASE first \notin D
    BY <2>2
  <2> QED
    BY <2>1, <2>2
<1>2. F \in [S -> S] /\ \A s \in S : F[s] = Longer(link, s)
  BY LongerType
<1>3. \E f : Def(f)
  <2> HIDE DEF S, a, F
  <2>1. PICK f \in [Nat -> S] : IsIteration(F, a, f)
    BY <1>1, <1>2, IterationExists
  <2>2. \A n \in Nat : n # 0 => f[n - 1] \in S
    OBVIOUS
  <2>3. \A n \in Nat : n # 0 => F[f[n - 1]] = Longer(link, f[n - 1])
    BY <1>2, <2>2
  <2>4. f = [n \in Nat |-> IF n = 0 THEN a ELSE Longer(link, f[n - 1])]
    BY <2>1, <2>3 DEF IsIteration
  <2> QED
    BY <2>4
<1>4. Def(g)
  <2> HIDE DEF Def
  <2> QED BY <1>3
<1>5. g[0] = a /\ \A n \in Nat : g[n + 1] = Longer(link, g[n])
  <2> HIDE DEF g, a
  <2> QED BY <1>4
<1>6. \A n \in Nat : g[n] \in S
  <2> DEFINE T == {n \in Nat : g[n] \in S}
  <2> HIDE DEF g, a, S
  <2>1. 0 \in T
    BY <1>1, <1>5
  <2>2. ASSUME NEW n \in Nat, n \in T
        PROVE  n + 1 \in T
    <3>1. Longer(link, g[n]) \in S
      BY <2>2, LongerType DEF S
    <3> QED
      BY <1>5, <3>1
  <2> QED
    <3> HIDE DEF T
    <3>1. Nat \subseteq T
      BY <2>1, <2>2, NumbersInduction
    <3> QED
      BY <3>1 DEF T
<1>7. Chain(link, first) = g[Cardinality(D)]
  BY Zenon DEF Chain
<1> QED
  <2> HIDE DEF g
  <2> QED BY <1>5, <1>6, <1>7 DEF ChainParts

LEMMA ChainIs ==
  ASSUME NEW link, IsFiniteSet(DOMAIN link), NEW first, NEW s, IsChain(link, first, s)
  PROVE  Chain(link, first) = s
<1>1. PICK D : D = DOMAIN link
  OBVIOUS
<1>2. PICK f : ChainParts(link, first, D, f)
  BY <1>1, ChainSteps
<1>3. \A n \in Nat : n + 1 \in Nat /\ f[n] \in Seq(D) /\ f[n + 1] \in Seq(D)
  BY <1>2 DEF ChainParts
<1>4. \A n \in Nat : f[n + 1] = Longer(link, f[n])
  BY <1>2 DEF ChainParts
<1>5. f[0] = IF first \in D THEN <<first>> ELSE <<>>
  BY <1>2 DEF ChainParts
<1>6. s \in Seq(D) /\ Len(s) \in Nat /\ \A i \in 1..Len(s) : s[i] \in D
  BY <1>1 DEF IsChain
<1> DEFINE P(n) == /\ Len(f[n]) = IF n < Len(s) THEN n + 1 ELSE Len(s)
                   /\ \A i \in 1..Len(f[n]) : f[n][i] = s[i]
           T == {n \in Nat : P(n)}
<1>7. 0 \in T
  <2>1. CASE s = <<>>
    <3>1. f[0] = <<>>
      BY <1>1, <1>5, <2>1 DEF IsChain
    <3> QED
      BY <2>1, <3>1
  <2>2. CASE s # <<>>
    <3>1. f[0] = <<s[1]>> /\ Len(s) > 0
      <4>1. first = s[1] /\ Len(s) > 0
        BY <1>6, <2>2 DEF IsChain
      <4>2. first \in D
        BY <1>6, <4>1
      <4> QED
        BY <1>5, <4>1, <4>2
    <3>2. Len(f[0]) = 1 /\ f[0][1] = s[1]
      BY <3>1
    <3>3. P(0)
      BY <1>6, <3>1, <3>2
    <3> QED
      BY <3>3
  <2> QED
    BY <2>1, <2>2
<1>8. ASSUME NEW n \in Nat, n \in T
      PROVE  n + 1 \in T
  <2>0. P(n)
    BY <1>8
  <2>1. f[n + 1] = Longer(link, f[n]) /\ f[n] \in Seq(D) /\ f[n + 1] \in Seq(D)
    <3>1. f[n + 1] = Longer(link, f[n])
      BY <1>4
    <3> QED
      BY <1>3, <3>1
  <2>2. CASE n + 1 < Len(s)
    <3>1. Len(f[n]) = n + 1 /\ f[n][n + 1] = s[n + 1] /\ f[n] # <<>>
      BY <1>6, <2>0, <2>1, <2>2
    <3>2. link[s[n + 1]] = s[n + 2] /\ s[n + 2] \in D
      BY <1>6, <2>2 DEF IsChain
    <3>3. f[n + 1] = Append(f[n], s[n + 2])
      BY <1>1, <2>1, <3>1, <3>2 DEF Longer
    <3>4. /\ Len(f[n + 1]) = n + 2 /\ f[n + 1][n + 2] = s[n + 2]
          /\ \A i \in 1..n + 1 : f[n + 1][i] = f[n][i]
      BY <2>1, <3>1, <3>2, <3>3, AppendProperties
    <3>5. Len(f[n + 1]) = IF n + 1 < Len(s) THEN n + 1 + 1 ELSE Len(s)
      BY <1>6, <2>2, <3>4
    <3>6. \A i \in 1..Len(f[n + 1]) : f[n + 1][i] = s[i]
      <4>1. \A i \in 1..n + 1 : f[n][i] = s[i]
        BY <2>0, <3>1
      <4>2. \A i \in 1..n + 2 : i \in 1..n + 1 \/ i = n + 2
        OBVIOUS
      <4> QED
        BY <3>4, <4>1, <4>2
    <3> QED
      BY <3>5, <3>6
  <2>3. CASE ~(n + 1 < Len(s))
    <3>1. Len(f[n]) = Len(s) /\ \A i \in 1..Len(s) : f[n][i] = s[i]
      BY <1>6, <2>0, <2>3
    <3>2. f[n] = <<>> \/ link[f[n][Len(f[n])]] \notin D
      <4>1. CASE Len(s) = 0
        BY <2>1, <3>1, <4>1, EmptySeq
      <4>2. CASE Len(s) # 0
        <5>1. f[n][Len(f[n])] = s[Len(s)] /\ s # <<>>
          BY <1>6, <3>1, <4>2
        <5> QED
          BY <1>1, <5>1 DEF IsChain
      <4> QED
        BY <4>1, <4>2
    <3>3. f[n + 1] = f[n]
      BY <1>1, <2>1, <3>2 DEF Longer
    <3>4. P(n + 1)
      BY <1>6, <2>3, <3>1, <3>3
    <3> QED
      BY <3>4
  <2> QED
    BY <2>2, <2>3
<1>9. Nat \subseteq T
  <2> HIDE DEF T
  <2> QED BY <1>7, <1>8, NumbersInduction
<1>10. Len(s) <= Cardinality(D) /\ Cardinality(D) \in Nat
  <2>1. s \in [1..Len(s) -> D] /\ \A i, j \in 1..Len(s) : s[i] = s[j] => i = j
    BY <1>6 DEF IsChain
  <2>2. s \in Injection(1..Len(s), D)
    BY <2>1 DEF Injection, IsInjective
  <2>3. IsFiniteSet(1..Len(s)) /\ Cardinality(1..Len(s)) = Len(s)
    <3>1. 1 \in Int /\ Len(s) \in Int
      BY <1>6
    <3>2. IsFiniteSet(1..Len(s)) /\ Cardinality(1..Len(s)) = IF 1 > Len(s) THEN 0 ELSE Len(s) - 1 + 1
      BY <3>1, FS_Interval
    <3> QED
      BY <1>6, <3>2
  <2> QED
    BY <1>1, <2>2, <2>3, FS_Injection, FS_CardinalityType
<1>11. f[Cardinality(D)] = s
  <2>1. P(Cardinality(D))
    BY <1>9, <1>10
  <2>2. f[Cardinality(D)] \in Seq(D) /\ Len(f[Cardinality(D)]) = Len(s)
    <3>1. f[Cardinality(D)] \in Seq(D)
      BY <1>3, <1>10
    <3>2. Len(f[Cardinality(D)]) = Len(s)
      BY <1>6, <1>10, <2>1
    <3> QED
      BY <3>1, <3>2
  <2> QED
    BY <1>6, <2>1, <2>2, SeqEqual
<1> QED
  BY <1>2, <1>11 DEF ChainParts

-----------------------------------------------------------------------------
(***************************************************************************)
(* What an operation does to a list that Chain reads.                      *)
(***************************************************************************)
LEMMA ChainKept ==
  ASSUME NEW link, NEW first, NEW s, IsChain(link, first, s),
         NEW link2, DOMAIN link2 = DOMAIN link, \A i \in 1..Len(s) : link2[s[i]] = link[s[i]]
  PROVE  IsChain(link2, first, s)
<1>1. Len(s) \in Nat /\ s # <<>> => Len(s) \in 1..Len(s)
  BY DEF IsChain
<1> QED
  BY <1>1 DEF IsChain

LEMMA ChainTail ==
  ASSUME NEW link, NEW first, NEW s, IsChain(link, first, s), first \in DOMAIN link
  PROVE  s # <<>> /\ Head(s) = first /\ IsChain(link, link[first], Tail(s))
<1>1. PICK D : D = DOMAIN link
  OBVIOUS
<1>2. s \in Seq(D) /\ s # <<>> /\ first = s[1] /\ Len(s) \in Nat /\ Len(s) > 0
  BY <1>1 DEF IsChain
<1> DEFINE r == Tail(s)
<1>3. /\ Head(s) = s[1] /\ r \in Seq(D) /\ Len(r) = Len(s) - 1
      /\ \A i \in 1..Len(s) - 1 : r[i] = s[i + 1]
  BY <1>2, HeadTailProperties
<1> HIDE DEF r
<1>4. r = <<>> => link[first] \notin D
  <2>1. r = <<>> => Len(s) = 1
    BY <1>2, <1>3
  <2> QED
    BY <1>1, <1>2, <2>1 DEF IsChain
<1>5. r # <<>> => link[first] = r[1] /\ link[r[Len(r)]] \notin D
  <2>1. r # <<>> => Len(s) > 1
    BY <1>2, <1>3, EmptySeq
  <2>2. Len(s) > 1 => link[s[1]] = s[2] /\ r[1] = s[2] /\ r[Len(s) - 1] = s[Len(s)]
    BY <1>2, <1>3 DEF IsChain
  <2> QED
    BY <1>1, <1>2, <1>3, <2>1, <2>2 DEF IsChain
<1>6. \A i \in 1..Len(r) - 1 : link[r[i]] = r[i + 1]
  BY <1>2, <1>3 DEF IsChain
<1>7. \A i, j \in 1..Len(r) : r[i] = r[j] => i = j
  BY <1>2, <1>3 DEF IsChain
<1>8. IsChain(link, link[first], r)
  BY <1>1, <1>3, <1>4, <1>5, <1>6, <1>7 DEF IsChain
<1> QED
  BY <1>2, <1>3, <1>8 DEF r

LEMMA ChainPushed ==
  ASSUME NEW link, NEW first, NEW s, IsChain(link, first, s),
         NEW n \in DOMAIN link, n \notin Members(s), link[n] = first
  PROVE  IsChain(link, n, <<n>> \o s)
<1>1. PICK D : D = DOMAIN link
  OBVIOUS
<1> DEFINE r == <<n>> \o s
<1>2. s \in Seq(D) /\ Len(s) \in Nat /\ <<n>> \in Seq(D) /\ Len(<<n>>) = 1
  BY <1>1 DEF IsChain
<1>3. /\ r \in Seq(D) /\ Len(r) = Len(s) + 1 /\ r # <<>> /\ r[1] = n
      /\ \A i \in 1..Len(s) : r[i + 1] = s[i]
  <2>1. r \in Seq(D) /\ Len(r) = 1 + Len(s)
        /\ \A i \in 1..Len(r) : r[i] = IF i <= 1 THEN <<n>>[i] ELSE s[i - 1]
    BY <1>2, ConcatProperties
  <2> QED
    BY <1>2, <2>1
<1> HIDE DEF r
<1>4. link[r[Len(r)]] \notin D
  <2>1. CASE s = <<>>
    BY <1>1, <1>3, <2>1 DEF IsChain
  <2>2. CASE s # <<>>
    <3>1. r[Len(r)] = s[Len(s)]
      BY <1>2, <1>3, <2>2
    <3> QED
      BY <1>1, <2>2, <3>1 DEF IsChain
  <2> QED
    BY <2>1, <2>2
<1>5. ASSUME NEW i \in 1..Len(r) - 1
      PROVE  link[r[i]] = r[i + 1]
  <2>1. CASE i = 1
    <3>1. s # <<>> /\ r[2] = s[1]
      BY <1>2, <1>3, <2>1
    <3> QED
      BY <1>3, <2>1, <3>1 DEF IsChain
  <2>2. CASE i # 1
    <3>1. i - 1 \in 1..Len(s) - 1 /\ r[i] = s[i - 1] /\ r[i + 1] = s[i - 1 + 1]
      BY <1>2, <1>3, <2>2
    <3> QED
      BY <3>1 DEF IsChain
  <2> QED
    BY <2>1, <2>2
<1>6. ASSUME NEW i \in 1..Len(r), NEW j \in 1..Len(r), r[i] = r[j]
      PROVE  i = j
  <2>1. \A k \in 2..Len(r) : k - 1 \in 1..Len(s) /\ r[k] = s[k - 1] /\ r[k] # n
    BY <1>2, <1>3 DEF Members
  <2>2. CASE i = 1 \/ j = 1
    BY <1>2, <1>3, <1>6, <2>1, <2>2
  <2>3. CASE i # 1 /\ j # 1
    <3>1. i - 1 \in 1..Len(s) /\ j - 1 \in 1..Len(s) /\ s[i - 1] = s[j - 1]
      BY <1>2, <1>3, <1>6, <2>1, <2>3
    <3>2. i - 1 = j - 1
      BY <3>1 DEF IsChain
    <3> QED
      BY <3>2
  <2> QED
    BY <2>2, <2>3
<1>7. IsChain(link, n, r)
  BY <1>1, <1>3, <1>4, <1>5, <1>6 DEF IsChain
<1> QED
  BY <1>7 DEF r

LEMMA ChainAppended ==
  ASSUME NEW link, NEW first, NEW s, IsChain(link, first, s), s # <<>>,
         NEW n \in DOMAIN link, n \notin Members(s), link[n] \notin DOMAIN link
  PROVE  IsChain([link EXCEPT ![s[Len(s)]] = n], first, Append(s, n))
<1>1. PICK D : D = DOMAIN link
  OBVIOUS
<1>2. s \in Seq(D) /\ Len(s) \in Nat /\ Len(s) > 0 /\ \A i \in 1..Len(s) : s[i] \in D
  BY <1>1 DEF IsChain
<1> DEFINE r == Append(s, n)
           next2 == [link EXCEPT ![s[Len(s)]] = n]
<1>3. /\ r \in Seq(D) /\ Len(r) = Len(s) + 1 /\ r # <<>> /\ r[Len(s) + 1] = n
      /\ \A i \in 1..Len(s) : r[i] = s[i]
  BY <1>1, <1>2, AppendProperties
<1>4. /\ DOMAIN next2 = D /\ next2[s[Len(s)]] = n
      /\ \A m \in D : m # s[Len(s)] => next2[m] = link[m]
  BY <1>1, <1>2
<1> HIDE DEF r, next2
<1>5. n # s[Len(s)] /\ next2[r[Len(r)]] \notin D
  BY <1>1, <1>2, <1>3, <1>4 DEF Members
<1>6. ASSUME NEW i \in 1..Len(r) - 1
      PROVE  next2[r[i]] = r[i + 1]
  <2>1. CASE i = Len(s)
    BY <1>2, <1>3, <1>4, <2>1
  <2>2. CASE i # Len(s)
    <3>1. i \in 1..Len(s) - 1 /\ i \in 1..Len(s) /\ Len(s) \in 1..Len(s)
      BY <1>2, <1>3, <2>2
    <3>2. s[i] # s[Len(s)] /\ link[s[i]] = s[i + 1]
      BY <2>2, <3>1 DEF IsChain
    <3> QED
      BY <1>2, <1>3, <1>4, <3>1, <3>2
  <2> QED
    BY <2>1, <2>2
<1>7. ASSUME NEW i \in 1..Len(r), NEW j \in 1..Len(r), r[i] = r[j]
      PROVE  i = j
  <2>1. \A k \in 1..Len(s) : r[k] = s[k] /\ s[k] # n
    BY <1>3 DEF Members
  <2>2. CASE i = Len(s) + 1 \/ j = Len(s) + 1
    BY <1>2, <1>3, <1>7, <2>1, <2>2
  <2>3. CASE i # Len(s) + 1 /\ j # Len(s) + 1
    <3>1. i \in 1..Len(s) /\ j \in 1..Len(s) /\ s[i] = s[j]
      BY <1>2, <1>3, <1>7, <2>3
    <3> QED
      BY <3>1 DEF IsChain
  <2> QED
    BY <2>2, <2>3
<1>8. first = r[1]
  BY <1>2, <1>3 DEF IsChain
<1>9. IsChain(next2, first, r)
  BY <1>3, <1>4, <1>5, <1>6, <1>7, <1>8 DEF IsChain
<1> QED
  BY <1>9 DEF r, next2

-----------------------------------------------------------------------------
(***************************************************************************)
(* CMessageQueue: the messages that wait are the chain from Head to Tail,  *)
(* and a message that was not sent yet points to none, so that it may be   *)
(* put behind the last one.                                                *)
(***************************************************************************)
QueueHolds(s) ==
  /\ Members(s) \subseteq sent
  /\ IsChain(next, head, s)
  /\ tail = IF s = <<>> THEN None ELSE s[Len(s)]

QueueInv ==
  /\ QueueTypeOK
  /\ \A m \in Message \ sent : next[m] = None
  /\ \E s : QueueHolds(s)

LEMMA QueueReads ==
  ASSUME NEW link \in [Message -> Message \cup {None}], NEW first, NEW s, IsChain(link, first, s)
  PROVE  Chain(link, first) = s /\ s \in Seq(Message)
<1>1. IsFiniteSet(DOMAIN link) /\ DOMAIN link = Message
  BY MessageAssumption
<1> QED
  BY <1>1, ChainIs DEF IsChain

LEMMA QueueInitInv == QueueInit => QueueInv /\ Waiting = <<>>
<1> SUFFICES ASSUME QueueInit
             PROVE  QueueInv /\ Waiting = <<>>
  OBVIOUS
<1>1. QueueTypeOK
  <2>1. Cardinality({}) <= 1
    BY FS_EmptySet
  <2>2. signalEvent \in BOOLEAN
    BY Zenon DEF QueueInit
  <2> QED
    BY <2>1, <2>2 DEF QueueInit, QueueTypeOK
<1>2. QueueHolds(<<>>)
  <2>1. IsChain(next, head, <<>>)
    BY MessageAssumption DEF QueueInit, IsChain
  <2> QED
    BY <2>1 DEF QueueInit, QueueHolds, Members
<1>3. \A m \in Message \ sent : next[m] = None
  BY DEF QueueInit
<1>4. Waiting = <<>>
  BY <1>1, <1>2, QueueReads DEF QueueTypeOK, QueueHolds, Waiting
<1> QED
  BY <1>1, <1>2, <1>3, <1>4 DEF QueueInv

LEMMA QueueTypeNext ==
  ASSUME QueueTypeOK, [QueueNext]_queueVars
  PROVE  QueueTypeOK'
<1>1. ASSUME NEW t \in Writer, NEW m \in Message, AppendMessage(t, m)
      PROVE  QueueTypeOK'
  <2>1. Cardinality({t}) = 1 /\ {t} \in SUBSET Writer
    BY FS_Singleton
  <2>2. signalEvent' \in BOOLEAN
    BY <1>1, Zenon DEF AppendMessage, QueueTypeOK
  <2> QED
    BY <1>1, <2>1, <2>2 DEF QueueTypeOK, AppendMessage, Goto, QueueThread
<1>2. ASSUME NEW t \in Writer, SignalMessage(t)
      PROVE  QueueTypeOK'
  <2>1. Cardinality({}) <= 1
    BY FS_EmptySet
  <2>2. signalEvent' \in BOOLEAN
    BY <1>2, Zenon DEF SignalMessage
  <2> QED
    BY <1>2, <2>1, <2>2 DEF QueueTypeOK, SignalMessage, Goto, QueueThread
<1>3. ASSUME NEW t \in Reader, CallWaitMessage(t) \/ MessageWaiting(t) \/ WaitSignal(t)
      PROVE  QueueTypeOK'
  <2>1. signalEvent' \in BOOLEAN
    BY <1>3, Zenon DEF CallWaitMessage, MessageWaiting, WaitSignal, QueueTypeOK
  <2>2. queuePc' \in [QueueThread -> {"free", "look", "wait", "take", "signal"}]
    BY <1>3 DEF CallWaitMessage, MessageWaiting, WaitSignal, QueueTypeOK, Goto, QueueThread
  <2>3. UNCHANGED <<head, tail, next, queueMutex, received, sent>>
    BY <1>3 DEF CallWaitMessage, MessageWaiting, WaitSignal
  <2> QED
    BY <2>1, <2>2, <2>3 DEF QueueTypeOK
<1>4. ASSUME NEW t \in Reader, TakeMessage(t)
      PROVE  QueueTypeOK'
  <2>1. signalEvent' \in BOOLEAN
    BY <1>4, Zenon DEF TakeMessage, QueueTypeOK
  <2>2. queuePc' \in [QueueThread -> {"free", "look", "wait", "take", "signal"}]
    BY <1>4 DEF TakeMessage, QueueTypeOK, Goto, QueueThread
  <2>3. /\ head' \in Message \cup {None} /\ tail' \in Message \cup {None}
        /\ received' \in [QueueThread -> Message \cup {None}]
    BY <1>4 DEF TakeMessage, QueueTypeOK
  <2>4. UNCHANGED <<next, queueMutex, sent>>
    BY <1>4 DEF TakeMessage
  <2> QED
    BY <2>1, <2>2, <2>3, <2>4 DEF QueueTypeOK
<1>5. CASE UNCHANGED queueVars
  BY <1>5 DEF QueueTypeOK, queueVars
<1> QED
  BY <1>1, <1>2, <1>3, <1>4, <1>5 DEF QueueNext, WritingMessage, Receiving

\* The message goes behind the last one.
LEMMA QueueAppends ==
  ASSUME QueueInv, NEW t \in Writer, NEW m \in Message, AppendMessage(t, m), QueueTypeOK'
  PROVE  QueueInv' /\ Waiting' = Append(Waiting, m)
<1>1. PICK s : QueueHolds(s)
  BY DEF QueueInv
<1>2. Waiting = s /\ s \in Seq(Message) /\ Len(s) \in Nat
  BY <1>1, QueueReads DEF QueueInv, QueueTypeOK, QueueHolds, Waiting
<1>3. m \notin sent /\ m \notin Members(s) /\ next[m] = None /\ DOMAIN next = Message
  BY <1>1 DEF QueueInv, QueueTypeOK, QueueHolds, AppendMessage
<1>4. IsChain(next', head', Append(s, m))
  <2>1. CASE s = <<>>
    <3>1. next' = next /\ head' = m /\ Append(s, m) = <<m>>
      BY <1>1, <2>1 DEF QueueHolds, AppendMessage
    <3>2. IsChain(next, m, <<m>>)
      BY <1>3, MessageAssumption DEF IsChain
    <3> QED
      BY <3>1, <3>2
  <2>2. CASE s # <<>>
    <3>1. tail = s[Len(s)] /\ tail \in Message
      BY <1>1, <1>2, <2>2 DEF QueueHolds
    <3>2. next' = [next EXCEPT ![s[Len(s)]] = m] /\ head' = head
      BY <3>1, MessageAssumption DEF AppendMessage
    <3> QED
      BY <1>1, <1>3, <2>2, <3>2, MessageAssumption, ChainAppended DEF QueueHolds
  <2> QED
    BY <2>1, <2>2
<1>5. Waiting' = Append(s, m)
  BY <1>4, QueueReads DEF QueueTypeOK, Waiting
<1>6. QueueHolds(Append(s, m))'
  <2>1. /\ Append(s, m) # <<>> /\ Len(Append(s, m)) = Len(s) + 1 /\ Append(s, m)[Len(s) + 1] = m
        /\ \A i \in 1..Len(s) + 1 : Append(s, m)[i] = s[i] \/ i = Len(s) + 1
    BY <1>2, AppendProperties
  <2>2. \A i \in 1..Len(s) + 1 : Append(s, m)[i] \in Members(s) \cup {m}
    BY <1>2, <2>1 DEF Members
  <2>3. Members(Append(s, m)) \subseteq sent'
    BY <1>1, <1>2, <2>1, <2>2 DEF QueueHolds, AppendMessage, Members
  <2>4. tail' = m
    BY DEF AppendMessage
  <2> QED
    BY <1>4, <2>1, <2>3, <2>4 DEF QueueHolds
<1>7. \A n \in Message \ sent' : next'[n] = None
  <2>1. CASE s = <<>>
    BY <1>1, <2>1 DEF QueueHolds, AppendMessage, QueueInv
  <2>2. CASE s # <<>>
    <3>1. tail = s[Len(s)] /\ tail \in sent
      BY <1>1, <1>2, <2>2 DEF QueueHolds, Members
    <3> QED
      BY <1>3, <3>1 DEF AppendMessage, QueueInv, QueueTypeOK
  <2> QED
    BY <2>1, <2>2
<1> QED
  BY <1>2, <1>5, <1>6, <1>7 DEF QueueInv

\* The first message leaves.
LEMMA QueueTakes ==
  ASSUME QueueInv, NEW t \in Reader, TakeMessage(t), head # None, QueueTypeOK'
  PROVE  /\ QueueInv'
         /\ Waiting # <<>> /\ Head(Waiting) = head /\ Waiting' = Tail(Waiting)
<1>1. PICK s : QueueHolds(s)
  BY DEF QueueInv
<1>2. Waiting = s /\ s \in Seq(Message) /\ Len(s) \in Nat /\ head \in DOMAIN next
  BY <1>1, QueueReads DEF QueueInv, QueueTypeOK, QueueHolds, Waiting
<1>3. s # <<>> /\ Head(s) = head /\ IsChain(next, next[head], Tail(s))
  BY <1>1, <1>2, ChainTail DEF QueueHolds
<1>4. head' = next[head] /\ next' = next /\ sent' = sent
      /\ tail' = IF head' = None THEN None ELSE tail
  BY DEF TakeMessage
<1>5. Waiting' = Tail(s)
  BY <1>3, <1>4, QueueReads DEF QueueTypeOK, Waiting
<1>6. QueueHolds(Tail(s))'
  <2> DEFINE r == Tail(s)
  <2>1. /\ r \in Seq(Message) /\ Len(r) = Len(s) - 1
        /\ \A i \in 1..Len(s) - 1 : r[i] = s[i + 1]
    BY <1>2, <1>3, HeadTailProperties
  <2> HIDE DEF r
  <2>2. r = <<>> <=> head' = None
    BY <1>3, <1>4, MessageAssumption DEF IsChain, r, QueueInv, QueueTypeOK
  <2>3. Members(r) \subseteq sent'
    <3>1. \A i \in 1..Len(r) : r[i] \in Members(s)
      BY <1>2, <2>1 DEF Members
    <3> QED
      BY <1>1, <1>4, <2>1, <3>1 DEF QueueHolds, Members
  <2>4. tail' = IF r = <<>> THEN None ELSE r[Len(r)]
    <3>1. r # <<>> => r[Len(r)] = s[Len(s)]
      BY <1>2, <2>1
    <3> QED
      BY <1>1, <1>3, <1>4, <2>2, <3>1 DEF QueueHolds
  <2> QED
    BY <1>3, <1>4, <2>3, <2>4 DEF QueueHolds, r
<1> QED
  BY <1>2, <1>3, <1>4, <1>5, <1>6 DEF QueueInv

LEMMA QueueKeeps ==
  ASSUME QueueInv, UNCHANGED <<head, tail, next, sent>>, QueueTypeOK'
  PROVE  QueueInv' /\ Waiting' = Waiting
<1>1. Waiting' = Waiting
  BY DEF Waiting
<1>2. PICK s : QueueHolds(s)
  BY DEF QueueInv
<1>3. QueueHolds(s)'
  BY <1>2 DEF QueueHolds
<1> QED
  BY <1>1, <1>3 DEF QueueInv

LEMMA QueueStep ==
  ASSUME QueueInv, [QueueNext]_queueVars
  PROVE  QueueInv' /\ [Queue!Next]_(Queue!fifoVars)
<1>1. QueueTypeOK'
  BY QueueTypeNext DEF QueueInv
<1>2. ASSUME NEW t \in Writer, NEW m \in Message, AppendMessage(t, m)
      PROVE  QueueInv' /\ Queue!Next
  <2>1. QueueInv' /\ Waiting' = Append(Waiting, m)
    BY <1>1, <1>2, QueueAppends
  <2>2. Queue!Send(m)
    BY <1>2, <2>1 DEF Queue!Send, AppendMessage
  <2> QED
    BY <2>1, <2>2 DEF Queue!Next
<1>3. ASSUME NEW t \in Reader, TakeMessage(t), head # None
      PROVE  QueueInv' /\ Queue!Next
  <2>1. /\ QueueInv'
        /\ Waiting # <<>> /\ Head(Waiting) = head /\ Waiting' = Tail(Waiting)
    BY <1>1, <1>3, QueueTakes
  <2>2. Queue!Receive(t)
    BY <1>3, <2>1 DEF Queue!Receive, TakeMessage
  <2> QED
    BY <2>1, <2>2 DEF Queue!Next, QueueThread
<1>4. ASSUME UNCHANGED <<head, tail, next, sent, received>>
      PROVE  QueueInv' /\ UNCHANGED Queue!fifoVars
  BY <1>1, <1>4, QueueKeeps DEF Queue!fifoVars
<1>5. ASSUME NEW t \in Writer, SignalMessage(t)
      PROVE  UNCHANGED <<head, tail, next, sent, received>>
  BY <1>5 DEF SignalMessage
<1>6. ASSUME NEW t \in Reader, CallWaitMessage(t) \/ MessageWaiting(t) \/ WaitSignal(t)
      PROVE  UNCHANGED <<head, tail, next, sent, received>>
  BY <1>6 DEF CallWaitMessage, MessageWaiting, WaitSignal
<1>7. ASSUME NEW t \in Reader, TakeMessage(t), head = None
      PROVE  UNCHANGED <<head, tail, next, sent, received>>
  BY <1>7 DEF TakeMessage
<1>8. CASE UNCHANGED queueVars
  BY <1>4, <1>8 DEF queueVars
<1> QED
  BY <1>2, <1>3, <1>4, <1>5, <1>6, <1>7, <1>8 DEF QueueNext, WritingMessage, Receiving

LEMMA QueueInvariance == QueueSpec => []QueueInv
<1>1. QueueInit => QueueInv
  BY QueueInitInv
<1>2. QueueInv /\ [QueueNext]_queueVars => QueueInv'
  BY QueueStep
<1> QED
  BY <1>1, <1>2, PTL DEF QueueSpec

(***************************************************************************)
(* The variables of CMessageQueue keep their types, and its mutex has one  *)
(* holder at most, for any messages and threads.                           *)
(***************************************************************************)
THEOREM QueueTyped == QueueSpec => []QueueTypeOK
<1>1. QueueInv => QueueTypeOK
  BY DEF QueueInv
<1> QED
  BY <1>1, QueueInvariance, PTL

(***************************************************************************)
(* CMessageQueue implements the FIFO: every QueueMessage adds its message  *)
(* behind those that wait, every WaitMessage takes the first of them, and  *)
(* nothing else changes what waits, whatever the readers saw of Head       *)
(* without the mutex; for any messages, writers and readers.               *)
(***************************************************************************)
THEOREM QueueIsFifo == QueueSpec => QueueImplementsFifo
<1>1. QueueInit => Queue!Init
  BY QueueInitInv DEF QueueInit, Queue!Init
<1>2. QueueInv /\ [QueueNext]_queueVars => [Queue!Next]_(Queue!fifoVars)
  BY QueueStep
<1> QED
  BY <1>1, <1>2, QueueInvariance, PTL DEF QueueSpec, QueueImplementsFifo, Queue!Spec

-----------------------------------------------------------------------------
(***************************************************************************)
(* CTSListBase: the halves of DepthAndSequence.                            *)
(***************************************************************************)
Depth(tag) == tag % DepthCount
Cycle(tag) == tag \div DepthCount

LEMMA TagCounts ==
  /\ Cardinality(Node) \in Nat
  /\ DepthCount \in Nat /\ DepthCount > 0
  /\ SequenceCount \in Nat /\ SequenceCount > 0
BY NodeAssumption, TagAssumption, FS_CardinalityType

LEMMA MultiplesApart ==
  ASSUME NEW d \in Nat, d > 0, NEW k \in Int
  PROVE  (k >= 1 => d * k >= d) /\ (k <= -1 => d * k <= -d)
<1>1. k >= 1 => d * k >= d
  OBVIOUS
<1>2. k <= -1 => d * k <= -d
  OBVIOUS
<1> QED
  BY <1>1, <1>2

LEMMA DivisionOf ==
  ASSUME NEW d \in Nat, d > 0, NEW x \in Int
  PROVE  \E p \in Int, o \in 0..d - 1 : p = x \div d /\ o = x % d /\ x = d * p + o
<1>1. x % d \in 0..d - 1
  OBVIOUS
<1>2. x \div d \in Int
  OBVIOUS
<1>3. x % d = x - d * (x \div d)
  BY SMTT(30)
<1>4. PICK p \in Int, o \in 0..d - 1 : p = x \div d /\ o = x % d
  BY <1>1, <1>2
<1>5. o = x - d * p
  BY <1>3, <1>4
<1>6. x = d * p + o
  BY <1>5
<1> QED
  BY <1>4, <1>6

LEMMA DivisionIs ==
  ASSUME NEW d \in Nat, d > 0, NEW x \in Int, NEW q \in Int, NEW r \in 0..d - 1, x = d * q + r
  PROVE  x % d = r /\ x \div d = q
<1>1. PICK p \in Int, o \in 0..d - 1 : p = x \div d /\ o = x % d /\ x = d * p + o
  BY DivisionOf
<1>2. d * (p - q) = r - o
  BY <1>1
<1>3. ~(p - q >= 1)
  BY <1>2, MultiplesApart
<1>4. ~(p - q <= -1)
  BY <1>2, MultiplesApart
<1>5. p = q
  BY <1>3, <1>4
<1>6. o = r
  BY <1>1, <1>5
<1> QED
  BY <1>1, <1>5, <1>6

LEMMA TagHalves ==
  ASSUME NEW tag \in Tag
  PROVE  /\ Cycle(tag) \in 0..SequenceCount - 1 /\ Depth(tag) \in 0..DepthCount - 1
         /\ tag = DepthCount * Cycle(tag) + Depth(tag)
<1>1. PICK d, n : d = DepthCount /\ n = SequenceCount
  OBVIOUS
<1>2. d \in Nat /\ d > 0 /\ n \in Nat /\ n > 0
  BY <1>1, TagCounts
<1>3. PICK p \in Int, o \in 0..d - 1 : p = Cycle(tag) /\ o = Depth(tag) /\ tag = d * p + o
  BY <1>1, <1>2, DivisionOf DEF Cycle, Depth, Tag
<1>4. tag \in Int /\ tag >= 0 /\ tag < d * n
  BY <1>1, <1>2 DEF Tag
<1>5. ~(p <= -1)
  BY <1>2, <1>3, <1>4, MultiplesApart
<1>6. ~(p - n >= 0)
  <2>1. d * (p - n) < 0
    BY <1>2, <1>3, <1>4
  <2>2. p - n >= 1 => d * (p - n) >= d
    BY <1>2, MultiplesApart
  <2>3. p - n = 0 => d * (p - n) = 0
    BY <1>2
  <2> QED
    BY <1>2, <2>1, <2>2, <2>3
<1> QED
  BY <1>1, <1>2, <1>3, <1>5, <1>6

LEMMA TagMade ==
  ASSUME NEW c \in 0..SequenceCount - 1, NEW e \in 0..DepthCount - 1
  PROVE  /\ DepthCount * c + e \in Tag
         /\ Cycle(DepthCount * c + e) = c /\ Depth(DepthCount * c + e) = e
<1>1. PICK d, n : d = DepthCount /\ n = SequenceCount
  OBVIOUS
<1>2. d \in Nat /\ d > 0 /\ n \in Nat /\ n > 0 /\ c \in Nat /\ e \in Nat
  BY <1>1, TagCounts
<1>3. d * c + e \in Nat
  BY <1>2
<1>4. d * c + e < d * n
  <2>1. d * (n - c) >= d
    BY <1>1, <1>2, MultiplesApart
  <2>2. d * n - d * c >= d
    BY <1>2, <2>1
  <2> QED
    BY <1>1, <1>2, <2>2
<1>5. (d * c + e) % d = e /\ (d * c + e) \div d = c
  BY <1>1, <1>2, <1>3, DivisionIs
<1> QED
  BY <1>1, <1>2, <1>3, <1>4, <1>5 DEF Tag, Cycle, Depth

\* A sum of DepthAndSequence that fits is not changed by the width of the word.
LEMMA TagFits == \A x \in Tag : x % Modulus = x
<1> SUFFICES ASSUME NEW x \in Tag
             PROVE  x % Modulus = x
  OBVIOUS
<1>1. PICK m : m = Modulus
  OBVIOUS
<1>2. m \in Nat /\ x \in 0..m - 1
  BY <1>1, TagCounts DEF Tag, Modulus
<1>3. x = m * 0 + x /\ m > 0
  BY <1>2
<1> QED
  BY <1>1, <1>2, <1>3, DivisionIs

LEMMA PushedTag ==
  ASSUME NEW tag \in Tag, Depth(tag) + 1 < DepthCount
  PROVE  /\ Pushed(tag) \in Tag /\ Depth(Pushed(tag)) = Depth(tag) + 1
         /\ Cycle(Pushed(tag)) = IF Cycle(tag) + 1 < SequenceCount THEN Cycle(tag) + 1 ELSE 0
<1>1. PICK d, n, c, e : d = DepthCount /\ n = SequenceCount /\ c = Cycle(tag) /\ e = Depth(tag)
  OBVIOUS
<1>2. /\ d \in Nat /\ d > 0 /\ n \in Nat /\ n > 0
      /\ c \in 0..n - 1 /\ e \in 0..d - 1 /\ tag = d * c + e /\ tag \in Int
  BY <1>1, TagCounts, TagHalves DEF Tag
<1>3. CASE c + 1 < n
  <2>1. tag + d + 1 = d * (c + 1) + (e + 1) /\ c + 1 \in 0..n - 1 /\ e + 1 \in 0..d - 1
    BY <1>1, <1>2, <1>3
  <2>2. tag + d + 1 \in Tag /\ Cycle(tag + d + 1) = c + 1 /\ Depth(tag + d + 1) = e + 1
    BY <1>1, <2>1, TagMade
  <2>3. Pushed(tag) = tag + d + 1
    BY <1>1, <2>2, TagFits DEF Pushed
  <2> QED
    BY <1>1, <1>3, <2>2, <2>3
<1>4. CASE ~(c + 1 < n)
  <2>1. tag + d + 1 = d * n + (e + 1) /\ e + 1 \in 0..d - 1
    <3>1. c + 1 = n
      BY <1>2, <1>4
    <3>2. d * (c + 1) = d * c + d
      BY <1>2
    <3>3. ASSUME NEW k \in Int, NEW i \in Int
          PROVE  k + i + d + 1 = (k + d) + (i + 1)
      BY <1>2
    <3>4. d * c \in Int /\ e \in Int /\ e + 1 \in 0..d - 1
      BY <1>1, <1>2
    <3>5. tag + d + 1 = (d * c + d) + (e + 1)
      BY <1>2, <3>3, <3>4
    <3> QED
      BY <3>1, <3>2, <3>4, <3>5
  <2>2. d * 0 + (e + 1) \in Tag /\ Cycle(d * 0 + (e + 1)) = 0 /\ Depth(d * 0 + (e + 1)) = e + 1
    BY <1>1, <1>2, <2>1, TagMade
  <2>3. d * 0 + (e + 1) = e + 1
    BY <1>2
  <2>4. (tag + d + 1) % (d * n) = e + 1
    <3>1. PICK m : m = d * n
      OBVIOUS
    <3>2. m \in Nat /\ e + 1 \in 0..m - 1
      BY <1>1, <1>2, <2>2, <2>3, <3>1 DEF Tag
    <3>3. m > 0 /\ tag + d + 1 = m * 1 + (e + 1) /\ tag + d + 1 \in Int
      BY <1>2, <2>1, <3>1, <3>2
    <3> QED
      BY <3>1, <3>2, <3>3, DivisionIs
  <2> QED
    BY <1>1, <1>4, <2>2, <2>3, <2>4 DEF Pushed, Modulus
<1> QED
  BY <1>3, <1>4

LEMMA PoppedTag ==
  ASSUME NEW tag \in Tag, Depth(tag) > 0
  PROVE  /\ Popped(tag) \in Tag /\ Depth(Popped(tag)) = Depth(tag) - 1
         /\ Cycle(Popped(tag)) = Cycle(tag)
<1>1. PICK d, c, e : d = DepthCount /\ c = Cycle(tag) /\ e = Depth(tag)
  OBVIOUS
<1>2. /\ d \in Nat /\ d > 0 /\ c \in 0..SequenceCount - 1 /\ c \in Int
      /\ e \in Int /\ e - 1 \in 0..d - 1 /\ tag = d * c + e /\ tag \in Int
  BY <1>1, TagCounts, TagHalves DEF Tag
<1>3. tag - 1 = d * c + (e - 1)
  <2>1. ASSUME NEW k \in Int, NEW i \in Int
        PROVE  k + i - 1 = k + (i - 1)
    OBVIOUS
  <2>2. d * c \in Int /\ e \in Int
    BY <1>1, <1>2
  <2> QED
    BY <1>2, <2>1, <2>2
<1>4. tag - 1 \in Tag /\ Cycle(tag - 1) = c /\ Depth(tag - 1) = e - 1
  BY <1>1, <1>2, <1>3, TagMade
<1>5. Popped(tag) = tag - 1
  BY <1>4, TagFits DEF Popped
<1> QED
  BY <1>1, <1>4, <1>5

LEMMA DetachedTag ==
  ASSUME NEW tag \in Tag
  PROVE  /\ Detached(tag) \in Tag /\ Depth(Detached(tag)) = 0
         /\ Cycle(Detached(tag)) = Cycle(tag)
<1>1. PICK d, c, e : d = DepthCount /\ c = Cycle(tag) /\ e = Depth(tag)
  OBVIOUS
<1>2. /\ d \in Nat /\ d > 0 /\ c \in 0..SequenceCount - 1 /\ c \in Int
      /\ 0 \in 0..d - 1 /\ e \in Int /\ tag = d * c + e /\ tag \in Int
  BY <1>1, TagCounts, TagHalves DEF Tag
<1>3. Detached(tag) = d * c + 0
  BY <1>1, <1>2 DEF Detached, Depth
<1> QED
  BY <1>1, <1>2, <1>3, TagMade

-----------------------------------------------------------------------------
(***************************************************************************)
(* CTSListBase: the list is a chain, as long as its depth says, of the     *)
(* nodes that no thread has.                                               *)
(***************************************************************************)
ListHolds(s) ==
  /\ IsChain(nodeNext, listHead.next, s)
  /\ Depth(listHead.tag) = Len(s)
  /\ \A n \in Node : n \in Members(s) <=> \A t \in User : n \notin inHand[t]

HandsApart == \A t, u \in User, n \in Node : n \in inHand[t] /\ n \in inHand[u] => t = u

\* A Push has its node until its swap, linked to the head it saw.
PushInv(t) ==
  /\ listPc[t] \in {"push", "link", "swappush"} => node[t] \in inHand[t]
  /\ listPc[t] = "swappush" =>
       /\ newHead[t].next = node[t] /\ newHead[t].tag = Pushed(oldHead[t].tag)
       /\ nodeNext[node[t]] = oldHead[t].next

DetachInv(t) ==
  listPc[t] = "swapdetach" =>
    /\ oldHead[t].next # None
    /\ newHead[t].next = None /\ newHead[t].tag = Detached(oldHead[t].tag)

(***************************************************************************)
(* What a Pop knows of the head it loaded.  The sequence number tells how  *)
(* many pushes there were since; without one the list has only become      *)
(* shorter, and as long as it has not, its first node is still the one the *)
(* Pop saw, with the Next that the Pop read.                               *)
(***************************************************************************)
PopInv(t) ==
  listPc[t] \in {"follow", "swappop"} =>
    /\ oldHead[t].next # None
    /\ age[t] < SequenceCount
    /\ \/ Cycle(listHead.tag) = Cycle(oldHead[t].tag) + age[t]
       \/ Cycle(listHead.tag) = Cycle(oldHead[t].tag) + age[t] - SequenceCount
    /\ listPc[t] = "swappop" => newHead[t].tag = Popped(oldHead[t].tag)
    /\ age[t] = 0 =>
         \/ Depth(listHead.tag) < Depth(oldHead[t].tag)
         \/ /\ listHead = oldHead[t]
            /\ listPc[t] = "swappop" => newHead[t].next = nodeNext[oldHead[t].next]

LocalInv(t) == PushInv(t) /\ DetachInv(t) /\ PopInv(t)

ListInv ==
  /\ WholeHead
  /\ ListTypeOK
  /\ ListHolds(Listed)
  /\ HandsApart
  /\ \A t \in User : LocalInv(t)

LEMMA ListReads ==
  ASSUME NEW link \in [Node -> Node \cup {None}], NEW first, NEW s, IsChain(link, first, s)
  PROVE  Chain(link, first) = s /\ s \in Seq(Node)
<1>1. IsFiniteSet(DOMAIN link) /\ DOMAIN link = Node
  BY NodeAssumption
<1> QED
  BY <1>1, ChainIs DEF IsChain

LEMMA ListReadsNodes ==
  ASSUME NEW link \in [Node -> Node \cup {None}], NEW first
  PROVE  Members(Chain(link, first)) \subseteq Node
<1>1. DOMAIN link = Node
  OBVIOUS
<1>2. PICK f : ChainParts(link, first, Node, f)
  BY <1>1, ChainSteps
<1>3. Chain(link, first) \in Seq(Node)
  BY <1>2, TagCounts DEF ChainParts
<1> QED
  BY <1>3 DEF Members

LEMMA TagType == 0 \in Tag /\ \A x \in Int : x % Modulus \in Tag
<1>1. PICK d, n, m : d = DepthCount /\ n = SequenceCount /\ m = d * n
  OBVIOUS
<1>2. d \in Nat /\ d > 0 /\ n \in Nat /\ n > 0
  BY <1>1, TagCounts
<1>3. m \in Nat /\ m > 0
  BY <1>1, <1>2, MultiplesApart
<1>4. \A x \in Int : x % m \in 0..m - 1
  BY <1>3
<1> QED
  BY <1>1, <1>3, <1>4 DEF Tag, Modulus

LEMMA MadeTags ==
  ASSUME NEW tag \in Tag
  PROVE  Pushed(tag) \in Tag /\ Popped(tag) \in Tag /\ Detached(tag) \in Tag
<1>1. tag \in Int /\ tag + DepthCount + 1 \in Int /\ tag - 1 \in Int
  BY TagHalves, TagCounts DEF Tag
<1> QED
  BY <1>1, TagType, DetachedTag DEF Pushed, Popped

LEMMA SwapTypes ==
  ASSUME WholeHead, ListTypeOK,
         NEW t \in User, NEW from, NEW retry, SwapHead(t, from, retry), UNCHANGED nodeNext,
         retry \in {"push", "pop", "detach"},
         ~Swaps(t) \/ (inHand' \in [User -> SUBSET Node] /\ age' \in [User -> 0..SequenceCount])
  PROVE  ListTypeOK'
<1>1. Empty \in HeadWord
  BY TagType DEF Empty, HeadWord
<1>2. CASE Swaps(t)
  <2>1. /\ Goto(listPc, t, from, "free") /\ listHead' = newHead[t]
        /\ oldHead' = [oldHead EXCEPT ![t] = Empty] /\ newHead' = [newHead EXCEPT ![t] = Empty]
        /\ node' = [node EXCEPT ![t] = None]
    BY <1>2 DEF SwapHead, Swapped
  <2> QED
    BY <1>1, <1>2, <2>1 DEF ListTypeOK, Goto
<1>3. CASE ~Swaps(t)
  <2>1. /\ Goto(listPc, t, from, retry)
        /\ UNCHANGED <<listHead, node, oldHead, newHead, inHand, age>>
    BY <1>3 DEF SwapHead
  <2> QED
    BY <2>1 DEF ListTypeOK, Goto
<1> QED
  BY <1>2, <1>3

LEMMA ListTypeNext ==
  ASSUME ListInv, [ListNext]_listVars
  PROVE  ListTypeOK'
<1>1. /\ WholeHead /\ ListTypeOK
      /\ SequenceCount \in Nat /\ SequenceCount > 0 /\ 0 \in 0..SequenceCount
  BY TagCounts DEF ListInv
<1>2. ASSUME NEW t \in User, NEW n \in Node, BeginPush(t, n)
      PROVE  ListTypeOK'
  BY <1>1, <1>2 DEF BeginPush, Goto, ListTypeOK
<1>3. ASSUME NEW t \in User, BeginPop(t) \/ BeginDetach(t)
      PROVE  ListTypeOK'
  BY <1>1, <1>3 DEF BeginPop, BeginDetach, Goto, ListTypeOK
<1>4. ASSUME NEW t \in User, LoadPush(t) \/ LoadPop(t)
      PROVE  ListTypeOK'
  <2>1. LoadHead(t) /\ \E from, to \in {"free", "push", "link", "pop", "follow"} : Goto(listPc, t, from, to)
    BY <1>4 DEF LoadPush, LoadPop
  <2> QED
    BY <1>1, <2>1 DEF LoadHead, Goto, ListTypeOK
<1>5. ASSUME NEW t \in User, LinkNode(t)
      PROVE  ListTypeOK'
  <2>1. node[t] \in Node \cup {None} /\ oldHead[t].next \in Node \cup {None} /\ oldHead[t].tag \in Tag
    BY <1>1 DEF ListTypeOK, HeadWord
  <2>2. [next |-> node[t], tag |-> Pushed(oldHead[t].tag)] \in HeadWord
    BY <2>1, MadeTags DEF HeadWord
  <2> QED
    BY <1>1, <1>5, <2>1, <2>2 DEF LinkNode, MakeHead, Goto, ListTypeOK
<1>6. ASSUME NEW t \in User, FollowNode(t)
      PROVE  ListTypeOK'
  <2>1. listPc[t] = "follow" /\ oldHead[t].next # None /\ oldHead[t] \in HeadWord
    BY <1>1, <1>6 DEF FollowNode, Goto, ListInv, LocalInv, PopInv, ListTypeOK
  <2>2. nodeNext[oldHead[t].next] \in Node \cup {None} /\ oldHead[t].tag \in Tag
    BY <1>1, <2>1 DEF ListTypeOK, HeadWord
  <2>3. [next |-> nodeNext[oldHead[t].next], tag |-> Popped(oldHead[t].tag)] \in HeadWord
    BY <2>2, MadeTags DEF HeadWord
  <2> QED
    BY <1>1, <1>6, <2>3 DEF FollowNode, MakeHead, Goto, ListTypeOK
<1>7. ASSUME NEW t \in User, LoadDetach(t)
      PROVE  ListTypeOK'
  <2>1. listHead.tag \in Tag
    BY <1>1 DEF ListTypeOK, HeadWord
  <2>2. [next |-> None, tag |-> Detached(listHead.tag)] \in HeadWord
    BY <2>1, MadeTags DEF HeadWord
  <2> QED
    BY <1>1, <1>7, <2>2 DEF LoadDetach, MakeHead, Goto, ListTypeOK
<1>8. ASSUME NEW t \in User, SwapPush(t)
      PROVE  ListTypeOK'
  <2>1. SwapHead(t, "swappush", "push") /\ UNCHANGED nodeNext
    BY <1>8 DEF SwapPush
  <2>2. ASSUME Swaps(t)
        PROVE  inHand' \in [User -> SUBSET Node] /\ age' \in [User -> 0..SequenceCount]
    <3>1. inHand' = [inHand EXCEPT ![t] = @ \ {node[t]}]
      BY <1>8, <2>2 DEF SwapPush
    <3>2. age' = [u \in User |-> IF u \in Popping THEN age[u] + 1 ELSE age[u]]
      BY <1>8, <2>2 DEF SwapPush
    <3>3. ASSUME NEW u \in User
          PROVE  age'[u] \in 0..SequenceCount
      <4>1. age[u] \in 0..SequenceCount /\ (u \in Popping => age[u] + 1 < SequenceCount)
        BY <1>1, <1>8 DEF SwapPush, ListTypeOK
      <4> QED
        BY <1>1, <3>2, <4>1
    <3> QED
      BY <1>1, <3>1, <3>2, <3>3 DEF ListTypeOK
  <2> QED
    BY <1>1, <2>1, <2>2, SwapTypes
<1>9. ASSUME NEW t \in User, SwapPop(t)
      PROVE  ListTypeOK'
  <2>1. SwapHead(t, "swappop", "pop") /\ UNCHANGED nodeNext
    BY <1>9 DEF SwapPop
  <2>2. listPc[t] = "swappop" /\ oldHead[t].next \in Node
    BY <1>1, <2>1 DEF SwapHead, Goto, ListInv, LocalInv, PopInv, ListTypeOK, HeadWord
  <2>3. ASSUME Swaps(t)
        PROVE  inHand' \in [User -> SUBSET Node] /\ age' \in [User -> 0..SequenceCount]
    BY <1>1, <1>9, <2>2, <2>3 DEF SwapPop, ListTypeOK
  <2> QED
    BY <1>1, <2>1, <2>3, SwapTypes
<1>10. ASSUME NEW t \in User, SwapDetach(t)
       PROVE  ListTypeOK'
  <2>1. SwapHead(t, "swapdetach", "detach") /\ UNCHANGED nodeNext
    BY <1>10 DEF SwapDetach
  <2>2. Members(Chain(nodeNext, oldHead[t].next)) \subseteq Node
    BY <1>1, ListReadsNodes DEF ListTypeOK
  <2>3. ASSUME Swaps(t)
        PROVE  inHand' \in [User -> SUBSET Node] /\ age' \in [User -> 0..SequenceCount]
    BY <1>1, <1>10, <2>2, <2>3 DEF SwapDetach, ListTypeOK
  <2> QED
    BY <1>1, <2>1, <2>3, SwapTypes
<1>11. CASE UNCHANGED listVars
  BY <1>1, <1>11 DEF listVars, ListTypeOK
<1> QED
  BY <1>2, <1>3, <1>4, <1>5, <1>6, <1>7, <1>8, <1>9, <1>10, <1>11 DEF ListNext, Pushing, Taking

LEMMA ListInitInv == WholeHead /\ ListInit => ListInv /\ Listed = <<>>
<1> SUFFICES ASSUME WholeHead, ListInit
             PROVE  ListInv /\ Listed = <<>>
  OBVIOUS
<1>0. listHead = Empty
  BY DEF ListInit, Constructed, Empty
<1>1. ListTypeOK
  <2>1. Empty \in HeadWord /\ 0 \in 0..SequenceCount
    BY TagType, TagCounts DEF Empty, HeadWord
  <2> QED
    BY <1>0, <2>1 DEF ListInit, ListTypeOK
<1>2. IsChain(nodeNext, listHead.next, <<>>)
  BY <1>0, NodeAssumption DEF ListInit, Empty, IsChain
<1>3. Listed = <<>>
  BY <1>1, <1>2, ListReads DEF ListTypeOK, Listed
<1>4. ListHolds(<<>>)
  <2>1. 0 = DepthCount * 0 + 0 /\ 0 \in 0..SequenceCount - 1 /\ 0 \in 0..DepthCount - 1
    BY TagCounts
  <2>2. Depth(0) = 0
    BY <2>1, TagMade
  <2>3. \A n \in Node : \E t \in User : n \in inHand[t]
    BY DEF ListInit
  <2>4. Members(<<>>) = {} /\ Len(<<>>) = 0
    BY DEF Members
  <2> QED
    BY <1>0, <1>2, <2>2, <2>3, <2>4 DEF ListHolds, Empty
<1>5. HandsApart
  BY DEF ListInit, HandsApart
<1>6. \A t \in User : LocalInv(t)
  BY DEF ListInit, LocalInv, PushInv, DetachInv, PopInv
<1> QED
  BY <1>1, <1>3, <1>4, <1>5, <1>6 DEF ListInv

\* The list never has all the nodes that the depth could count.
LEMMA DepthFits ==
  ASSUME ListInv, NEW n \in Node, n \notin Members(Listed)
  PROVE  Len(Listed) + 1 < DepthCount
<1> DEFINE rest == Node \ {n}
<1>1. /\ Listed \in Seq(Node) /\ Len(Listed) \in Nat
      /\ \A i \in 1..Len(Listed) : Listed[i] \in rest
  <2>1. Listed \in Seq(Node)
    BY ListReads DEF ListInv, ListHolds, ListTypeOK
  <2> QED
    BY <2>1 DEF Members
<1>2. IsFiniteSet(rest) /\ Cardinality(rest) = Cardinality(Node) - 1
  BY NodeAssumption, FS_RemoveElement
<1>3. Listed \in Injection(1..Len(Listed), rest)
  <2>1. \A i, j \in 1..Len(Listed) : Listed[i] = Listed[j] => i = j
    BY DEF ListInv, ListHolds, IsChain
  <2>2. Listed \in [1..Len(Listed) -> rest]
    BY <1>1
  <2> QED
    BY <2>1, <2>2 DEF Injection, IsInjective
<1>4. Cardinality(1..Len(Listed)) = Len(Listed)
  <2>1. 1 \in Int /\ Len(Listed) \in Int
    BY <1>1
  <2>2. Cardinality(1..Len(Listed)) = IF 1 > Len(Listed) THEN 0 ELSE Len(Listed) - 1 + 1
    BY <2>1, FS_Interval
  <2> QED
    BY <1>1, <2>2
<1>5. Cardinality(1..Len(Listed)) <= Cardinality(rest)
  <2> HIDE DEF rest
  <2> QED BY <1>2, <1>3, FS_Injection
<1> QED
  BY <1>1, <1>2, <1>4, <1>5, TagCounts, TagAssumption

\* No step of thread t changes the locals of another, but for its age.
Alone(t) ==
  \A u \in User \ {t} :
    /\ listPc'[u] = listPc[u] /\ node'[u] = node[u]
    /\ oldHead'[u] = oldHead[u] /\ newHead'[u] = newHead[u] /\ inHand'[u] = inHand[u]

LEMMA QuietStep ==
  ASSUME ListInv, ListTypeOK', NEW t \in User, Alone(t), \A u \in User \ {t} : age'[u] = age[u],
         UNCHANGED <<listHead, nodeNext, inHand>>, LocalInv(t)'
  PROVE  ListInv' /\ UNCHANGED Stack!stackVars
<1>1. Listed' = Listed
  BY DEF Listed
<1>2. ListHolds(Listed)' /\ HandsApart'
  BY <1>1 DEF ListInv, ListHolds, HandsApart
<1>3. ASSUME NEW u \in User, u # t
      PROVE  LocalInv(u)'
  BY <1>3 DEF Alone, ListInv, LocalInv, PushInv, DetachInv, PopInv
<1> QED
  BY <1>1, <1>2, <1>3 DEF ListInv, Stack!stackVars

LEMMA QuietSteps ==
  ASSUME ListInv, ListTypeOK', NEW t \in User,
         \/ \E n \in Node : BeginPush(t, n)
         \/ BeginPop(t) \/ BeginDetach(t) \/ LoadPush(t) \/ LoadPop(t)
           \/ FollowNode(t) \/ LoadDetach(t)
  PROVE  ListInv' /\ UNCHANGED Stack!stackVars
<1>1. ListTypeOK /\ LocalInv(t)
  BY DEF ListInv
<1>2. ASSUME NEW n \in Node, BeginPush(t, n)
      PROVE  ListInv' /\ UNCHANGED Stack!stackVars
  <2>1. /\ Alone(t) /\ UNCHANGED <<listHead, nodeNext, inHand>>
        /\ \A u \in User \ {t} : age'[u] = age[u]
    BY <1>1, <1>2 DEF ListTypeOK, BeginPush, Goto, Alone
  <2>2. LocalInv(t)'
    BY <1>1, <1>2 DEF ListTypeOK, BeginPush, Goto, LocalInv, PushInv, DetachInv, PopInv
  <2> QED
    BY <2>1, <2>2, QuietStep
<1>3. CASE BeginPop(t) \/ BeginDetach(t)
  <2>1. /\ Alone(t) /\ UNCHANGED <<listHead, nodeNext, inHand>>
        /\ \A u \in User \ {t} : age'[u] = age[u]
    BY <1>1, <1>3 DEF ListTypeOK, BeginPop, BeginDetach, Goto, Alone
  <2>2. LocalInv(t)'
    BY <1>1, <1>3
       DEF ListTypeOK, BeginPop, BeginDetach, Goto, LocalInv, PushInv, DetachInv, PopInv
  <2> QED
    BY <2>1, <2>2, QuietStep
<1>4. CASE LoadPush(t) \/ LoadPop(t)
  <2>1. /\ Alone(t) /\ UNCHANGED <<listHead, nodeNext, inHand>>
        /\ \A u \in User \ {t} : age'[u] = age[u]
    BY <1>1, <1>4 DEF ListTypeOK, LoadPush, LoadPop, LoadHead, Goto, Alone
  <2>2. LocalInv(t)'
    <3>1. CASE LoadPush(t)
      BY <1>1, <3>1
         DEF ListTypeOK, LoadPush, LoadHead, Goto, LocalInv, PushInv, DetachInv, PopInv
    <3>2. CASE LoadPop(t)
      <4>1. /\ listPc'[t] = IF listHead.next = None THEN "free" ELSE "follow"
            /\ oldHead'[t] = listHead /\ age'[t] = 0 /\ listHead' = listHead
        BY <1>1, <3>2 DEF ListTypeOK, LoadPop, LoadHead, Goto
      <4>2. Cycle(listHead.tag) = Cycle(listHead.tag) + 0 /\ 0 < SequenceCount
        BY <1>1, TagHalves, TagCounts DEF ListTypeOK, HeadWord
      <4>3. PopInv(t)'
        BY <4>1, <4>2 DEF PopInv
      <4> QED
        BY <4>1, <4>3 DEF LocalInv, PushInv, DetachInv
    <3> QED
      BY <1>4, <3>1, <3>2
  <2> QED
    BY <2>1, <2>2, QuietStep
<1>5. CASE FollowNode(t)
  <2>1. /\ Alone(t) /\ UNCHANGED <<listHead, nodeNext, inHand>>
        /\ \A u \in User \ {t} : age'[u] = age[u]
    BY <1>1, <1>5 DEF ListTypeOK, FollowNode, MakeHead, Goto, Alone
  <2>2. /\ listPc[t] = "follow" /\ listPc'[t] = "swappop"
        /\ newHead'[t] = [next |-> nodeNext[oldHead[t].next], tag |-> Popped(oldHead[t].tag)]
        /\ UNCHANGED <<oldHead, listHead, nodeNext, age>>
    BY <1>1, <1>5 DEF ListTypeOK, FollowNode, MakeHead, Goto
  <2>3. LocalInv(t)'
    BY <1>1, <2>2 DEF LocalInv, PushInv, DetachInv, PopInv
  <2> QED
    BY <2>1, <2>3, QuietStep
<1>6. CASE LoadDetach(t)
  <2>1. /\ Alone(t) /\ UNCHANGED <<listHead, nodeNext, inHand>>
        /\ \A u \in User \ {t} : age'[u] = age[u]
    BY <1>1, <1>6 DEF ListTypeOK, LoadDetach, MakeHead, Goto, Alone
  <2>2. /\ listPc'[t] = IF listHead.next = None THEN "free" ELSE "swapdetach"
        /\ newHead'[t] = [next |-> None, tag |-> Detached(listHead.tag)]
        /\ oldHead'[t] = listHead
    BY <1>1, <1>6 DEF ListTypeOK, LoadDetach, MakeHead, Goto
  <2>3. LocalInv(t)'
    BY <1>1, <2>2 DEF LocalInv, PushInv, DetachInv, PopInv
  <2> QED
    BY <2>1, <2>3, QuietStep
<1> QED
  BY <1>2, <1>3, <1>4, <1>5, <1>6

\* A node in some hand may be linked to any other.
LEMMA LinkStep ==
  ASSUME ListInv, ListTypeOK', NEW t \in User, LinkNode(t)
  PROVE  ListInv' /\ UNCHANGED Stack!stackVars
<1>1. ListTypeOK /\ LocalInv(t) /\ HandsApart
  BY DEF ListInv
<1>2. /\ listPc[t] = "link" /\ node[t] \in inHand[t] /\ node[t] \in Node
      /\ listPc'[t] = "swappush" /\ nodeNext' = [nodeNext EXCEPT ![node[t]] = oldHead[t].next]
      /\ newHead'[t] = [next |-> node[t], tag |-> Pushed(oldHead[t].tag)]
      /\ UNCHANGED <<listHead, node, oldHead, inHand, age>>
  BY <1>1 DEF ListTypeOK, LinkNode, MakeHead, Goto, LocalInv, PushInv
<1>3. Alone(t)
  BY <1>1 DEF ListTypeOK, LinkNode, MakeHead, Goto, Alone
<1>4. node[t] \notin Members(Listed)
  BY <1>2 DEF ListInv, ListHolds
<1>5. Listed \in Seq(Node) /\ Listed' = Listed /\ IsChain(nodeNext, listHead.next, Listed)'
  <2>1. IsChain(nodeNext, listHead.next, Listed) /\ Listed \in Seq(Node)
    BY <1>1, ListReads DEF ListInv, ListHolds, ListTypeOK
  <2>2. \A i \in 1..Len(Listed) : nodeNext'[Listed[i]] = nodeNext[Listed[i]]
    BY <1>1, <1>2, <1>4, <2>1 DEF Members, ListTypeOK
  <2>3. DOMAIN nodeNext' = DOMAIN nodeNext
    BY <1>2
  <2>4. IsChain(nodeNext', listHead.next, Listed)
    BY <2>1, <2>2, <2>3, ChainKept
  <2>5. Chain(nodeNext', listHead.next) = Listed
    BY <2>4, ListReads DEF ListTypeOK
  <2>6. Listed' = Listed
    BY <1>2, <2>5 DEF Listed
  <2> QED
    BY <1>2, <2>1, <2>4, <2>6
<1>6. ListHolds(Listed)' /\ HandsApart'
  BY <1>1, <1>2, <1>5 DEF ListInv, ListHolds, HandsApart
<1>7. LocalInv(t)'
  BY <1>1, <1>2 DEF LocalInv, PushInv, DetachInv, PopInv, ListTypeOK
<1>8. ASSUME NEW u \in User, u # t
      PROVE  LocalInv(u)'
  <2>1. LocalInv(u)
    BY DEF ListInv
  <2>2. PushInv(u)' /\ DetachInv(u)'
    <3>1. listPc[u] = "swappush" => node[u] \in Node /\ node[u] # node[t]
      BY <1>1, <1>2, <1>8, <2>1 DEF LocalInv, PushInv, HandsApart, ListTypeOK
    <3>2. listPc[u] = "swappush" => nodeNext'[node[u]] = nodeNext[node[u]]
      BY <1>1, <1>2, <3>1 DEF ListTypeOK
    <3> QED
      BY <1>2, <1>3, <1>8, <2>1, <3>2 DEF Alone, LocalInv, PushInv, DetachInv
  <2>3. PopInv(u)'
    <3>1. ASSUME listHead = oldHead[u], oldHead[u].next # None
          PROVE  nodeNext'[oldHead[u].next] = nodeNext[oldHead[u].next]
      <4>1. listHead.next \in Node
        BY <1>1, <3>1 DEF ListTypeOK, HeadWord
      <4>2. Listed # <<>> /\ listHead.next = Listed[1]
        BY <1>1, <4>1 DEF ListInv, ListHolds, IsChain, ListTypeOK
      <4>3. listHead.next # node[t]
        BY <1>4, <1>5, <4>2 DEF Members
      <4> QED
        BY <1>1, <1>2, <3>1, <4>1, <4>3 DEF ListTypeOK
    <3> QED
      BY <1>2, <1>3, <1>8, <2>1, <3>1 DEF Alone, LocalInv, PopInv
  <2> QED
    BY <2>2, <2>3 DEF LocalInv
<1>9. UNCHANGED Stack!stackVars
  BY <1>2, <1>5 DEF Stack!stackVars
<1> QED
  BY <1>5, <1>6, <1>7, <1>8, <1>9 DEF ListInv

LEMMA SwapFails ==
  ASSUME ListInv, ListTypeOK', NEW t \in User, ~Swaps(t), UNCHANGED nodeNext,
         \/ SwapHead(t, "swappush", "push") \/ SwapHead(t, "swappop", "pop")
         \/ SwapHead(t, "swapdetach", "detach")
  PROVE  ListInv' /\ UNCHANGED Stack!stackVars
<1>1. UNCHANGED <<listHead, node, oldHead, newHead, inHand, age, nodeNext>>
  BY DEF SwapHead
<1>2. \/ Goto(listPc, t, "swappush", "push") \/ Goto(listPc, t, "swappop", "pop")
      \/ Goto(listPc, t, "swapdetach", "detach")
  BY DEF SwapHead
<1>3. Alone(t)
  BY <1>1, <1>2 DEF Goto, Alone, ListInv, ListTypeOK
<1>4. LocalInv(t)'
  <2>1. LocalInv(t) /\ listPc \in [User -> {"free", "push", "link", "swappush", "pop", "follow",
                                             "swappop", "detach", "swapdetach"}]
    BY DEF ListInv, ListTypeOK
  <2> QED
    BY <1>1, <1>2, <2>1 DEF Goto, LocalInv, PushInv, DetachInv, PopInv
<1> QED
  BY <1>1, <1>3, <1>4, QuietStep

(***************************************************************************)
(* The other threads at a swap of thread t: the pushes keep the nodes they *)
(* have linked, the pops see a pushed head by its sequence number and any  *)
(* other by its depth.                                                     *)
(***************************************************************************)
LEMMA OthersAtSwap ==
  ASSUME ListInv, ListTypeOK', NEW t \in User, Alone(t), UNCHANGED nodeNext,
         NEW u \in User, u # t,
         listPc[u] \in {"follow", "swappop"} =>
           \/ /\ age'[u] = age[u]
              /\ Cycle(listHead'.tag) = Cycle(listHead.tag)
              /\ Depth(listHead'.tag) < Depth(listHead.tag)
           \/ /\ age'[u] = age[u] + 1 /\ age[u] + 1 < SequenceCount
              /\ Cycle(listHead'.tag) = IF Cycle(listHead.tag) + 1 < SequenceCount
                                        THEN Cycle(listHead.tag) + 1 ELSE 0
  PROVE  LocalInv(u)'
<1>1. /\ LocalInv(u) /\ listHead.tag \in Tag /\ oldHead[u].tag \in Tag /\ age[u] \in Nat
      /\ listHead'.tag \in Tag
  BY DEF ListInv, ListTypeOK, HeadWord
<1>2. PushInv(u)' /\ DetachInv(u)'
  BY <1>1 DEF Alone, LocalInv, PushInv, DetachInv
<1>3. ASSUME listPc[u] \in {"follow", "swappop"}
      PROVE  PopInv(u)'
  <2>1. /\ listPc'[u] = listPc[u] /\ oldHead'[u] = oldHead[u] /\ newHead'[u] = newHead[u]
    BY DEF Alone
  <2>2. PICK c, o, a, n, d, e : /\ c = Cycle(listHead.tag) /\ o = Cycle(oldHead[u].tag)
                                /\ d = Depth(listHead.tag) /\ e = Depth(oldHead[u].tag)
                                /\ a = age[u] /\ n = SequenceCount
    OBVIOUS
  <2>3. /\ c \in 0..n - 1 /\ o \in 0..n - 1 /\ a \in 0..n - 1 /\ n \in Nat
        /\ d \in Nat /\ e \in Nat /\ Depth(listHead'.tag) \in Nat
        /\ c = o + a \/ c = o + a - n
        /\ a = 0 => d < e \/ listHead = oldHead[u]
    BY <1>1, <1>3, <2>2, TagHalves, TagCounts DEF LocalInv, PopInv
  <2>4. a = 0 => d <= e
    <3>1. listHead = oldHead[u] => d = e
      BY <2>2
    <3> QED
      BY <2>3, <3>1
  <2>5. CASE /\ age'[u] = a /\ Cycle(listHead'.tag) = c
             /\ Depth(listHead'.tag) < d
    <3>1. age'[u] = 0 => Depth(listHead'.tag) < e
      BY <2>3, <2>4, <2>5
    <3> QED
      BY <1>1, <1>3, <2>1, <2>2, <2>3, <2>5, <3>1 DEF LocalInv, PopInv
  <2>6. CASE /\ age'[u] = a + 1 /\ a + 1 < n
             /\ Cycle(listHead'.tag) = IF c + 1 < n THEN c + 1 ELSE 0
    <3>1. Cycle(listHead'.tag) = o + (a + 1) \/ Cycle(listHead'.tag) = o + (a + 1) - n
      BY <2>3, <2>6
    <3>2. age'[u] # 0
      BY <2>3, <2>6
    <3> QED
      BY <1>1, <1>3, <2>1, <2>2, <2>3, <2>6, <3>1, <3>2 DEF LocalInv, PopInv
  <2> QED
    BY <1>3, <2>2, <2>5, <2>6
<1>4. ASSUME listPc[u] \notin {"follow", "swappop"}
      PROVE  PopInv(u)'
  BY <1>4 DEF Alone, PopInv
<1> QED
  BY <1>2, <1>3, <1>4 DEF LocalInv

LEMMA SwapSucceeds ==
  ASSUME ListInv, NEW t \in User, NEW from, NEW retry, Swaps(t), SwapHead(t, from, retry),
         \A u \in User \ {t} : inHand'[u] = inHand[u]
  PROVE  /\ listPc[t] = from /\ listHead = oldHead[t] /\ listHead' = newHead[t]
         /\ listPc'[t] = "free" /\ Alone(t) /\ LocalInv(t)'
<1>1. /\ Goto(listPc, t, from, "free") /\ listHead' = newHead[t] /\ listHead = oldHead[t]
      /\ oldHead' = [oldHead EXCEPT ![t] = Empty] /\ newHead' = [newHead EXCEPT ![t] = Empty]
      /\ node' = [node EXCEPT ![t] = None]
  BY DEF SwapHead, Swaps, Swapped, ListInv
<1>2. Alone(t) /\ listPc'[t] = "free"
  BY <1>1 DEF Goto, Alone, ListInv, ListTypeOK
<1> QED
  BY <1>1, <1>2 DEF Goto, LocalInv, PushInv, DetachInv, PopInv

LEMMA PushStep ==
  ASSUME ListInv, ListTypeOK', NEW t \in User, SwapPush(t), Swaps(t)
  PROVE  ListInv' /\ Stack!Give(t, node[t]) /\ node[t] \in Node
<1>1. ListTypeOK /\ HandsApart /\ ListHolds(Listed)
  BY DEF ListInv
<1>2. /\ SwapHead(t, "swappush", "push") /\ UNCHANGED nodeNext
      /\ inHand' = [inHand EXCEPT ![t] = @ \ {node[t]}]
      /\ age' = [u \in User |-> IF u \in Popping THEN age[u] + 1 ELSE age[u]]
      /\ \A u \in Popping : age[u] + 1 < SequenceCount
  BY DEF SwapPush
<1>3. /\ listPc[t] = "swappush" /\ listHead = oldHead[t] /\ listHead' = newHead[t]
      /\ Alone(t) /\ LocalInv(t)'
  <2>1. \A u \in User \ {t} : inHand'[u] = inHand[u]
    BY <1>1, <1>2 DEF ListTypeOK
  <2> QED
    BY <1>2, <2>1, SwapSucceeds
<1>4. PICK n : n = node[t]
  OBVIOUS
<1>5. /\ n \in inHand[t] /\ n \in Node /\ nodeNext[n] = listHead.next
      /\ listHead'.next = n /\ listHead'.tag = Pushed(listHead.tag)
  BY <1>1, <1>3, <1>4 DEF ListInv, LocalInv, PushInv, ListTypeOK
<1>6. n \notin Members(Listed) /\ Listed \in Seq(Node) /\ Len(Listed) \in Nat
  <2>1. Listed \in Seq(Node)
    BY <1>1, ListReads DEF ListHolds, ListTypeOK
  <2> QED
    BY <1>1, <1>5, <2>1 DEF ListHolds
<1> DEFINE r == <<n>> \o Listed
<1>7. IsChain(nodeNext', listHead'.next, r) /\ Listed' = r
  <2>1. IsChain(nodeNext, n, r)
    <3>1. n \in DOMAIN nodeNext /\ IsChain(nodeNext, listHead.next, Listed)
      BY <1>1, <1>5 DEF ListTypeOK, ListHolds
    <3> QED
      BY <1>5, <1>6, <3>1, ChainPushed
  <2>2. IsChain(nodeNext', listHead'.next, r)
    BY <1>2, <1>5, <2>1
  <2> HIDE DEF r
  <2>3. Chain(nodeNext', listHead'.next) = r
    BY <2>2, ListReads DEF ListTypeOK
  <2> QED
    BY <2>2, <2>3 DEF Listed
<1>8. Len(r) = Len(Listed) + 1 /\ \A m : m \in Members(r) <=> m = n \/ m \in Members(Listed)
  <2>1. /\ <<n>> \in Seq(Node) /\ Len(<<n>>) = 1 /\ <<n>>[1] = n
    BY <1>5
  <2>2. /\ r \in Seq(Node) /\ Len(r) = 1 + Len(Listed)
        /\ \A i \in 1..Len(r) : r[i] = IF i <= 1 THEN <<n>>[i] ELSE Listed[i - 1]
    BY <1>6, <2>1, ConcatProperties
  <2> HIDE DEF r
  <2>3. r[1] = n /\ \A i \in 1..Len(Listed) : i + 1 \in 1..Len(r) /\ r[i + 1] = Listed[i]
    BY <1>6, <2>1, <2>2
  <2>4. ASSUME NEW m, m \in Members(r)
        PROVE  m = n \/ m \in Members(Listed)
    <3>1. PICK i \in 1..Len(r) : r[i] = m
      BY <2>2, <2>4 DEF Members
    <3>2. i # 1 => i - 1 \in 1..Len(Listed) /\ Listed[i - 1] = m
      BY <1>6, <2>2, <3>1
    <3> QED
      BY <1>6, <2>3, <3>1, <3>2 DEF Members
  <2>5. ASSUME NEW m, m = n \/ m \in Members(Listed)
        PROVE  m \in Members(r)
    <3>1. CASE m = n
      <4>1. 1 \in DOMAIN r
        BY <1>6, <2>2
      <4> QED
        BY <2>3, <3>1, <4>1 DEF Members
    <3>2. CASE m \in Members(Listed)
      <4>1. PICK i \in 1..Len(Listed) : Listed[i] = m
        BY <1>6, <3>2 DEF Members
      <4>2. i + 1 \in DOMAIN r /\ r[i + 1] = m
        BY <2>2, <2>3, <4>1
      <4> QED
        BY <4>2 DEF Members
    <3> QED
      BY <2>5, <3>1, <3>2
  <2> QED
    BY <1>6, <2>2, <2>4, <2>5
<1> HIDE DEF r
<1>9. /\ Depth(listHead'.tag) = Len(Listed) + 1
      /\ Cycle(listHead'.tag) = IF Cycle(listHead.tag) + 1 < SequenceCount
                                THEN Cycle(listHead.tag) + 1 ELSE 0
  <2>1. listHead.tag \in Tag /\ Depth(listHead.tag) = Len(Listed) /\ Len(Listed) + 1 < DepthCount
    BY <1>1, <1>5, <1>6, DepthFits DEF ListTypeOK, HeadWord, ListHolds
  <2> QED
    BY <1>5, <2>1, PushedTag
<1>10. ListHolds(Listed)'
  <2>1. ASSUME NEW m \in Node
        PROVE  m \in Members(r) <=> \A u \in User : m \notin inHand'[u]
    <3>1. CASE m = n
      BY <1>1, <1>2, <1>4, <1>5, <1>8, <3>1 DEF HandsApart, ListTypeOK
    <3>2. CASE m # n
      BY <1>1, <1>2, <1>4, <1>8, <3>2 DEF ListHolds, ListTypeOK
    <3> QED
      BY <3>1, <3>2
  <2> QED
    BY <1>7, <1>8, <1>9, <2>1 DEF ListHolds
<1>11. HandsApart'
  BY <1>1, <1>2 DEF HandsApart, ListTypeOK
<1>12. ASSUME NEW u \in User, u # t
       PROVE  LocalInv(u)'
  <2>1. listPc[u] \in {"follow", "swappop"} => age'[u] = age[u] + 1 /\ age[u] + 1 < SequenceCount
    BY <1>2 DEF Popping
  <2> QED
    BY <1>2, <1>3, <1>9, <1>12, <2>1, OthersAtSwap
<1>13. Stack!Give(t, node[t])
  BY <1>2, <1>4, <1>5, <1>7 DEF Stack!Give, r
<1> QED
  BY <1>3, <1>4, <1>5, <1>10, <1>11, <1>12, <1>13 DEF ListInv

LEMMA PopStep ==
  ASSUME ListInv, ListTypeOK', NEW t \in User, SwapPop(t), Swaps(t)
  PROVE  ListInv' /\ Stack!Take(t)
<1>1. ListTypeOK /\ HandsApart /\ ListHolds(Listed)
  BY DEF ListInv
<1>2. /\ SwapHead(t, "swappop", "pop") /\ UNCHANGED nodeNext
      /\ inHand' = [inHand EXCEPT ![t] = @ \cup {oldHead[t].next}]
      /\ age' = [age EXCEPT ![t] = 0]
  BY DEF SwapPop
<1>3. /\ listPc[t] = "swappop" /\ listHead = oldHead[t] /\ listHead' = newHead[t]
      /\ Alone(t) /\ LocalInv(t)'
  <2>1. \A u \in User \ {t} : inHand'[u] = inHand[u]
    BY <1>1, <1>2 DEF ListTypeOK
  <2> QED
    BY <1>2, <2>1, SwapSucceeds
<1>4. PICK n : n = listHead.next
  OBVIOUS
<1>5. n \in Node /\ listHead'.next = nodeNext[n] /\ listHead'.tag = Popped(listHead.tag)
  <2>1. PopInv(t) /\ listHead.tag \in Tag
    BY <1>1 DEF ListInv, LocalInv, ListTypeOK, HeadWord
  <2>2. PICK c, a, m : c = Cycle(listHead.tag) /\ a = age[t] /\ m = SequenceCount
    OBVIOUS
  <2>3. c \in Int /\ a \in Int /\ m \in Int /\ a < m /\ (c = c + a \/ c = c + a - m)
    BY <1>1, <1>3, <2>1, <2>2, TagHalves, TagCounts DEF PopInv, ListTypeOK
  <2>4. a = 0
    BY <2>3
  <2>5. ~(Depth(listHead.tag) < Depth(oldHead[t].tag))
    <3>1. Depth(listHead.tag) \in Nat
      BY <2>1, TagHalves, TagCounts
    <3>2. ASSUME NEW d \in Nat
          PROVE  ~(d < d)
      OBVIOUS
    <3> QED
      BY <1>3, <3>1, <3>2
  <2> QED
    BY <1>1, <1>3, <1>4, <2>1, <2>2, <2>4, <2>5 DEF PopInv, ListTypeOK, HeadWord
<1>6. /\ Listed \in Seq(Node) /\ Len(Listed) \in Nat /\ Listed # <<>> /\ Head(Listed) = n
      /\ IsChain(nodeNext, nodeNext[n], Tail(Listed))
  <2>1. Listed \in Seq(Node) /\ n \in DOMAIN nodeNext
    BY <1>1, <1>5, ListReads DEF ListHolds, ListTypeOK
  <2> QED
    BY <1>1, <1>4, <2>1, ChainTail DEF ListHolds
<1> DEFINE r == Tail(Listed)
<1>7. IsChain(nodeNext', listHead'.next, r) /\ Listed' = r
  <2>1. IsChain(nodeNext', listHead'.next, r)
    BY <1>2, <1>5, <1>6
  <2> HIDE DEF r
  <2>2. Chain(nodeNext', listHead'.next) = r
    BY <2>1, ListReads DEF ListTypeOK
  <2> QED
    BY <2>1, <2>2 DEF Listed
<1>8. /\ Len(r) = Len(Listed) - 1 /\ Len(Listed) > 0
      /\ \A m : m \in Members(r) <=> m # n /\ m \in Members(Listed)
  <2>1. /\ r \in Seq(Node) /\ Len(r) = Len(Listed) - 1 /\ Listed[1] = n /\ Len(Listed) > 0
        /\ \A i \in 1..Len(Listed) - 1 : r[i] = Listed[i + 1]
    BY <1>6, HeadTailProperties
  <2> HIDE DEF r
  <2>2. \A i, j \in 1..Len(Listed) : Listed[i] = Listed[j] => i = j
    BY <1>1 DEF ListHolds, IsChain
  <2>3. ASSUME NEW m, m \in Members(r)
        PROVE  m # n /\ m \in Members(Listed)
    <3>1. PICK i \in 1..Len(r) : r[i] = m
      BY <2>1, <2>3 DEF Members
    <3>2. i + 1 \in 1..Len(Listed) /\ 1 \in 1..Len(Listed) /\ i + 1 # 1 /\ Listed[i + 1] = m
      BY <1>6, <2>1, <3>1
    <3> QED
      BY <1>6, <2>1, <2>2, <3>2 DEF Members
  <2>4. ASSUME NEW m, m # n, m \in Members(Listed)
        PROVE  m \in Members(r)
    <3>1. PICK i \in 1..Len(Listed) : Listed[i] = m
      BY <1>6, <2>4 DEF Members
    <3>2. i - 1 \in 1..Len(r) /\ r[i - 1] = m
      BY <1>6, <2>1, <2>4, <3>1
    <3> QED
      BY <2>1, <3>2 DEF Members
  <2> QED
    BY <2>1, <2>3, <2>4
<1> HIDE DEF r
<1>9. /\ Depth(listHead'.tag) = Len(Listed) - 1 /\ Depth(listHead.tag) = Len(Listed)
      /\ Cycle(listHead'.tag) = Cycle(listHead.tag)
  <2>1. listHead.tag \in Tag /\ Depth(listHead.tag) = Len(Listed)
    BY <1>1 DEF ListTypeOK, HeadWord, ListHolds
  <2> QED
    BY <1>5, <1>8, <2>1, PoppedTag
<1>10. n \in Members(Listed)
  <2>1. Head(Listed) = Listed[1] /\ 1 \in DOMAIN Listed
    BY <1>6, <1>8
  <2> QED
    BY <1>6, <2>1 DEF Members
<1>11. ListHolds(Listed)'
  <2>1. ASSUME NEW m \in Node
        PROVE  m \in Members(r) <=> \A u \in User : m \notin inHand'[u]
    <3>1. CASE m = n
      BY <1>1, <1>2, <1>3, <1>4, <1>8, <3>1 DEF ListTypeOK
    <3>2. CASE m # n
      BY <1>1, <1>2, <1>3, <1>4, <1>8, <3>2 DEF ListHolds, ListTypeOK
    <3> QED
      BY <3>1, <3>2
  <2> QED
    BY <1>7, <1>8, <1>9, <2>1 DEF ListHolds
<1>12. HandsApart'
  <2>1. \A u \in User : n \notin inHand[u]
    BY <1>1, <1>5, <1>10 DEF ListHolds
  <2>2. inHand' = [inHand EXCEPT ![t] = @ \cup {n}]
    BY <1>2, <1>3, <1>4
  <2> QED
    BY <1>1, <2>1, <2>2 DEF HandsApart, ListTypeOK
<1>13. ASSUME NEW u \in User, u # t
       PROVE  LocalInv(u)'
  <2>1. age'[u] = age[u]
    BY <1>1, <1>2, <1>13 DEF ListTypeOK
  <2>2. Depth(listHead'.tag) < Depth(listHead.tag)
    BY <1>6, <1>9
  <2> QED
    BY <1>2, <1>3, <1>9, <1>13, <2>1, <2>2, OthersAtSwap
<1>14. Stack!Take(t)
  BY <1>2, <1>3, <1>4, <1>6, <1>7 DEF Stack!Take, r
<1> QED
  BY <1>3, <1>11, <1>12, <1>13, <1>14 DEF ListInv

LEMMA DetachStep ==
  ASSUME ListInv, ListTypeOK', NEW t \in User, SwapDetach(t), Swaps(t)
  PROVE  ListInv' /\ Stack!TakeAll(t)
<1>1. ListTypeOK /\ HandsApart /\ ListHolds(Listed)
  BY DEF ListInv
<1>2. /\ SwapHead(t, "swapdetach", "detach") /\ UNCHANGED nodeNext
      /\ inHand' = [inHand EXCEPT ![t] = @ \cup Members(Chain(nodeNext, oldHead[t].next))]
      /\ age' = [age EXCEPT ![t] = 0]
  BY DEF SwapDetach
<1>3. /\ listPc[t] = "swapdetach" /\ listHead = oldHead[t] /\ listHead' = newHead[t]
      /\ Alone(t) /\ LocalInv(t)'
  <2>1. \A u \in User \ {t} : inHand'[u] = inHand[u]
    BY <1>1, <1>2 DEF ListTypeOK
  <2> QED
    BY <1>2, <2>1, SwapSucceeds
<1>4. inHand' = [inHand EXCEPT ![t] = @ \cup Members(Listed)]
  BY <1>2, <1>3 DEF Listed
<1>5. listHead.next # None /\ listHead'.next = None /\ listHead'.tag = Detached(listHead.tag)
  BY <1>3 DEF ListInv, LocalInv, DetachInv
<1>6. Len(Listed) > 0
  <2>1. Listed \in Seq(Node) /\ listHead.next \in Node
    BY <1>1, <1>5, ListReads DEF ListHolds, ListTypeOK, HeadWord
  <2> QED
    BY <1>1, <2>1 DEF ListHolds, IsChain, ListTypeOK
<1>7. IsChain(nodeNext', listHead'.next, <<>>) /\ Listed' = <<>>
  <2>1. DOMAIN nodeNext' = Node
    BY DEF ListTypeOK
  <2>2. IsChain(nodeNext', listHead'.next, <<>>)
    BY <1>5, <2>1, NodeAssumption DEF IsChain
  <2>3. Chain(nodeNext', listHead'.next) = <<>>
    BY <2>2, ListReads DEF ListTypeOK
  <2> QED
    BY <2>2, <2>3 DEF Listed
<1>8. /\ Depth(listHead'.tag) = 0 /\ Depth(listHead.tag) = Len(Listed)
      /\ Cycle(listHead'.tag) = Cycle(listHead.tag)
  BY <1>1, <1>5, DetachedTag DEF ListTypeOK, HeadWord, ListHolds
<1>9. ListHolds(Listed)'
  <2>1. Members(<<>>) = {} /\ Len(<<>>) = 0
    BY DEF Members
  <2>2. ASSUME NEW m \in Node
        PROVE  \E u \in User : m \in inHand'[u]
    BY <1>1, <1>4 DEF ListHolds, ListTypeOK
  <2> QED
    BY <1>7, <1>8, <2>1, <2>2 DEF ListHolds
<1>10. HandsApart'
  <2>1. \A u \in User, m \in Members(Listed) : m \in Node => m \notin inHand[u]
    BY <1>1 DEF ListHolds
  <2> QED
    BY <1>1, <1>4, <2>1 DEF HandsApart, ListTypeOK
<1>11. ASSUME NEW u \in User, u # t
       PROVE  LocalInv(u)'
  <2>1. age'[u] = age[u]
    BY <1>1, <1>2, <1>11 DEF ListTypeOK
  <2>2. Depth(listHead'.tag) < Depth(listHead.tag)
    BY <1>6, <1>8
  <2> QED
    BY <1>2, <1>3, <1>8, <1>11, <2>1, <2>2, OthersAtSwap
<1>12. Stack!TakeAll(t)
  BY <1>4, <1>7 DEF Stack!TakeAll, Members
<1> QED
  BY <1>3, <1>9, <1>10, <1>11, <1>12 DEF ListInv

LEMMA ListStep ==
  ASSUME ListInv, [ListNext]_listVars
  PROVE  ListInv' /\ [Stack!Next]_(Stack!stackVars)
<1>1. ListTypeOK'
  BY ListTypeNext
<1>2. ASSUME NEW t \in User, NEW n \in Node, BeginPush(t, n)
      PROVE  ListInv' /\ UNCHANGED Stack!stackVars
  BY <1>1, <1>2, QuietSteps
<1>3. ASSUME NEW t \in User, BeginPop(t) \/ BeginDetach(t) \/ LoadPush(t) \/ LoadPop(t)
                               \/ FollowNode(t) \/ LoadDetach(t)
      PROVE  ListInv' /\ UNCHANGED Stack!stackVars
  BY <1>1, <1>3, QuietSteps
<1>4. ASSUME NEW t \in User, LinkNode(t)
      PROVE  ListInv' /\ UNCHANGED Stack!stackVars
  BY <1>1, <1>4, LinkStep
<1>5. ASSUME NEW t \in User, SwapPush(t) \/ SwapPop(t) \/ SwapDetach(t), ~Swaps(t)
      PROVE  ListInv' /\ UNCHANGED Stack!stackVars
  BY <1>1, <1>5, SwapFails DEF SwapPush, SwapPop, SwapDetach
<1>6. ASSUME NEW t \in User, SwapPush(t), Swaps(t)
      PROVE  ListInv' /\ Stack!Next
  BY <1>1, <1>6, PushStep DEF Stack!Next
<1>7. ASSUME NEW t \in User, SwapPop(t), Swaps(t)
      PROVE  ListInv' /\ Stack!Next
  BY <1>1, <1>7, PopStep DEF Stack!Next
<1>8. ASSUME NEW t \in User, SwapDetach(t), Swaps(t)
      PROVE  ListInv' /\ Stack!Next
  BY <1>1, <1>8, DetachStep DEF Stack!Next
<1>9. CASE UNCHANGED listVars
  <2>1. Listed' = Listed /\ ListHolds(Listed)' /\ HandsApart'
    BY <1>9 DEF ListInv, listVars, Listed, ListHolds, HandsApart
  <2>2. \A u \in User : LocalInv(u)'
    BY <1>9 DEF ListInv, listVars, LocalInv, PushInv, DetachInv, PopInv
  <2> QED
    BY <1>1, <1>9, <2>1, <2>2 DEF ListInv, listVars, Stack!stackVars
<1> QED
  BY <1>2, <1>3, <1>4, <1>5, <1>6, <1>7, <1>8, <1>9 DEF ListNext, Pushing, Taking

LEMMA ListInvariance == WholeHead => (ListSpec => []ListInv)
<1>1. WholeHead /\ ListInit => ListInv
  BY ListInitInv
<1>2. ListInv /\ [ListNext]_listVars => ListInv'
  BY ListStep
<1> QED
  BY <1>1, <1>2, PTL DEF ListSpec

(***************************************************************************)
(* The head word, the nodes and the locals of CTSListBase keep their types *)
(* for any nodes and threads: no Pop follows a null pointer, and Depth and *)
(* Sequence stay in their halves of the word.  It holds where value64 is   *)
(* the whole head: 4-byte pointers.                                        *)
(***************************************************************************)
THEOREM ListTyped == WholeHead => (ListSpec => []ListTypeOK)
<1>1. ListInv => ListTypeOK
  BY DEF ListInv
<1> QED
  BY <1>1, ListInvariance, PTL

LEMMA ListCounted == ListInv => NodesAccounted
<1> SUFFICES ASSUME ListInv
             PROVE  CountIsLength /\ NodesConserved
  BY DEF NodesAccounted
<1>1. ListTypeOK /\ ListHolds(Listed) /\ HandsApart
  BY DEF ListInv
<1>2. CountIsLength
  BY <1>1 DEF CountIsLength, ListHolds, Depth
<1>3. ASSUME NEW n \in Node
      PROVE  Cardinality({t \in User : n \in inHand[t]})
               + Cardinality({i \in DOMAIN Listed : Listed[i] = n}) = 1
  <2> DEFINE places == {t \in User : n \in inHand[t]}
             spots == {i \in DOMAIN Listed : Listed[i] = n}
  <2>1. \A x : Cardinality({x}) = 1
    BY FS_Singleton
  <2>2. Cardinality({}) = 0
    BY FS_EmptySet
  <2>3. Listed \in Seq(Node) /\ \A i, j \in 1..Len(Listed) : Listed[i] = Listed[j] => i = j
    BY <1>1, ListReads DEF ListHolds, IsChain, ListTypeOK
  <2>4. CASE n \in Members(Listed)
    <3>1. PICK i \in DOMAIN Listed : Listed[i] = n
      BY <2>4 DEF Members
    <3>2. spots = {i}
      BY <2>3, <3>1
    <3>3. places = {}
      BY <1>1, <2>4 DEF ListHolds
    <3> HIDE DEF places, spots
    <3>4. Cardinality(places) + Cardinality(spots) = 0 + 1
      BY <2>1, <2>2, <3>2, <3>3
    <3> QED
      BY <3>4 DEF places, spots
  <2>5. CASE n \notin Members(Listed)
    <3>1. PICK t \in User : n \in inHand[t]
      BY <1>1, <2>5 DEF ListHolds
    <3>2. places = {t}
      BY <1>1, <3>1 DEF HandsApart
    <3>3. spots = {}
      BY <2>5 DEF Members
    <3> HIDE DEF places, spots
    <3>4. Cardinality(places) + Cardinality(spots) = 1 + 0
      BY <2>1, <2>2, <3>2, <3>3
    <3> QED
      BY <3>4 DEF places, spots
  <2> QED
    BY <2>4, <2>5
<1>4. NodesConserved
  BY <1>3 DEF NodesConserved
<1> QED
  BY <1>2, <1>4

(***************************************************************************)
(* No node of a CTSListBase is lost or in two places, and Count is the     *)
(* length of the list, for any nodes fewer than the depths that the word   *)
(* holds and any threads, where value64 is the whole head.                 *)
(***************************************************************************)
THEOREM ListAccounts == WholeHead => (ListSpec => []NodesAccounted)
BY ListInvariance, ListCounted, PTL

(***************************************************************************)
(* CTSListBase implements the stack: every swap that succeeds is a push, a *)
(* pop or a detach of the whole stack, and no other step changes it, for   *)
(* any nodes and threads, as long as no Pop sleeps through as many pushes  *)
(* as there are sequence numbers, where value64 is the whole head: a swap  *)
(* of the pointer alone puts nodes on the list that others have.           *)
(***************************************************************************)
THEOREM ListIsStack == WholeHead => (ListSpec => ListImplementsStack)
<1>1. WholeHead /\ ListInit => Stack!Init
  BY ListInitInv DEF ListInit, Stack!Init
<1>2. ListInv /\ [ListNext]_listVars => [Stack!Next]_(Stack!stackVars)
  BY ListStep
<1> QED
  BY <1>1, <1>2, ListInvariance, PTL DEF ListSpec, ListImplementsStack, Stack!Spec
=============================================================================
