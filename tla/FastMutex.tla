------------------------------ MODULE FastMutex ------------------------------
(***************************************************************************)
(* CThreadFastMutex (src/public/tier0/threadtools.h and threadtools.cpp):  *)
(* a spin lock that its owner may lock again.  m_depth is a plain int that *)
(* only the owner may touch; ++m_depth and --m_depth are a read and a      *)
(* write each, and Unlock reads it once more to see whether it is zero.    *)
(***************************************************************************)
EXTENDS Threads

VARIABLES
  ownerID,  \* m_ownerID, a set of at most one thread
  depth,    \* m_depth
  mutexPc,       \* where each thread is
  read,     \* the value of m_depth a thread has read
  held      \* how often each thread's callers hold the lock

mutexVars == <<ownerID, depth, mutexPc, read, held>>

MutexTypeOK ==
  /\ ownerID \in SUBSET Thread
  /\ depth \in 0..DepthMax
  /\ mutexPc \in [Thread -> {"run", "compare", "swap", "load", "store",
                        "unload", "unstore", "test", "release"}]
  /\ read \in [Thread -> 0..DepthMax]
  /\ held \in [Thread -> 0..DepthMax]

MutexInit ==
  /\ ownerID = {}
  /\ depth = 0
  /\ mutexPc = [t \in Thread |-> "run"]
  /\ read = [t \in Thread |-> 0]
  /\ held = [t \in Thread |-> 0]

-----------------------------------------------------------------------------
CallLock(t) ==
  /\ held[t] < DepthMax
  /\ Goto(mutexPc, t, "run", "compare")
  /\ UNCHANGED <<ownerID, depth, read, held>>

\* TryLockInline: threadId != m_ownerID is read before the swap is tried.
CompareOwner(t) ==
  /\ Goto(mutexPc, t, "compare", IF t \in ownerID THEN "load" ELSE "swap")
  /\ UNCHANGED <<ownerID, depth, read, held>>

SwapOwner(t) ==
  /\ \/ ownerID = {} /\ ownerID' = {t} /\ Goto(mutexPc, t, "swap", "load")
     \/ ownerID # {} /\ UNCHANGED ownerID
        /\ \E to \in {"compare", "run"} :  \* Lock tries again, TryLock gives up
             Goto(mutexPc, t, "swap", to)
  /\ UNCHANGED <<depth, read, held>>

LoadDepth(t) ==
  /\ \/ Goto(mutexPc, t, "load", "store")
     \/ Goto(mutexPc, t, "unload", "unstore")
  /\ read' = [read EXCEPT ![t] = depth]
  /\ UNCHANGED <<ownerID, depth, held>>

StoreDeeper(t) ==
  /\ Goto(mutexPc, t, "store", "run")
  /\ depth' = read[t] + 1
  /\ held' = [held EXCEPT ![t] = @ + 1]
  /\ UNCHANGED <<ownerID, read>>

CallUnlock(t) ==
  /\ held[t] > 0
  /\ Goto(mutexPc, t, "run", "unload")
  /\ held' = [held EXCEPT ![t] = @ - 1]
  /\ UNCHANGED <<ownerID, depth, read>>

StoreShallower(t) ==
  /\ Goto(mutexPc, t, "unstore", "test")
  /\ depth' = read[t] - 1
  /\ UNCHANGED <<ownerID, read, held>>

\* Slip: the owner is cleared whatever the depth.
TestNothing(t) ==
  /\ Goto(mutexPc, t, "test", "release")
  /\ UNCHANGED <<ownerID, depth, read, held>>

TestDepth(t) ==
  /\ Goto(mutexPc, t, "test", IF depth = 0 THEN "release" ELSE "run")
  /\ UNCHANGED <<ownerID, depth, read, held>>

ReleaseOwner(t) ==
  /\ Goto(mutexPc, t, "release", "run")
  /\ ownerID' = {}
  /\ UNCHANGED <<depth, read, held>>

Locking(t) ==
  CompareOwner(t) \/ SwapOwner(t) \/ LoadDepth(t) \/ StoreDeeper(t)

Unlocking(t) == StoreShallower(t) \/ TestDepth(t) \/ ReleaseOwner(t)

MutexNext ==
  \E t \in Thread :
    CallLock(t) \/ CallUnlock(t) \/ Locking(t) \/ Unlocking(t)

MutexSpec == MutexInit /\ [][MutexNext]_mutexVars

-----------------------------------------------------------------------------
\* Threads that have the mutex, or are about to note that they have it.
Inside == {t \in Thread : held[t] > 0 \/ mutexPc[t] \in
             {"load", "store", "unload", "unstore", "test", "release"}}

(***************************************************************************)
(* However the reads and writes of m_ownerID and m_depth interleave, one   *)
(* thread is inside at a time, and it is the owner.                        *)
(***************************************************************************)
MutexExclusion == \A t \in Inside : Inside = {t} /\ ownerID = {t}

(***************************************************************************)
(* m_depth counts the nested calls of the owner, whoever that is: nothing  *)
(* is lost between the read and the write of ++ and --, and the mutex is   *)
(* free only when all of them have been given back.                        *)
(***************************************************************************)
DepthIsNesting ==
  \A t \in Thread :
    /\ mutexPc[t] = "run" /\ held[t] > 0 => depth = held[t]
    /\ ownerID = {} => depth = 0

(***************************************************************************)
(* The mutex belongs to one thread until it has given back all its calls:  *)
(* exclusion and nesting, which the reads and writes of m_depth without    *)
(* any lock need from each other.                                          *)
(***************************************************************************)
OwnershipNests == MutexExclusion /\ DepthIsNesting
=============================================================================
