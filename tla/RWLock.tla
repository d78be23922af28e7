-------------------------------- MODULE RWLock --------------------------------
(***************************************************************************)
(* What CThreadRWLock and CThreadSpinRWLock promise: any number of threads *)
(* hold the lock for reading, or one thread holds it for writing.          *)
(***************************************************************************)
EXTENDS Threads

VARIABLES
  readers,  \* threads between LockForRead and UnlockRead
  writers   \* threads between LockForWrite and UnlockWrite

rwVars == <<readers, writers>>

Init == readers = {} /\ writers = {}

LockForRead(t) ==
  /\ t \notin readers
  /\ writers = {}
  /\ readers' = readers \cup {t}
  /\ UNCHANGED writers

UnlockRead(t) ==
  /\ t \in readers
  /\ readers' = readers \ {t}
  /\ UNCHANGED writers

LockForWrite(t) ==
  /\ readers = {}
  /\ writers = {}
  /\ writers' = {t}
  /\ UNCHANGED readers

UnlockWrite(t) ==
  /\ t \in writers
  /\ writers' = {}
  /\ UNCHANGED readers

Next ==
  \E t \in Thread :
    \/ LockForRead(t)
    \/ UnlockRead(t)
    \/ LockForWrite(t)
    \/ UnlockWrite(t)

Spec == Init /\ [][Next]_rwVars
=============================================================================
