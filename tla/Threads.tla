------------------------------- MODULE Threads -------------------------------
(***************************************************************************)
(* The threads that share a lock, an event or a list of tier0, and the     *)
(* width of the field in which CThreadSpinRWLock counts its readers.       *)
(***************************************************************************)
EXTENDS Integers, FiniteSets

CONSTANTS
  Thread,      \* threads of the process
  DepthMax,    \* how deep a thread may nest calls of a recursive lock
  ReaderLimit,  \* readers that fit the 16-bit count of the lock word, plus one
  None          \* NULL

ASSUME ThreadAssumption == IsFiniteSet(Thread)
ASSUME DepthMaxAssumption == DepthMax \in Nat
ASSUME ReaderLimitAssumption ==
  ReaderLimit \in Nat /\ Cardinality(Thread) < ReaderLimit

\* A step of thread t in a program whose program counters are pc.
Goto(pc, t, from, to) == pc[t] = from /\ pc' = [pc EXCEPT ![t] = to]
At(pc, steps) == {t \in Thread : pc[t] \in steps}
=============================================================================
