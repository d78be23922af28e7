------------------------------ MODULE MessageQueue ------------------------------
(***************************************************************************)
(* CMessageQueue (src/public/tier0/threadtools.h): a linked list under a   *)
(* mutex, and an event that resets itself.  A reader looks at Head without *)
(* the mutex to see whether it has to wait.                                *)
(*                                                                         *)
(* Every message has a node of its own; what a reader or a writer does     *)
(* with the mutex held is one step, up to the call of SignalEvent.Set.     *)
(***************************************************************************)
EXTENDS Threads, LinkedList

CONSTANTS
  Message,
  Writer, Reader  \* the threads that send and the threads that read

ASSUME MessageAssumption == IsFiniteSet(Message) /\ None \notin Message
ASSUME WriterAssumption == Writer \cap Reader = {}

VARIABLES
  head, tail,   \* Head, Tail
  next,         \* Next of the node of each message
  signalEvent,  \* SignalEvent
  queueMutex,   \* QueueAccessMutex, a set of at most one holder
  queuePc,      \* where each thread is
  received,     \* the message each reader got last
  sent          \* messages that have been made

queueVars == <<head, tail, next, signalEvent, queueMutex, queuePc, received, sent>>

QueueThread == Writer \cup Reader

QueueTypeOK ==
  /\ head \in Message \cup {None} /\ tail \in Message \cup {None}
  /\ next \in [Message -> Message \cup {None}]
  /\ signalEvent \in BOOLEAN
  /\ queueMutex \in SUBSET Writer /\ Cardinality(queueMutex) <= 1
  /\ queuePc \in [QueueThread -> {"free", "look", "wait", "take", "signal"}]
  /\ received \in [QueueThread -> Message \cup {None}]
  /\ sent \subseteq Message

QueueInit ==
  /\ head = None /\ tail = None
  /\ next = [m \in Message |-> None]
  /\ signalEvent = FALSE
  /\ queueMutex = {}
  /\ queuePc = [t \in QueueThread |-> "free"]
  /\ received = [t \in QueueThread |-> None]
  /\ sent = {}

-----------------------------------------------------------------------------
\* QueueMessage
AppendMessage(t, m) ==
  /\ m \notin sent
  /\ queueMutex = {}
  /\ Goto(queuePc, t, "free", "signal")
  /\ queueMutex' = {t}
  /\ sent' = sent \cup {m}
  /\ next' = IF tail # None THEN [next EXCEPT ![tail] = m] ELSE next
  /\ head' = IF tail # None THEN head ELSE m
  /\ tail' = m
  /\ UNCHANGED <<signalEvent, received>>

\* Slip: the event is not set.
SignalForgotten(t) ==
  /\ Goto(queuePc, t, "signal", "free")
  /\ queueMutex' = {}
  /\ UNCHANGED <<head, tail, next, signalEvent, received, sent>>

SignalMessage(t) ==
  /\ Goto(queuePc, t, "signal", "free")
  /\ signalEvent' = TRUE
  /\ queueMutex' = {}
  /\ UNCHANGED <<head, tail, next, received, sent>>

\* WaitMessage
CallWaitMessage(t) ==
  /\ Goto(queuePc, t, "free", "look")
  /\ UNCHANGED <<head, tail, next, signalEvent, queueMutex, received, sent>>

MessageWaiting(t) ==
  /\ Goto(queuePc, t, "look", IF head # None THEN "take" ELSE "wait")
  /\ UNCHANGED <<head, tail, next, signalEvent, queueMutex, received, sent>>

WaitSignal(t) ==
  /\ signalEvent
  /\ Goto(queuePc, t, "wait", "look")
  /\ signalEvent' = FALSE
  /\ UNCHANGED <<head, tail, next, queueMutex, received, sent>>

\* Slip: Tail still points to the node that leaves.
TakeButKeepTail(t) ==
  /\ queueMutex = {}
  /\ head # None
  /\ Goto(queuePc, t, "take", "free")
  /\ received' = [received EXCEPT ![t] = head]
  /\ head' = next[head]
  /\ UNCHANGED <<tail, next, signalEvent, queueMutex, sent>>

TakeMessage(t) ==
  /\ queueMutex = {}
  /\ \/ /\ head = None
        /\ Goto(queuePc, t, "take", "look")
        /\ UNCHANGED <<head, tail, received>>
     \/ /\ head # None
        /\ Goto(queuePc, t, "take", "free")
        /\ received' = [received EXCEPT ![t] = head]
        /\ head' = next[head]
        /\ tail' = IF head' = None THEN None ELSE tail
  /\ UNCHANGED <<next, signalEvent, queueMutex, sent>>

WritingMessage(t) == (\E m \in Message : AppendMessage(t, m)) \/ SignalMessage(t)
Receiving(t) == MessageWaiting(t) \/ WaitSignal(t) \/ TakeMessage(t)

QueueNext ==
  \/ \E t \in Writer : WritingMessage(t)
  \/ \E t \in Reader : CallWaitMessage(t) \/ Receiving(t)

(***************************************************************************)
(* Threads run, the mutex and a signal are given to everyone who asks      *)
(* often enough, and a reader comes back while messages wait.              *)
(***************************************************************************)
QueueFairness ==
  /\ \A t \in Writer : WF_queueVars(SignalMessage(t))
  /\ \A t \in Reader :
       /\ WF_queueVars(head # None /\ CallWaitMessage(t))
       /\ WF_queueVars(MessageWaiting(t))
       /\ SF_queueVars(WaitSignal(t)) /\ SF_queueVars(TakeMessage(t))

QueueSpec == QueueInit /\ [][QueueNext]_queueVars /\ QueueFairness

-----------------------------------------------------------------------------
\* The messages of the list, in its order.
Waiting == Chain(next, head)

(***************************************************************************)
(* The queue implements a FIFO: whatever its readers see of Head without   *)
(* the mutex, every message goes to one of them, in the order of sending.  *)
(***************************************************************************)
Queue == INSTANCE Fifo WITH
  Thread <- QueueThread, contents <- Waiting, got <- received
QueueImplementsFifo == Queue!Spec

(***************************************************************************)
(* No message waits beside a reader for ever, although one Set may stand   *)
(* for several messages and one reader is woken by it: the reader that it  *)
(* wakes takes one message and finds the rest when it comes back.          *)
(***************************************************************************)
QueueDrains ==
  \A m \in Message : m \in sent ~> \A i \in DOMAIN Waiting : Waiting[i] # m
=============================================================================
