------------------------------ MODULE ThreadStart ------------------------------
(***************************************************************************)
(* The life of a CThread as built for POSIX                                *)
(* (src/public/tier0/threadtools.inl): an owner starts and joins it, the   *)
(* thread runs ThreadProc.  Start holds m_Lock, and gives the thread       *)
(* pointers to two of its locals: bInitSuccess and createComplete.  The    *)
(* n-th thread started has the identifier n.                               *)
(***************************************************************************)
EXTENDS Integers, FiniteSets

CONSTANT StartMax  \* threads started

ASSUME StartAssumption == StartMax \in Nat

VARIABLES
  threadId,     \* m_threadId, 0 for none
  zombieId,     \* m_threadZombieId
  ownerPc,      \* where the owner is
  joining,      \* the thread that Join waits for
  started,      \* threads started
  startResult,  \* what the latest Start returned
  initSuccess,  \* bInitSuccess of the latest Start
  complete,     \* whether its createComplete is signaled
  procPc,       \* where each thread is
  initResult,   \* what Init of each thread returned
  mishap        \* history: what may have broken the protocol

startVars == <<threadId, zombieId, ownerPc, joining, started, startResult,
               initSuccess, complete, procPc, initResult, mishap>>

Proc == 1..StartMax

StartTypeOK ==
  /\ threadId \in 0..StartMax /\ zombieId \in 0..StartMax
  /\ ownerPc \in {"idle", "create", "assume", "wait", "check", "join"}
  /\ joining \in 0..StartMax /\ started \in 0..StartMax
  /\ startResult \in BOOLEAN /\ initSuccess \in BOOLEAN /\ complete \in BOOLEAN
  /\ procPc \in [Proc -> {"none", "begin", "init", "report", "signal", "run",
                          "exit", "ended"}]
  /\ initResult \in [Proc -> BOOLEAN]
  /\ mishap \subseteq {"timeout", "race", "stop"}
  /\ \A n \in Proc : procPc[n] = "none" <=> n > started

StartInit ==
  /\ threadId = 0 /\ zombieId = 0
  /\ ownerPc = "idle" /\ joining = 0 /\ started = 0
  /\ startResult = FALSE /\ initSuccess = FALSE /\ complete = FALSE
  /\ procPc = [n \in Proc |-> "none"]
  /\ initResult = [n \in Proc |-> FALSE]
  /\ mishap = {}

\* Slip: Join holds m_Lock too.
InStartOrJoin == ownerPc \in {"create", "assume", "wait", "check", "join"}

\* The owner holds m_Lock.
InStart == ownerPc \in {"create", "assume", "wait", "check"}

-----------------------------------------------------------------------------
\* The owner.
OwnerGoes(from, to) == ownerPc = from /\ ownerPc' = to

Start ==
  /\ started < StartMax
  /\ OwnerGoes("idle", IF threadId # 0 THEN "idle" ELSE "create")
  /\ startResult' = FALSE
  /\ initSuccess' = FALSE
  /\ complete' = FALSE
  /\ UNCHANGED <<threadId, zombieId, joining, started, procPc, initResult, mishap>>

CreateThread ==
  /\ OwnerGoes("create", "assume")
  /\ started' = started + 1
  /\ threadId' = started'
  /\ procPc' = [procPc EXCEPT ![started'] = "begin"]
  /\ UNCHANGED <<zombieId, joining, startResult, initSuccess, complete>>
  /\ UNCHANGED <<initResult, mishap>>

\* bInitSuccess = true, written while the thread may be writing it too.
AssumeSuccess ==
  /\ OwnerGoes("assume", "wait")
  /\ initSuccess' = TRUE
  /\ mishap' = IF procPc[started] \in {"signal", "run", "exit", "ended"}
                 THEN mishap \cup {"race"} ELSE mishap
  /\ UNCHANGED <<threadId, zombieId, joining, started, startResult, complete>>
  /\ UNCHANGED <<procPc, initResult>>

WaitForCreateComplete ==
  /\ \/ complete /\ OwnerGoes("wait", "check") /\ UNCHANGED mishap
     \/ ~complete /\ OwnerGoes("wait", "idle") /\ mishap' = mishap \cup {"timeout"}
  /\ UNCHANGED <<threadId, zombieId, joining, started, startResult>>
  /\ UNCHANGED <<initSuccess, complete, procPc, initResult>>

CheckInit ==
  /\ OwnerGoes("check", "idle")
  /\ startResult' = (initSuccess /\ threadId # 0)
  /\ threadId' = IF initSuccess THEN threadId ELSE 0
  /\ zombieId' = IF initSuccess THEN zombieId ELSE 0
  /\ UNCHANGED <<joining, started, initSuccess, complete, procPc, initResult, mishap>>

\* Slip: the thread that ended comes first.
JoinZombie ==
  /\ joining' = IF zombieId # 0 THEN zombieId ELSE threadId
  /\ OwnerGoes("idle", IF joining' = 0 THEN "idle" ELSE "join")
  /\ UNCHANGED <<threadId, zombieId, started, startResult, initSuccess, complete>>
  /\ UNCHANGED <<procPc, initResult, mishap>>

Join ==
  /\ joining' = IF threadId # 0 THEN threadId ELSE zombieId
  /\ OwnerGoes("idle", IF joining' = 0 THEN "idle" ELSE "join")
  /\ UNCHANGED <<threadId, zombieId, started, startResult, initSuccess, complete>>
  /\ UNCHANGED <<procPc, initResult, mishap>>

ThreadJoin ==
  /\ OwnerGoes("join", "idle")
  /\ procPc[joining] = "ended"
  /\ zombieId' = 0
  /\ UNCHANGED <<threadId, joining, started, startResult, initSuccess, complete>>
  /\ UNCHANGED <<procPc, initResult, mishap>>

-----------------------------------------------------------------------------
\* The thread.  A thread writes through its pointers whether or not the Start
\* that it got them from is still running; only the latest one is observed.
ProcGoes(n, from, to) ==
  procPc[n] = from /\ procPc' = [procPc EXCEPT ![n] = to]

BeginInit(n) ==
  /\ ProcGoes(n, "begin", "init")
  /\ initSuccess' = IF n = started THEN FALSE ELSE initSuccess
  /\ UNCHANGED <<threadId, zombieId, ownerPc, joining, started, startResult>>
  /\ UNCHANGED <<complete, initResult, mishap>>

InitProc(n, ok) ==
  /\ ProcGoes(n, "init", "report")
  /\ initResult' = [initResult EXCEPT ![n] = ok]
  /\ UNCHANGED <<threadId, zombieId, ownerPc, joining, started, startResult>>
  /\ UNCHANGED <<initSuccess, complete, mishap>>

ReportInit(n) ==
  /\ ProcGoes(n, "report", "signal")
  /\ initSuccess' = IF n = started THEN initResult[n] ELSE initSuccess
  /\ UNCHANGED <<threadId, zombieId, ownerPc, joining, started, startResult>>
  /\ UNCHANGED <<complete, initResult, mishap>>

SignalComplete(n) ==
  /\ ProcGoes(n, "signal", IF initResult[n] THEN "run" ELSE "ended")
  /\ complete' = IF n = started THEN TRUE ELSE complete
  /\ UNCHANGED <<threadId, zombieId, ownerPc, joining, started, startResult>>
  /\ UNCHANGED <<initSuccess, initResult, mishap>>

\* Stop without SUPPORT_STOP_PROTOCOL forgets the thread and returns to it.
Stop(n) ==
  /\ procPc[n] = "run"
  /\ threadId # 0
  /\ threadId' = 0
  /\ zombieId' = 0
  /\ mishap' = mishap \cup {"stop"}
  /\ UNCHANGED <<ownerPc, joining, started, startResult, initSuccess, complete>>
  /\ UNCHANGED <<procPc, initResult>>

\* Run returns, or Stop ends it with an exception.
LeaveProc(n) ==
  /\ ProcGoes(n, "run", "exit")
  /\ UNCHANGED <<threadId, zombieId, ownerPc, joining, started, startResult>>
  /\ UNCHANGED <<initSuccess, complete, initResult, mishap>>

ExitProc(n) ==
  /\ ~InStart
  /\ ProcGoes(n, "exit", "ended")
  /\ zombieId' = threadId
  /\ threadId' = 0
  /\ UNCHANGED <<ownerPc, joining, started, startResult, initSuccess, complete>>
  /\ UNCHANGED <<initResult, mishap>>

Owner == CreateThread \/ AssumeSuccess \/ WaitForCreateComplete \/ CheckInit
         \/ ThreadJoin
ThreadProc(n) ==
  \/ BeginInit(n) \/ (\E ok \in BOOLEAN : InitProc(n, ok)) \/ ReportInit(n)
  \/ SignalComplete(n) \/ LeaveProc(n) \/ ExitProc(n)

StartNext ==
  \/ Start \/ Join \/ Owner
  \/ \E n \in Proc : ThreadProc(n) \/ Stop(n)

\* Threads run, and Run returns.
StartFairness ==
  WF_startVars(Owner) /\ \A n \in Proc : WF_startVars(ThreadProc(n))

StartSpec == StartInit /\ [][StartNext]_startVars /\ StartFairness

-----------------------------------------------------------------------------
Alive == {n \in Proc : procPc[n] \in {"run", "exit"}}

(***************************************************************************)
(* Between two calls of the owner, the object knows the thread that runs,  *)
(* and there is one at most: Init, Start and the end of the thread agree.  *)
(* Three things break it: a Start that timed out, a Start that wrote its   *)
(* bInitSuccess after the thread did, and a Stop that does not stop.       *)
(***************************************************************************)
KnowsItsThread ==
  ownerPc = "idle" /\ mishap = {} =>
    Alive = (IF threadId = 0 THEN {} ELSE {threadId})

(***************************************************************************)
(* Join waits for the thread that runs, also when an earlier one of the    *)
(* same object was never joined.                                           *)
(***************************************************************************)
JoinsTheRunning ==
  [][mishap' = {} /\ Join => Alive \subseteq {joining'}]_startVars

(***************************************************************************)
(* The owner keeps track of its thread over starts, failures, ends and     *)
(* joins: what it knows is what runs, and what it joins is what runs.      *)
(***************************************************************************)
OwnerKeepsTrack == []KnowsItsThread /\ JoinsTheRunning

(***************************************************************************)
(* Start and Join end: the thread can take m_Lock to end, since no Start   *)
(* holds it for ever.                                                      *)
(***************************************************************************)
OwnerReturns == ownerPc # "idle" ~> ownerPc = "idle"

(***************************************************************************)
(* "Optional pre-run call, with ability to fail-create": when Start has    *)
(* returned true, Init has.                                                *)
(***************************************************************************)
StartReportsInit ==
  ownerPc = "idle" /\ startResult => initResult[started]
=============================================================================
