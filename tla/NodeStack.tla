------------------------------- MODULE NodeStack -------------------------------
(***************************************************************************)
(* What CTSListBase promises: a stack of nodes that threads push one node  *)
(* at a time and take from one node, or all of them, at a time.            *)
(***************************************************************************)
EXTENDS Sequences

CONSTANTS Thread, Node

VARIABLES
  stack,  \* the nodes of the list, the latest first
  hands   \* the nodes each thread has

stackVars == <<stack, hands>>

Init ==
  /\ stack = <<>>
  /\ hands \in [Thread -> SUBSET Node]
  /\ \A t, u \in Thread : t # u => hands[t] \cap hands[u] = {}

Give(t, n) ==
  /\ n \in hands[t]
  /\ hands' = [hands EXCEPT ![t] = @ \ {n}]
  /\ stack' = <<n>> \o stack

Take(t) ==
  /\ stack # <<>>
  /\ hands' = [hands EXCEPT ![t] = @ \cup {Head(stack)}]
  /\ stack' = Tail(stack)

TakeAll(t) ==
  /\ hands' = [hands EXCEPT ![t] = @ \cup {stack[i] : i \in DOMAIN stack}]
  /\ stack' = <<>>

Next == \E t \in Thread : (\E n \in Node : Give(t, n)) \/ Take(t) \/ TakeAll(t)

Spec == Init /\ [][Next]_stackVars
=============================================================================
