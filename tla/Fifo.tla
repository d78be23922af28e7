---------------------------------- MODULE Fifo ----------------------------------
(***************************************************************************)
(* What CMessageQueue promises: messages leave in the order they came, and *)
(* each goes to one reader.                                                *)
(***************************************************************************)
EXTENDS Sequences

CONSTANTS Thread, Message, None

VARIABLES
  contents,  \* the messages that wait
  got,       \* the message each reader got last
  sent       \* the messages sent so far

fifoVars == <<contents, got, sent>>

Init == contents = <<>> /\ got = [t \in Thread |-> None] /\ sent = {}

Send(m) ==
  /\ sent' = sent \cup {m}
  /\ contents' = Append(contents, m)
  /\ UNCHANGED got

Receive(t) ==
  /\ contents # <<>>
  /\ contents' = Tail(contents)
  /\ got' = [got EXCEPT ![t] = Head(contents)]
  /\ UNCHANGED sent

Next == (\E m \in Message : Send(m)) \/ \E t \in Thread : Receive(t)

Spec == Init /\ [][Next]_fifoVars
=============================================================================
