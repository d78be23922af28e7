------------------------------ MODULE LinkedList ------------------------------
(***************************************************************************)
(* A list of nodes linked by a pointer in each, as its readers see it.     *)
(***************************************************************************)
EXTENDS Integers, Sequences, FiniteSets

\* The nodes of a part of a list and the one that the last of them points to, if
\* that is a node.
Longer(link, nodes) ==
  IF nodes = <<>> \/ link[nodes[Len(nodes)]] \notin DOMAIN link THEN nodes
  ELSE Append(nodes, link[nodes[Len(nodes)]])

\* The nodes from the given one on; no list has more than all of them.
Chain(link, first) ==
  LET chain[n \in Nat] ==
        IF n = 0 THEN (IF first \in DOMAIN link THEN <<first>> ELSE <<>>)
        ELSE Longer(link, chain[n - 1])
  IN  chain[Cardinality(DOMAIN link)]

Members(nodes) == {nodes[i] : i \in DOMAIN nodes}
=============================================================================
