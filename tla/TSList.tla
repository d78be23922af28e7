--------------------------------- MODULE TSList ---------------------------------
(***************************************************************************)
(* CTSListBase (src/public/tier0/tslist.h), the lock-free list behind the  *)
(* pools: a head word of a pointer, a depth and a sequence number that one *)
(* compare-and-swap replaces.  Push, Pop and Detach load the head, make a  *)
(* new one from what they see and swap it in, or start again.              *)
(*                                                                         *)
(* The depth and the sequence number are the two halves of one integer: a  *)
(* push adds one to both, a pop takes one from the depth, and a carry goes *)
(* from the one half to the other.  Only pushes change the sequence        *)
(* number, so a Pop that sleeps through as many pushes as there are        *)
(* sequence numbers could be deceived: SwapPush has that as its bound.     *)
(*                                                                         *)
(* All of it is of value64, which every load and swap of the head works    *)
(* on.  It covers the head where a pointer has four bytes (WholeHead).  In *)
(* a 64-bit build without the native list of Windows it is the pointer     *)
(* alone: the swaps neither compare nor write DepthAndSequence, and the    *)
(* constructor leaves it as it was.                                        *)
(***************************************************************************)
EXTENDS Threads, LinkedList

CONSTANTS
  User,  \* the threads that share the list
  Node,
  DepthCount,    \* values of value.Depth
  SequenceCount, \* values of value.Sequence
  WholeHead      \* value64 covers the pointer, the depth and the sequence

ASSUME NodeAssumption == IsFiniteSet(Node) /\ None \notin Node
ASSUME WholeHeadAssumption == WholeHead \in BOOLEAN
ASSUME TagAssumption ==
  DepthCount \in Nat /\ SequenceCount \in Nat \ {0} /\ Cardinality(Node) < DepthCount

VARIABLES
  listHead,  \* m_Head: [next, tag], tag being value32.DepthAndSequence
  nodeNext,  \* Next of each node
  listPc,    \* where each thread is
  node,      \* the node each thread pushes
  oldHead, newHead,  \* the locals of that name
  inHand,    \* nodes each thread has
  age        \* pushes since each thread loaded the head

listVars == <<listHead, nodeNext, listPc, node, oldHead, newHead, inHand, age>>

Tag == 0..(DepthCount * SequenceCount - 1)
HeadWord == [next : Node \cup {None}, tag : Tag]

ListTypeOK ==
  /\ listHead \in HeadWord
  /\ nodeNext \in [Node -> Node \cup {None}]
  /\ listPc \in [User -> {"free", "push", "link", "swappush", "pop", "follow",
                            "swappop", "detach", "swapdetach"}]
  /\ node \in [User -> Node \cup {None}]
  /\ oldHead \in [User -> HeadWord] /\ newHead \in [User -> HeadWord]
  /\ inHand \in [User -> SUBSET Node]
  /\ age \in [User -> 0..SequenceCount]

Empty == [next |-> None, tag |-> 0]

\* m_Head.value64 = 0.
Constructed == [next : {None}, tag : IF WholeHead THEN {0} ELSE Tag]

\* Every thread begins with some nodes.
ListInit ==
  /\ listHead \in Constructed
  /\ nodeNext = [n \in Node |-> None]
  /\ listPc = [t \in User |-> "free"]
  /\ node = [t \in User |-> None]
  /\ oldHead = [t \in User |-> Empty] /\ newHead = [t \in User |-> Empty]
  /\ inHand \in [User -> SUBSET Node]
  /\ UNION {inHand[t] : t \in User} = Node
  /\ \A t, u \in User : t # u => inHand[t] \cap inHand[u] = {}
  /\ age = [t \in User |-> 0]

-----------------------------------------------------------------------------
\* The arithmetic of DepthAndSequence.
Modulus == DepthCount * SequenceCount
PushedUnbounded(tag) == tag + DepthCount + 1  \* slip: no overflow
Pushed(tag) == (tag + DepthCount + 1) % Modulus
Popped(tag) == (tag - 1) % Modulus
Detached(tag) == tag - (tag % DepthCount)

\* oldHead.value64 = m_Head.value64
LoadHead(t) ==
  /\ oldHead' = [oldHead EXCEPT ![t] = listHead]
  /\ age' = [age EXCEPT ![t] = 0]
  /\ UNCHANGED <<listHead, nodeNext, node, newHead, inHand>>

MakeHead(t, next, tag) ==
  newHead' = [newHead EXCEPT ![t] = [next |-> next, tag |-> tag]]

\* Slip: the swap looks at the pointer only.
SwapsOnPointer(t) == listHead.next = oldHead[t].next

\* ThreadInterlockedAssignIf64 of the head's value64: on success the operation
\* takes effect and its locals die.
Swaps(t) ==
  IF WholeHead THEN listHead = oldHead[t] ELSE listHead.next = oldHead[t].next

Swapped(t) ==
  IF WholeHead THEN newHead[t] ELSE [listHead EXCEPT !.next = newHead[t].next]

SwapHead(t, from, retry) ==
  \/ /\ Swaps(t)
     /\ Goto(listPc, t, from, "free")
     /\ listHead' = Swapped(t)
     /\ oldHead' = [oldHead EXCEPT ![t] = Empty]
     /\ newHead' = [newHead EXCEPT ![t] = Empty]
     /\ node' = [node EXCEPT ![t] = None]
  \/ /\ ~Swaps(t)
     /\ Goto(listPc, t, from, retry)
     /\ UNCHANGED <<listHead, node, oldHead, newHead, inHand, age>>

BeginPush(t, n) ==
  /\ n \in inHand[t]
  /\ Goto(listPc, t, "free", "push")
  /\ node' = [node EXCEPT ![t] = n]
  /\ UNCHANGED <<listHead, nodeNext, oldHead, newHead, inHand, age>>

LoadPush(t) == Goto(listPc, t, "push", "link") /\ LoadHead(t)

LinkNode(t) ==
  /\ Goto(listPc, t, "link", "swappush")
  /\ nodeNext' = [nodeNext EXCEPT ![node[t]] = oldHead[t].next]
  /\ MakeHead(t, node[t], Pushed(oldHead[t].tag))
  /\ UNCHANGED <<listHead, node, oldHead, inHand, age>>

\* Pops between the load of the head and the swap.
Popping == {t \in User : listPc[t] \in {"follow", "swappop"}}

SwapPush(t) ==
  /\ \A u \in Popping : age[u] + 1 < SequenceCount
  /\ SwapHead(t, "swappush", "push")
  /\ Swaps(t) =>
       /\ inHand' = [inHand EXCEPT ![t] = @ \ {node[t]}]
       /\ age' = [u \in User |-> IF u \in Popping THEN age[u] + 1 ELSE age[u]]
  /\ UNCHANGED nodeNext

BeginPop(t) ==
  /\ Goto(listPc, t, "free", "pop")
  /\ UNCHANGED <<listHead, nodeNext, node, oldHead, newHead, inHand, age>>

LoadPop(t) ==
  /\ Goto(listPc, t, "pop", IF listHead.next = None THEN "free" ELSE "follow")
  /\ LoadHead(t)

\* oldHead.value.Next->Next, of a node that may have left the list by now.
FollowNode(t) ==
  /\ Goto(listPc, t, "follow", "swappop")
  /\ MakeHead(t, nodeNext[oldHead[t].next], Popped(oldHead[t].tag))
  /\ UNCHANGED <<listHead, nodeNext, node, oldHead, inHand, age>>

SwapPop(t) ==
  /\ SwapHead(t, "swappop", "pop")
  /\ Swaps(t) =>
       /\ inHand' = [inHand EXCEPT ![t] = @ \cup {oldHead[t].next}]
       /\ age' = [age EXCEPT ![t] = 0]
  /\ UNCHANGED nodeNext

BeginDetach(t) ==
  /\ Goto(listPc, t, "free", "detach")
  /\ UNCHANGED <<listHead, nodeNext, node, oldHead, newHead, inHand, age>>

\* Slip: the depth is left as it was.
LoadDetachCounted(t) ==
  /\ Goto(listPc, t, "detach", IF listHead.next = None THEN "free" ELSE "swapdetach")
  /\ oldHead' = [oldHead EXCEPT ![t] = listHead]
  /\ MakeHead(t, None, listHead.tag)
  /\ age' = [age EXCEPT ![t] = 0]
  /\ UNCHANGED <<listHead, nodeNext, node, inHand>>

LoadDetach(t) ==
  /\ Goto(listPc, t, "detach", IF listHead.next = None THEN "free" ELSE "swapdetach")
  /\ oldHead' = [oldHead EXCEPT ![t] = listHead]
  /\ MakeHead(t, None, Detached(listHead.tag))
  /\ age' = [age EXCEPT ![t] = 0]
  /\ UNCHANGED <<listHead, nodeNext, node, inHand>>

SwapDetach(t) ==
  /\ SwapHead(t, "swapdetach", "detach")
  /\ Swaps(t) =>
       /\ inHand' = [inHand EXCEPT
                       ![t] = @ \cup Members(Chain(nodeNext, oldHead[t].next))]
       /\ age' = [age EXCEPT ![t] = 0]
  /\ UNCHANGED nodeNext

Pushing(t) == LoadPush(t) \/ LinkNode(t) \/ SwapPush(t)
Taking(t) ==
  LoadPop(t) \/ FollowNode(t) \/ SwapPop(t) \/ LoadDetach(t) \/ SwapDetach(t)

ListNext ==
  \E t \in User :
    \/ \E n \in Node : BeginPush(t, n)
    \/ BeginPop(t) \/ BeginDetach(t)
    \/ Pushing(t) \/ Taking(t)

ListSpec == ListInit /\ [][ListNext]_listVars

-----------------------------------------------------------------------------
\* The nodes of the list, in its order.
Listed == Chain(nodeNext, listHead.next)

(***************************************************************************)
(* The list implements a stack: every Push, Pop and Detach takes effect at *)
(* once, at its swap, and gives a thread exactly the nodes it took; a Pop  *)
(* that read the Next of a node which others have popped and pushed again  *)
(* in the meantime starts over.  It does where value64 covers the whole    *)
(* head; a swap of the pointer alone does not notice such a node.          *)
(***************************************************************************)
Stack == INSTANCE NodeStack WITH
  Thread <- User, stack <- Listed, hands <- inHand
ListImplementsStack == Stack!Spec

(***************************************************************************)
(* Count is the length of the list, in the lower half of an integer whose  *)
(* upper half overflows.                                                   *)
(***************************************************************************)
CountIsLength == listHead.tag % DepthCount = Len(Listed)

(***************************************************************************)
(* No node is lost and none is in two places.                              *)
(***************************************************************************)
NodesConserved ==
  \A n \in Node :
    LET places == {t \in User : n \in inHand[t]} IN
    Cardinality(places)
      + Cardinality({i \in DOMAIN Listed : Listed[i] = n}) = 1

(***************************************************************************)
(* The list accounts for its nodes: none is lost or in two places, and the *)
(* count that shares an integer with the sequence number is their number.  *)
(***************************************************************************)
NodesAccounted == CountIsLength /\ NodesConserved
=============================================================================
