-------------------------- MODULE DependencySearch --------------------------
(***************************************************************************)
(* CDependency::DependsOn and the marks it leaves behind                   *)
(* (src/utils/vpc/dependencies.cpp).                                       *)
(*                                                                         *)
(* A CProjectDependencyGraph owns a counter, m_iDependencyMark, and every  *)
(* CDependency of it a copy of some earlier value of that counter.  A      *)
(* query first bumps the counter (ClearAllDependencyMarks), so that every  *)
(* older copy reads as "not visited", and then searches depth first,       *)
(* stamping each file it enters.  The counter is an unsigned int: it wraps *)
(* at MarkMax, where the real value is 16^8 - 1.                           *)
(*                                                                         *)
(* One step is one call of FindDependency_Internal up to its first nested  *)
(* call, or one turn of its loop over the two dependency lists.  The lists *)
(* are sets here: the order of the children is left open, so whatever      *)
(* holds here holds for every order in which the files were added.         *)
(***************************************************************************)
EXTENDS Integers, Sequences

CONSTANTS
  Node,      \* the CDependency objects of one graph (files and projects)
  Library,   \* those with m_Type = k_eDependencyType_Library
  MarkMax    \* the largest value of the mark counter

ASSUME LibraryAssumption == Library \subseteq Node
ASSUME MarkMaxAssumption == MarkMax \in Nat \ {0}

VARIABLES
  dependencies,  \* m_Dependencies of every file
  additional,    \* m_AdditionalDependencies of every file
  graphMark,     \* CProjectDependencyGraph::m_iDependencyMark
  mark,          \* CDependency::m_iDependencyMark
  searchAt,      \* "idle", "enter" (a call starts) or "scan" (a loop turn)
  query,         \* arguments of the last call of DependsOn
  callee,        \* the `this` of the call that starts
  stack,         \* the pending calls of FindDependency_Internal
  answer         \* what the last finished query returned, "none" at first

graph == <<dependencies, additional>>
searchVars == <<dependencies, additional, graphMark, mark, searchAt, query, callee,
          stack, answer>>

(***************************************************************************)
(* The flags of k_EDependsOnFlags that the search reads.  Its first list   *)
(* is followed whether or not CheckNormalDependencies is set, so that flag *)
(* has no place here.                                                      *)
(***************************************************************************)
Query == [start : Node, target : Node,
          checkAdditional : BOOLEAN, recurse : BOOLEAN, pastLibs : BOOLEAN]

Frame == [node : Node, normal : SUBSET Node, extra : SUBSET Node]

SearchTypeOK ==
  /\ dependencies \in [Node -> SUBSET Node]
  /\ additional \in [Node -> SUBSET Node]
  /\ graphMark \in 0..MarkMax
  /\ mark \in [Node -> 0..MarkMax]
  /\ searchAt \in {"idle", "enter", "scan"}
  /\ query \in Query
  /\ callee \in Node
  /\ stack \in Seq(Frame)
  /\ answer \in {"none", "true", "false"}

-----------------------------------------------------------------------------
(***************************************************************************)
(* BuildProjectDependencies creates every file while the counter is still  *)
(* zero; the constructor stores the counter minus one in unsigned          *)
(* arithmetic.                                                             *)
(***************************************************************************)
InitialMark(counter) == IF counter = 0 THEN MarkMax ELSE counter - 1

SearchInit ==
  /\ dependencies \in [Node -> SUBSET Node]
  /\ additional \in [Node -> SUBSET Node]
  /\ graphMark = 0
  /\ mark = [n \in Node |-> InitialMark(0)]
  /\ searchAt = "idle"
  /\ query \in Query
  /\ callee = query.start
  /\ stack = << >>
  /\ answer = "none"

(***************************************************************************)
(* ClearAllDependencyMarks: bump the counter, or start again from one when *)
(* it is at its limit.                                                     *)
(***************************************************************************)
ClearAllDependencyMarks ==
  \/ /\ graphMark = MarkMax
     /\ graphMark' = 1
     /\ mark' = [n \in Node |-> 0]
  \/ /\ graphMark # MarkMax
     /\ graphMark' = graphMark + 1
     /\ mark' = mark

DependsOn(q) ==
  /\ searchAt = "idle"
  /\ ClearAllDependencyMarks
  /\ query' = q
  /\ callee' = q.start
  /\ stack' = << >>
  /\ searchAt' = "enter"
  /\ UNCHANGED <<graph, answer>>

HasBeenMarked(n) == mark[n] = graphMark

Mark(n) == mark' = [mark EXCEPT ![n] = graphMark]

\* Slip: the depth test is off by one.
DontRecurseDeeper(n) ==
  \/ Len(stack) > 1 /\ ~query.recurse
  \/ n \in Library /\ ~query.pastLibs

\* The depth of the call that starts is Len(stack) + 1.
DontRecurse(n) ==
  \/ Len(stack) > 0 /\ ~query.recurse
  \/ n \in Library /\ ~query.pastLibs

\* "if (pTest == this) return true": every pending caller returns true too.
EnterTarget ==
  /\ searchAt = "enter"
  /\ callee = query.target
  /\ answer' = "true"
  /\ stack' = << >>
  /\ searchAt' = "idle"
  /\ UNCHANGED <<graph, graphMark, mark, query, callee>>

\* "Don't revisit us."
EnterMarked ==
  /\ searchAt = "enter"
  /\ callee # query.target
  /\ HasBeenMarked(callee)
  /\ searchAt' = "scan"
  /\ UNCHANGED <<graph, graphMark, mark, query, callee, stack, answer>>

\* "Don't recurse further?" and "Don't go into the children of libs".
EnterLeaf ==
  /\ searchAt = "enter"
  /\ callee # query.target
  /\ ~HasBeenMarked(callee)
  /\ DontRecurse(callee)
  /\ Mark(callee)
  /\ searchAt' = "scan"
  /\ UNCHANGED <<graph, graphMark, query, callee, stack, answer>>

\* Mark the file and start the loop over its two lists.
EnterFile ==
  /\ searchAt = "enter"
  /\ callee # query.target
  /\ ~HasBeenMarked(callee)
  /\ ~DontRecurse(callee)
  /\ Mark(callee)
  /\ stack' = Append(stack,
                [node   |-> callee,
                 normal |-> dependencies[callee],
                 extra  |-> IF query.checkAdditional
                            THEN additional[callee] ELSE {}])
  /\ searchAt' = "scan"
  /\ UNCHANGED <<graph, graphMark, query, callee, answer>>

Top == stack[Len(stack)]

\* Slip: the loop does not advance.
ScanNormalStuck(child) ==
  /\ searchAt = "scan"
  /\ stack # << >>
  /\ child \in Top.normal
  /\ callee' = child
  /\ searchAt' = "enter"
  /\ UNCHANGED <<graph, graphMark, mark, query, stack, answer>>

\* The next child of the first list, and of the second once that one is done.
ScanNormal(child) ==
  /\ searchAt = "scan"
  /\ stack # << >>
  /\ child \in Top.normal
  /\ stack' = [stack EXCEPT ![Len(stack)].normal = @ \ {child}]
  /\ callee' = child
  /\ searchAt' = "enter"
  /\ UNCHANGED <<graph, graphMark, mark, query, answer>>

ScanAdditional(child) ==
  /\ searchAt = "scan"
  /\ stack # << >>
  /\ Top.normal = {}
  /\ child \in Top.extra
  /\ stack' = [stack EXCEPT ![Len(stack)].extra = @ \ {child}]
  /\ callee' = child
  /\ searchAt' = "enter"
  /\ UNCHANGED <<graph, graphMark, mark, query, answer>>

\* Both lists are done: return false to the caller.
ScanReturn ==
  /\ searchAt = "scan"
  /\ stack # << >>
  /\ Top.normal = {}
  /\ Top.extra = {}
  /\ stack' = SubSeq(stack, 1, Len(stack) - 1)
  /\ UNCHANGED <<graph, graphMark, mark, searchAt, query, callee, answer>>

\* The outermost call has returned false.
ReturnFalse ==
  /\ searchAt = "scan"
  /\ stack = << >>
  /\ answer' = "false"
  /\ searchAt' = "idle"
  /\ UNCHANGED <<graph, graphMark, mark, query, callee, stack>>

Search ==
  \/ EnterTarget
  \/ EnterMarked
  \/ EnterLeaf
  \/ EnterFile
  \/ \E child \in Node : ScanNormal(child)
  \/ \E child \in Node : ScanAdditional(child)
  \/ ScanReturn
  \/ ReturnFalse

SearchNext == Search \/ \E q \in Query : DependsOn(q)

SearchSpec == SearchInit /\ [][SearchNext]_searchVars

\* A started search is run to its end by the thread that called it.
SearchFairSpec == SearchSpec /\ WF_searchVars(Search)

-----------------------------------------------------------------------------
(***************************************************************************)
(* The reference: which files a query should find.  Nothing here mentions  *)
(* marks, a stack or an order.                                             *)
(***************************************************************************)
Successors(n) ==
  IF \/ n # query.start /\ ~query.recurse
     \/ n \in Library /\ ~query.pastLibs
  THEN {}
  ELSE dependencies[n] \cup (IF query.checkAdditional THEN additional[n] ELSE {})

Closed(S) == \A n \in S : Successors(n) \subseteq S

\* n lies in every set that holds the start and all successors of its members.
Reachable(n) == \A S \in SUBSET Node : query.start \in S /\ Closed(S) => n \in S

(***************************************************************************)
(* DependsOn answers the question it was asked: true exactly when a chain  *)
(* of dependencies that the flags allow leads to the target.  This is what *)
(* GetProjectDependencyTree, the p4 solution and every solution generator  *)
(* rely on.  The sweep whose mark is the largest counter value is left     *)
(* out: see MarkMeansVisited.                                              *)
(***************************************************************************)
AnswerCorrect ==
  searchAt = "idle" /\ answer # "none" /\ graphMark # MarkMax =>
    (answer = "true" <=> Reachable(query.target))

(***************************************************************************)
(* A mark only ever means "visited in this sweep" (dependencies.h: "Used   *)
(* when sweeping the dependency graph to prevent looping around forever"): *)
(* when a sweep starts no file carries the mark of that sweep.             *)
(***************************************************************************)
MarkMeansVisited ==
  searchAt = "enter" /\ stack = << >> => \A n \in Node : ~HasBeenMarked(n)

\* The same, for every sweep but the one at the counter's limit.
FreshMarks == graphMark # MarkMax => MarkMeansVisited

(***************************************************************************)
(* Every query ends, also on cyclic dependencies (two projects that list   *)
(* each other, headers that include each other).                           *)
(***************************************************************************)
QueryTerminates == searchAt = "enter" ~> searchAt = "idle"
=============================================================================
