----------------------------- MODULE Graphs_proofs -----------------------------
(***************************************************************************)
(* Proofs for the modules about files, the graph of their includes, the    *)
(* cache of it and the projects that depend on the files:                  *)
(* DependencySearch, CacheInvalidation, BuildSet and DependencyCache.      *)
(***************************************************************************)
EXTENDS DependencySearch, CacheInvalidation, DependencyCache, BuildSet,
        SequenceTheorems, TLAPS

-----------------------------------------------------------------------------
(***************************************************************************)
(* Proofs about CDependency::DependsOn, for every graph, every query and   *)
(* every width of the mark counter.                                        *)
(*                                                                         *)
(* The argument is the one of every marking search.  While a sweep runs,   *)
(* a successor of a visited file is itself visited, or about to be         *)
(* entered, or still pending in some frame of the stack (Frontier).  When  *)
(* the stack is empty nothing is pending, so the visited files are a       *)
(* closed set that holds the start and not the target: the answer "false"  *)
(* is right.  The answer "true" is right because only reachable files are  *)
(* ever entered.  Both rest on a sweep starting with no file marked, which *)
(* MarkBound gives for every sweep but the one at the counter's limit.     *)
(***************************************************************************)

Visited == {n \in Node : HasBeenMarked(n)}

Waiting(j) == stack[j].normal \cup stack[j].extra

\* A file carries the mark of an earlier sweep, or was never visited.
MarkBound == \A n \in Node : mark[n] <= graphMark \/ mark[n] = MarkMax

\* What the stack holds is reachable, and so is the file to be entered.
OnlyReachable ==
  /\ \A j \in 1..Len(stack) :
        /\ Reachable(stack[j].node)
        /\ Waiting(j) \subseteq Successors(stack[j].node)
  /\ searchAt = "enter" => Reachable(callee)

\* No successor of a visited file is forgotten.
Frontier ==
  \A v \in Visited : \A c \in Successors(v) :
     \/ c \in Visited
     \/ searchAt = "enter" /\ c = callee
     \/ \E j \in 1..Len(stack) : c \in Waiting(j)

\* Where the sweep starts, and what it has not found yet.
Sweep ==
  /\ query.target \notin Visited
  /\ searchAt = "enter" /\ stack = << >> => callee = query.start /\ Visited = {}
  /\ searchAt = "scan" \/ stack # << >> => query.start \in Visited

SearchInv ==
  searchAt # "idle" /\ graphMark # MarkMax => OnlyReachable /\ Frontier /\ Sweep

Inv == SearchTypeOK /\ MarkBound /\ SearchInv /\ AnswerCorrect

-----------------------------------------------------------------------------
(***************************************************************************)
(* TypeOK: the counter and the marks stay within the unsigned range, and   *)
(* the stack holds well-formed frames.                                     *)
(***************************************************************************)
LEMMA TypeInit == SearchInit => SearchTypeOK
  BY MarkMaxAssumption DEF SearchInit, SearchTypeOK, InitialMark, Query

\* A loop turn takes one pending child out of the topmost frame.
LEMMA ScanFacts ==
  ASSUME SearchTypeOK, NEW child \in Node, ScanNormal(child) \/ ScanAdditional(child)
  PROVE  /\ stack' \in Seq(Frame)
         /\ Len(stack) \in 1..Len(stack)
         /\ Len(stack') = Len(stack)
         /\ child \in Waiting(Len(stack))
         /\ \A j \in 1..Len(stack) :
               /\ stack'[j].node = stack[j].node
               /\ Waiting(j)' \subseteq Waiting(j)
               /\ Waiting(j) \subseteq Waiting(j)' \cup {child}
  <1> DEFINE n == Len(stack)
  <1>1. stack \in Seq(Frame) /\ n \in Nat /\ n \in 1..n
    BY DEF SearchTypeOK, ScanNormal, ScanAdditional
  <1>2. \A j \in 1..n : stack[j] \in Frame
    BY <1>1
  <1>3. PICK top \in Frame :
          /\ stack' = [stack EXCEPT ![n] = top]
          /\ top.node = stack[n].node
          /\ child \in Waiting(n)
          /\ top.normal \cup top.extra \subseteq Waiting(n)
          /\ Waiting(n) \subseteq top.normal \cup top.extra \cup {child}
    <2>1. CASE ScanNormal(child)
      <3> DEFINE top == [stack[n] EXCEPT !.normal = @ \ {child}]
      <3>1. top \in Frame
        BY <1>1, <1>2 DEF Frame
      <3>2. stack' = [stack EXCEPT ![n] = top]
        BY <2>1 DEF ScanNormal
      <3>3. top.node = stack[n].node /\ top.normal = stack[n].normal \ {child}
            /\ top.extra = stack[n].extra /\ child \in stack[n].normal
        BY <1>1, <1>2, <2>1 DEF Frame, ScanNormal, Top
      <3>4. QED
        BY <3>1, <3>2, <3>3 DEF Waiting
    <2>2. CASE ScanAdditional(child)
      <3> DEFINE top == [stack[n] EXCEPT !.extra = @ \ {child}]
      <3>1. top \in Frame
        BY <1>1, <1>2 DEF Frame
      <3>2. stack' = [stack EXCEPT ![n] = top]
        BY <2>2 DEF ScanAdditional
      <3>3. top.node = stack[n].node /\ top.extra = stack[n].extra \ {child}
            /\ top.normal = stack[n].normal /\ child \in stack[n].extra
        BY <1>1, <1>2, <2>2 DEF Frame, ScanAdditional, Top
      <3>4. QED
        BY <3>1, <3>2, <3>3 DEF Waiting
    <2>3. QED
      BY <2>1, <2>2
  <1>4. stack' \in Seq(Frame) /\ Len(stack') = n
    BY <1>1, <1>3
  <1>5. \A j \in 1..n : stack'[j] = IF j = n THEN top ELSE stack[j]
    BY <1>1, <1>3
  <1>6. QED
    BY <1>1, <1>3, <1>4, <1>5 DEF Waiting

\* A call that returns false takes away the topmost frame, which is done.
LEMMA PopFacts ==
  ASSUME SearchTypeOK, ScanReturn
  PROVE  /\ stack' \in Seq(Frame)
         /\ Len(stack') = Len(stack) - 1
         /\ \A j \in 1..Len(stack') : stack'[j] = stack[j]
         /\ Waiting(Len(stack)) = {}
  <1>1. stack \in Seq(Frame) /\ Len(stack) \in Nat \ {0}
    BY DEF SearchTypeOK, ScanReturn
  <1>2. \A j \in 1..(Len(stack) - 1) : stack[j] \in Frame
    BY <1>1
  <1>3. stack' = SubSeq(stack, 1, Len(stack) - 1)
    BY DEF ScanReturn
  <1>4. /\ stack' \in Seq(Frame)
        /\ Len(stack') = Len(stack) - 1
        /\ \A j \in 1..(Len(stack) - 1) : stack'[j] = stack[j]
    <2> DEFINE k == Len(stack) - 1
    <2>1. k \in Nat /\ \A j \in 1..k : stack[j] \in Frame
      BY <1>1, <1>2
    <2>2. /\ SubSeq(stack, 1, k) \in Seq(Frame)
          /\ Len(SubSeq(stack, 1, k)) = IF 1 <= k THEN k - 1 + 1 ELSE 0
          /\ \A j \in 1..(k - 1 + 1) : SubSeq(stack, 1, k)[j] = stack[1 + j - 1]
      <3> HIDE DEF k
      <3>1. QED
        BY <2>1, SubSeqProperties
    <2>3. /\ \A j \in 1..k : SubSeq(stack, 1, k)[j] = stack[j]
          /\ Len(SubSeq(stack, 1, k)) = k
      <3> HIDE DEF k
      <3>1. QED
        BY <2>1, <2>2
    <2>5. QED
      BY <1>3, <2>2, <2>3
  <1>5. QED
    BY <1>4 DEF ScanReturn, Top, Waiting

\* A call that recurses adds a frame that holds all its successors.
LEMMA PushFacts ==
  ASSUME SearchTypeOK, EnterFile
  PROVE  /\ stack' \in Seq(Frame)
         /\ Len(stack') = Len(stack) + 1
         /\ \A j \in 1..Len(stack) : stack'[j] = stack[j]
         /\ stack'[Len(stack')].node = callee
         /\ \A k : k = Len(stack') => Waiting(k)' =
               dependencies[callee] \cup
                 (IF query.checkAdditional THEN additional[callee] ELSE {})
  <1> DEFINE frame == [node |-> callee, normal |-> dependencies[callee],
           extra |-> IF query.checkAdditional THEN additional[callee] ELSE {}]
  <1>1. frame \in Frame
    BY DEF Frame, SearchTypeOK, Query
  <1>2. stack \in Seq(Frame) /\ stack' = Append(stack, frame)
    BY DEF SearchTypeOK, EnterFile
  <1>3. /\ stack' \in Seq(Frame)
        /\ Len(stack') = Len(stack) + 1
        /\ \A j \in 1..Len(stack) : stack'[j] = stack[j]
        /\ stack'[Len(stack')] = frame
    BY <1>1, <1>2, AppendProperties
  <1>4. QED
    BY <1>3 DEF Waiting

LEMMA TypeNext == SearchTypeOK /\ [SearchNext]_searchVars => SearchTypeOK'
  <1> SUFFICES ASSUME SearchTypeOK, [SearchNext]_searchVars PROVE SearchTypeOK'
    OBVIOUS
  <1> USE MarkMaxAssumption DEF SearchTypeOK, graph
  <1>1. CASE EnterTarget
    BY <1>1 DEF EnterTarget, Frame
  <1>2. CASE EnterMarked
    BY <1>2 DEF EnterMarked
  <1>3. CASE EnterLeaf
    BY <1>3 DEF EnterLeaf, Mark
  <1>4. CASE EnterFile
    BY <1>4, PushFacts DEF EnterFile, Mark
  <1>5. ASSUME NEW child \in Node, ScanNormal(child) PROVE SearchTypeOK'
    BY <1>5, ScanFacts DEF ScanNormal
  <1>6. ASSUME NEW child \in Node, ScanAdditional(child) PROVE SearchTypeOK'
    BY <1>6, ScanFacts DEF ScanAdditional
  <1>7. CASE ScanReturn
    BY <1>7, PopFacts DEF ScanReturn
  <1>8. CASE ReturnFalse
    BY <1>8 DEF ReturnFalse
  <1>9. ASSUME NEW q \in Query, DependsOn(q) PROVE SearchTypeOK'
    BY <1>9 DEF DependsOn, ClearAllDependencyMarks, Query, Frame
  <1>10. CASE UNCHANGED searchVars
    BY <1>10 DEF searchVars
  <1>11. QED
    BY <1>1, <1>2, <1>3, <1>4, <1>5, <1>6, <1>7, <1>8, <1>9, <1>10
       DEF SearchNext, Search

(***************************************************************************)
(* Every reachable state of the search is well typed.                      *)
(***************************************************************************)
THEOREM SearchTyped == SearchSpec => []SearchTypeOK
  BY TypeInit, TypeNext, PTL DEF SearchSpec

-----------------------------------------------------------------------------
\* A sweep changes neither the graph nor the question.
LEMMA SameQuestion ==
  ASSUME UNCHANGED <<graph, query>>
  PROVE  /\ \A n : Successors(n)' = Successors(n)
         /\ \A n : Reachable(n)' = Reachable(n)
  <1>1. \A n : Successors(n)' = Successors(n)
    BY DEF Successors, graph
  <1>2. QED
    BY <1>1 DEF Reachable, Closed, graph

\* Reachability is closed under the allowed dependencies.
LEMMA ReachableStep ==
  ASSUME SearchTypeOK, NEW n \in Node, Reachable(n), NEW c \in Successors(n)
  PROVE  c \in Node /\ Reachable(c)
  BY DEF Reachable, Closed, Successors, SearchTypeOK, Query

LEMMA ReachableStart == SearchTypeOK => Reachable(query.start)
  BY DEF Reachable, SearchTypeOK, Query

LEMMA MarkBoundNext == SearchTypeOK /\ MarkBound /\ [SearchNext]_searchVars => MarkBound'
  <1> SUFFICES ASSUME SearchTypeOK, MarkBound, [SearchNext]_searchVars PROVE MarkBound'
    OBVIOUS
  <1> USE MarkMaxAssumption DEF SearchTypeOK, MarkBound
  <1>1. ASSUME NEW q \in Query, DependsOn(q) PROVE MarkBound'
    BY <1>1 DEF DependsOn, ClearAllDependencyMarks
  <1>2. CASE UNCHANGED <<mark, graphMark>>
    BY <1>2
  <1>3. CASE EnterLeaf \/ EnterFile
    BY <1>3 DEF EnterLeaf, EnterFile, Mark
  <1>4. QED
    BY <1>1, <1>2, <1>3 DEF SearchNext, Search, EnterTarget, EnterMarked, ScanNormal,
       ScanAdditional, ScanReturn, ReturnFalse, searchVars

-----------------------------------------------------------------------------
LEMMA SearchInitInv == SearchInit => Inv
  <1> SUFFICES ASSUME SearchInit PROVE Inv
    OBVIOUS
  <1>1. MarkBound
    BY MarkMaxAssumption DEF SearchInit, MarkBound, InitialMark
  <1>2. QED
    BY <1>1, TypeInit DEF SearchInit, Inv, SearchInv, AnswerCorrect

\* A sweep starts with no file marked, unless the counter is at its limit.
LEMMA StartsFresh ==
  ASSUME SearchTypeOK, MarkBound, NEW q \in Query, DependsOn(q), graphMark' # MarkMax
  PROVE  Visited' = {}
  BY MarkMaxAssumption
     DEF DependsOn, ClearAllDependencyMarks, MarkBound, SearchTypeOK, Visited, HasBeenMarked

LEMMA DependsOnInv ==
  ASSUME SearchTypeOK, SearchTypeOK', MarkBound, NEW q \in Query, DependsOn(q)
  PROVE  SearchInv' /\ AnswerCorrect'
  <1>1. SUFFICES ASSUME graphMark' # MarkMax
                 PROVE  (OnlyReachable /\ Frontier /\ Sweep)'
    BY DEF DependsOn, SearchInv, AnswerCorrect
  <1>2. Visited' = {}
    BY <1>1, StartsFresh
  <1>3. searchAt' = "enter" /\ stack' = << >> /\ callee' = query'.start /\ Len(stack') = 0
    BY DEF DependsOn
  <1>4. OnlyReachable'
    <2>1. SearchTypeOK' => Reachable(query.start)'
      BY DEF Reachable, SearchTypeOK, Query
    <2>2. Reachable(callee)'
      BY <1>3, <2>1 DEF Reachable
    <2>3. QED
      BY <1>3, <2>2 DEF OnlyReachable
  <1>5. QED
    BY <1>2, <1>3, <1>4 DEF Frontier, Sweep

LEMMA EnterTargetInv ==
  ASSUME SearchTypeOK, SearchInv, EnterTarget
  PROVE  SearchInv' /\ AnswerCorrect'
  <1>1. graphMark # MarkMax => Reachable(query.target)
    BY DEF EnterTarget, SearchInv, OnlyReachable
  <1>2. Reachable(query.target)' = Reachable(query.target)
    BY SameQuestion DEF EnterTarget
  <1>3. QED
    BY <1>1, <1>2 DEF EnterTarget, SearchInv, AnswerCorrect

LEMMA EnterMarkedInv ==
  ASSUME SearchTypeOK, SearchInv, EnterMarked
  PROVE  SearchInv' /\ AnswerCorrect'
  <1>1. SUFFICES ASSUME graphMark # MarkMax
                 PROVE  (OnlyReachable /\ Frontier /\ Sweep)'
    BY DEF EnterMarked, SearchInv, AnswerCorrect
  <1>2. OnlyReachable /\ Frontier /\ Sweep
    BY <1>1 DEF EnterMarked, SearchInv
  <1>3. Visited' = Visited /\ callee \in Visited /\ (\A j : Waiting(j)' = Waiting(j))
    BY DEF EnterMarked, Visited, HasBeenMarked, SearchTypeOK, Waiting
  <1>4. /\ \A n : Successors(n)' = Successors(n)
        /\ \A n : Reachable(n)' = Reachable(n)
    BY SameQuestion DEF EnterMarked
  <1>5. OnlyReachable'
    BY <1>2, <1>3, <1>4 DEF OnlyReachable, EnterMarked
  <1>6. Frontier'
    BY <1>2, <1>3, <1>4 DEF Frontier, EnterMarked
  <1>7. Sweep'
    BY <1>2, <1>3 DEF Sweep, EnterMarked
  <1>8. QED
    BY <1>5, <1>6, <1>7

\* What marking a file does, whether or not the search goes on below it.
LEMMA MarkFacts ==
  ASSUME SearchTypeOK, callee # query.target, Mark(callee),
         UNCHANGED <<graph, graphMark, query>>
  PROVE  /\ Visited' = Visited \cup {callee}
         /\ query'.target # callee
         /\ \A n : Successors(n)' = Successors(n)
         /\ \A n : Reachable(n)' = Reachable(n)
  BY SameQuestion DEF Mark, Visited, HasBeenMarked, SearchTypeOK, graph

\* The depth test of the code and the start test of Successors agree.
LEMMA DepthIsStart ==
  ASSUME SearchTypeOK, Sweep, searchAt = "enter", ~HasBeenMarked(callee)
  PROVE  Len(stack) > 0 <=> callee # query.start
  <1>1. stack \in Seq(Frame) /\ Len(stack) \in Nat /\ (Len(stack) > 0 <=> stack # << >>)
    BY DEF SearchTypeOK
  <1>2. QED
    BY <1>1 DEF Sweep, Visited

LEMMA EnterLeafInv ==
  ASSUME SearchTypeOK, SearchInv, EnterLeaf
  PROVE  SearchInv' /\ AnswerCorrect'
  <1>1. SUFFICES ASSUME graphMark # MarkMax
                 PROVE  (OnlyReachable /\ Frontier /\ Sweep)'
    BY DEF EnterLeaf, SearchInv, AnswerCorrect
  <1>2. OnlyReachable /\ Frontier /\ Sweep
    BY <1>1 DEF EnterLeaf, SearchInv
  <1>3. /\ Visited' = Visited \cup {callee}
        /\ query'.target # callee
        /\ \A n : Successors(n)' = Successors(n)
        /\ \A n : Reachable(n)' = Reachable(n)
    BY MarkFacts DEF EnterLeaf
  <1>4. \A j : Waiting(j)' = Waiting(j)
    BY DEF EnterLeaf, Waiting
  <1>5. Successors(callee) = {}
    BY <1>2, DepthIsStart DEF EnterLeaf, DontRecurse, Successors
  <1>6. OnlyReachable'
    BY <1>2, <1>3, <1>4 DEF OnlyReachable, EnterLeaf
  <1>7. Frontier'
    BY <1>2, <1>3, <1>4, <1>5 DEF Frontier, EnterLeaf
  <1>8. Sweep'
    BY <1>2, <1>3 DEF Sweep, EnterLeaf
  <1>9. QED
    BY <1>6, <1>7, <1>8

LEMMA EnterFileInv ==
  ASSUME SearchTypeOK, SearchInv, EnterFile
  PROVE  SearchInv' /\ AnswerCorrect'
  <1>1. SUFFICES ASSUME graphMark # MarkMax
                 PROVE  (OnlyReachable /\ Frontier /\ Sweep)'
    BY DEF EnterFile, SearchInv, AnswerCorrect
  <1>2. OnlyReachable /\ Frontier /\ Sweep
    BY <1>1 DEF EnterFile, SearchInv
  <1>3. /\ Visited' = Visited \cup {callee}
        /\ query'.target # callee
        /\ \A n : Successors(n)' = Successors(n)
        /\ \A n : Reachable(n)' = Reachable(n)
    BY MarkFacts DEF EnterFile
  <1> DEFINE n == Len(stack)
  <1>4. /\ n \in Nat /\ Len(stack') = n + 1
        /\ \A j \in 1..n : stack'[j] = stack[j]
        /\ \A j \in 1..n : Waiting(j)' = Waiting(j)
        /\ stack'[n + 1].node = callee
        /\ \A k : k = n + 1 => Waiting(k)' = Successors(callee)
    <2>1. n \in Nat
      BY DEF SearchTypeOK
    <2>2. Successors(callee) = dependencies[callee] \cup
                 (IF query.checkAdditional THEN additional[callee] ELSE {})
      BY <1>2, DepthIsStart DEF EnterFile, DontRecurse, Successors
    <2>3. QED
      BY <2>1, <2>2, PushFacts DEF Waiting
  <1>5. OnlyReachable'
    BY <1>2, <1>3, <1>4 DEF OnlyReachable, EnterFile
  <1>6. Frontier'
    BY <1>2, <1>3, <1>4 DEF Frontier, EnterFile
  <1>7. Sweep'
    BY <1>2, <1>3, <1>4 DEF Sweep, EnterFile
  <1>8. QED
    BY <1>5, <1>6, <1>7

LEMMA ScanInv ==
  ASSUME SearchTypeOK, SearchInv, NEW child \in Node,
         ScanNormal(child) \/ ScanAdditional(child)
  PROVE  SearchInv' /\ AnswerCorrect'
  <1> DEFINE n == Len(stack)
  <1>1. /\ searchAt = "scan" /\ searchAt' = "enter" /\ callee' = child /\ stack # << >>
        /\ UNCHANGED <<graph, graphMark, mark, query>>
    BY DEF ScanNormal, ScanAdditional
  <1>2. SUFFICES ASSUME graphMark # MarkMax
                 PROVE  (OnlyReachable /\ Frontier /\ Sweep)'
    BY <1>1 DEF SearchInv, AnswerCorrect
  <1>3. OnlyReachable /\ Frontier /\ Sweep
    BY <1>1, <1>2 DEF SearchInv
  <1>4. Visited' = Visited
    BY <1>1 DEF Visited, HasBeenMarked
  <1>5. /\ \A m : Successors(m)' = Successors(m)
        /\ \A m : Reachable(m)' = Reachable(m)
    BY <1>1, SameQuestion
  <1>6. stack \in Seq(Frame) /\ n \in Nat /\ \A j \in 1..n : stack[j].node \in Node
    <2>1. stack \in Seq(Frame) /\ n \in Nat /\ \A j \in 1..n : stack[j] \in Frame
      BY DEF SearchTypeOK
    <2>2. QED
      BY <2>1 DEF Frame
  <1>7. /\ n \in 1..n
        /\ Len(stack') = n
        /\ child \in Waiting(n)
        /\ \A j \in 1..n :
             /\ stack'[j].node = stack[j].node
             /\ Waiting(j)' \subseteq Waiting(j)
             /\ Waiting(j) \subseteq Waiting(j)' \cup {child}
    BY ScanFacts
  <1>8. Reachable(child)
    BY <1>3, <1>6, <1>7, ReachableStep DEF OnlyReachable
  <1>9. OnlyReachable'
    BY <1>1, <1>3, <1>5, <1>7, <1>8 DEF OnlyReachable
  <1>10. Frontier'
    BY <1>1, <1>3, <1>4, <1>5, <1>7 DEF Frontier
  <1>11. Sweep'
    <2>1. stack' # << >>
      BY <1>6, <1>7
    <2>2. QED
      BY <1>1, <1>3, <1>4, <2>1 DEF Sweep
  <1>12. QED
    BY <1>9, <1>10, <1>11

LEMMA ScanReturnInv ==
  ASSUME SearchTypeOK, SearchInv, ScanReturn
  PROVE  SearchInv' /\ AnswerCorrect'
  <1> DEFINE n == Len(stack)
  <1>1. searchAt = "scan" /\ UNCHANGED <<graph, graphMark, mark, searchAt, query>> /\ stack # << >>
    BY DEF ScanReturn
  <1>2. SUFFICES ASSUME graphMark # MarkMax
                 PROVE  (OnlyReachable /\ Frontier /\ Sweep)'
    BY <1>1 DEF SearchInv, AnswerCorrect
  <1>3. OnlyReachable /\ Frontier /\ Sweep
    BY <1>1, <1>2 DEF SearchInv
  <1>4. Visited' = Visited
    BY <1>1 DEF Visited, HasBeenMarked
  <1>5. /\ \A m : Successors(m)' = Successors(m)
        /\ \A m : Reachable(m)' = Reachable(m)
    BY <1>1, SameQuestion
  <1>6. /\ n \in Nat
        /\ Len(stack') = n - 1
        /\ \A j \in 1..(n - 1) : stack'[j] = stack[j]
        /\ \A j \in 1..(n - 1) : Waiting(j)' = Waiting(j)
        /\ Waiting(n) = {}
    <2>1. n \in Nat
      BY DEF SearchTypeOK
    <2>2. QED
      BY <2>1, PopFacts DEF Waiting
  <1>7. OnlyReachable'
    BY <1>1, <1>3, <1>5, <1>6 DEF OnlyReachable
  <1>8. Frontier'
    BY <1>1, <1>3, <1>4, <1>5, <1>6 DEF Frontier
  <1>9. Sweep'
    BY <1>1, <1>3, <1>4 DEF Sweep
  <1>10. QED
    BY <1>7, <1>8, <1>9

LEMMA ReturnFalseInv ==
  ASSUME SearchTypeOK, SearchInv, ReturnFalse
  PROVE  SearchInv' /\ AnswerCorrect'
  <1>1. SUFFICES ASSUME graphMark # MarkMax PROVE ~Reachable(query.target)'
    BY DEF ReturnFalse, SearchInv, AnswerCorrect
  <1>2. Frontier /\ Sweep /\ Len(stack) = 0 /\ searchAt = "scan"
    BY <1>1 DEF ReturnFalse, SearchInv
  <1>3. Closed(Visited) /\ Visited \in SUBSET Node /\ query.start \in Visited
    BY <1>2 DEF Frontier, Sweep, Closed, Visited
  <1>4. ~Reachable(query.target)
    BY <1>2, <1>3 DEF Reachable, Sweep
  <1>5. QED
    BY <1>4, SameQuestion DEF ReturnFalse

LEMMA NextInv == Inv /\ [SearchNext]_searchVars => Inv'
  <1> SUFFICES ASSUME Inv, [SearchNext]_searchVars PROVE Inv'
    OBVIOUS
  <1>1. SearchTypeOK' /\ MarkBound'
    BY TypeNext, MarkBoundNext DEF Inv
  <1>2. SearchInv' /\ AnswerCorrect'
    <2>1. ASSUME NEW q \in Query, DependsOn(q) PROVE SearchInv' /\ AnswerCorrect'
      BY <1>1, <2>1, DependsOnInv DEF Inv
    <2>2. CASE EnterTarget
      BY <2>2, EnterTargetInv DEF Inv
    <2>3. CASE EnterMarked
      BY <2>3, EnterMarkedInv DEF Inv
    <2>4. CASE EnterLeaf
      BY <2>4, EnterLeafInv DEF Inv
    <2>5. CASE EnterFile
      BY <2>5, EnterFileInv DEF Inv
    <2>6. ASSUME NEW child \in Node, ScanNormal(child) \/ ScanAdditional(child)
          PROVE  SearchInv' /\ AnswerCorrect'
      BY <2>6, ScanInv DEF Inv
    <2>7. CASE ScanReturn
      BY <2>7, ScanReturnInv DEF Inv
    <2>8. CASE ReturnFalse
      BY <2>8, ReturnFalseInv DEF Inv
    <2>9. CASE UNCHANGED searchVars
      <3>1. UNCHANGED <<graph, query>>
        BY <2>9 DEF searchVars, graph
      <3>2. /\ \A n : Successors(n)' = Successors(n)
            /\ \A n : Reachable(n)' = Reachable(n)
        BY <3>1, SameQuestion
      <3>3. Visited' = Visited /\ \A j : Waiting(j)' = Waiting(j)
        BY <2>9 DEF searchVars, Visited, HasBeenMarked, Waiting
      <3>4. UNCHANGED <<searchAt, graphMark, stack, callee, query, answer>>
        BY <2>9 DEF searchVars
      <3>5. SearchInv'
        BY <3>2, <3>3, <3>4 DEF Inv, SearchInv, OnlyReachable, Frontier, Sweep
      <3>6. AnswerCorrect'
        BY <3>2, <3>4 DEF Inv, AnswerCorrect
      <3>7. QED
        BY <3>5, <3>6
    <2>10. QED
      BY <2>1, <2>2, <2>3, <2>4, <2>5, <2>6, <2>7, <2>8, <2>9 DEF SearchNext, Search
  <1>3. QED
    BY <1>1, <1>2 DEF Inv

(***************************************************************************)
(* DependsOn returns true exactly when the flags allow a chain of          *)
(* dependencies from the file it is called on to the one it tests, in      *)
(* every graph, cyclic or not, whatever earlier queries left in the marks. *)
(***************************************************************************)
THEOREM AnswerIsCorrect == SearchSpec => []AnswerCorrect
  <1>1. Inv => AnswerCorrect
    BY DEF Inv
  <1>2. QED
    BY <1>1, SearchInitInv, NextInv, PTL DEF SearchSpec

(***************************************************************************)
(* No sweep finds a mark it did not set itself, except the one sweep whose *)
(* number is the largest unsigned value.                                   *)
(***************************************************************************)
THEOREM MarksAreFresh == SearchSpec => []FreshMarks
  <1>1. Inv => FreshMarks
    BY DEF Inv, SearchInv, Sweep, FreshMarks, MarkMeansVisited, Visited
  <1>2. QED
    BY <1>1, SearchInitInv, NextInv, PTL DEF SearchSpec

-----------------------------------------------------------------------------
(***************************************************************************)
(* For every set of files, every dependency graph and every set of changed *)
(* files, the three loops of LoadCache keep exactly the entries that are   *)
(* not outdated and leave no pointer to a deleted one.                     *)
(*                                                                         *)
(* The two properties are stated of the final state only; the invariant    *)
(* below carries them there through the passes.  Its two halves:           *)
(*   - an entry that could stay never becomes dirty (NeverTooDirty);       *)
(*   - a pass that found nothing new has looked at every entry after the   *)
(*     last entry became dirty, so that no clean entry has a dirty child   *)
(*     (PassClean), which is what the deletion relies on (DeleteClean).    *)
(***************************************************************************)

Stay == Survivors(loaded, includes, Outdated)

ClosedTable == SelfContained(loaded, includes)

NeverTooDirty == dirty \cap Stay = {}

\* The entry is clean and so are its children.
CleanOrDirty(f) == f \in dirty \/ includes[f] \cap dirty = {}

CheckPhase ==
  loop = "check" =>
    /\ allFiles = loaded
    /\ dirty = (loaded \ unvisited) \cap Outdated

AfterCheck == loop # "check" => loaded \cap Outdated \subseteq dirty

PassClean ==
  loop = "mark" =>
    /\ allFiles = loaded
    /\ ~anyDirty => \A f \in loaded \ unvisited : CleanOrDirty(f)

DeleteClean ==
  loop \in {"delete", "done"} =>
    /\ allFiles = loaded \ (dirty \ unvisited)
    /\ \A f \in loaded : CleanOrDirty(f)
    /\ loop = "done" => unvisited = {}

NothingCheckedYet == loop # "done" => valid = {}

InvalidationInv ==
  /\ LoadTypeOK
  /\ NothingCheckedYet
  /\ ClosedTable
  /\ NeverTooDirty
  /\ CheckPhase
  /\ AfterCheck
  /\ PassClean
  /\ DeleteClean

-----------------------------------------------------------------------------
(***************************************************************************)
(* What the reference means: the survivors are up to date, they hold their *)
(* own dependencies, and they are the largest such set.                    *)
(***************************************************************************)
LEMMA SurvivorsLargest ==
  ASSUME NEW E, NEW D, NEW O
  PROVE  /\ Survivors(E, D, O) \subseteq E \ O
         /\ SelfContained(Survivors(E, D, O), D)
         /\ \A T \in SUBSET (E \ O) :
              SelfContained(T, D) => T \subseteq Survivors(E, D, O)
<1> DEFINE F == {S \in SUBSET (E \ O) : SelfContained(S, D)}
<1>1. Survivors(E, D, O) = UNION F
  BY DEF Survivors
<1>2. UNION F \subseteq E \ O
  OBVIOUS
<1>3. SelfContained(UNION F, D)
  <2> SUFFICES ASSUME NEW f \in UNION F
               PROVE  D[f] \subseteq UNION F
    BY DEF SelfContained
  <2>1. PICK S \in F : f \in S
    OBVIOUS
  <2>2. D[f] \subseteq S
    BY <2>1 DEF SelfContained
  <2> QED BY <2>1, <2>2
<1>4. ASSUME NEW T \in SUBSET (E \ O), SelfContained(T, D)
      PROVE  T \subseteq UNION F
  BY <1>4
<1> QED BY <1>1, <1>2, <1>3, <1>4

\* The invariant holds of what was read from the file.
LEMMA InvalidationInitInv == LoadInit => InvalidationInv
<1> SUFFICES ASSUME LoadInit PROVE InvalidationInv
  OBVIOUS
<1>1. LoadTypeOK
  BY DEF LoadInit, LoadTypeOK
<1>2. ClosedTable
  BY DEF LoadInit, ClosedTable, SelfContained
<1>3. /\ NothingCheckedYet /\ NeverTooDirty /\ CheckPhase
      /\ AfterCheck /\ PassClean /\ DeleteClean
  BY DEF LoadInit, NothingCheckedYet, NeverTooDirty, CheckPhase, AfterCheck,
         PassClean, DeleteClean
<1> QED BY <1>1, <1>2, <1>3 DEF InvalidationInv

\* Every step of the loops keeps the invariant.
LEMMA InvalidationStepInv == InvalidationInv /\ [LoadNext]_loadVars => InvalidationInv'
<1> SUFFICES ASSUME InvalidationInv, [LoadNext]_loadVars PROVE InvalidationInv'
  OBVIOUS
<1> USE DEF InvalidationInv
<1>0. /\ Stay \subseteq loaded \ Outdated
      /\ SelfContained(Stay, includes)
  BY SurvivorsLargest DEF Stay
<1>f. ASSUME UNCHANGED <<loaded, includes, changed>>
      PROVE  Stay' = Stay /\ Outdated' = Outdated /\ ClosedTable'
  BY <1>f DEF Stay, Survivors, SelfContained, Outdated, ClosedTable
<1>1. ASSUME NEW f \in File, CheckEntry(f)
      PROVE  InvalidationInv'
  <2> USE <1>1 DEF CheckEntry
  <2>1. Stay' = Stay /\ Outdated' = Outdated /\ ClosedTable'
    BY <1>f
  <2>2. LoadTypeOK' /\ NothingCheckedYet'
    BY DEF LoadTypeOK, NothingCheckedYet
  <2>3. NeverTooDirty'
    BY <1>0, <2>1 DEF NeverTooDirty
  <2>4. CheckPhase'
    BY <2>1 DEF CheckPhase, LoadTypeOK
  <2>5. AfterCheck' /\ PassClean' /\ DeleteClean'
    BY DEF AfterCheck, PassClean, DeleteClean
  <2> QED BY <2>1, <2>2, <2>3, <2>4, <2>5
<1>2. ASSUME BeginPass
      PROVE  InvalidationInv'
  <2> USE <1>2 DEF BeginPass
  <2>1. Stay' = Stay /\ Outdated' = Outdated /\ ClosedTable'
    BY <1>f
  <2>2. LoadTypeOK' /\ NothingCheckedYet'
    BY DEF LoadTypeOK, NothingCheckedYet
  <2>3. NeverTooDirty'
    BY <2>1 DEF NeverTooDirty
  <2>4. AfterCheck'
    BY <2>1 DEF AfterCheck, CheckPhase
  <2>5. CheckPhase' /\ PassClean' /\ DeleteClean'
    BY DEF CheckPhase, PassClean, DeleteClean
  <2> QED BY <2>1, <2>2, <2>3, <2>4, <2>5
<1>3. ASSUME NEW f \in File, MarkEntry(f)
      PROVE  InvalidationInv'
  <2> USE <1>3 DEF MarkEntry
  <2>1. Stay' = Stay /\ Outdated' = Outdated /\ ClosedTable'
    BY <1>f
  <2>2. LoadTypeOK' /\ NothingCheckedYet'
    BY DEF LoadTypeOK, NothingCheckedYet
  <2>3. NeverTooDirty'
    BY <1>0, <2>1 DEF NeverTooDirty, SelfContained
  <2>4. AfterCheck'
    BY <2>1 DEF AfterCheck
  <2>5. PassClean'
    BY DEF PassClean, CleanOrDirty, LoadTypeOK
  <2>6. CheckPhase' /\ DeleteClean'
    BY DEF CheckPhase, DeleteClean
  <2> QED BY <2>1, <2>2, <2>3, <2>4, <2>5, <2>6
<1>4. ASSUME BeginDelete
      PROVE  InvalidationInv'
  <2> USE <1>4 DEF BeginDelete
  <2>1. Stay' = Stay /\ Outdated' = Outdated /\ ClosedTable'
    BY <1>f
  <2>2. LoadTypeOK' /\ NothingCheckedYet'
    BY DEF LoadTypeOK, NothingCheckedYet
  <2>3. NeverTooDirty' /\ AfterCheck'
    BY <2>1 DEF NeverTooDirty, AfterCheck
  <2>4. DeleteClean'
    BY DEF DeleteClean, PassClean, CleanOrDirty, LoadTypeOK
  <2>5. CheckPhase' /\ PassClean'
    BY DEF CheckPhase, PassClean
  <2> QED BY <2>1, <2>2, <2>3, <2>4, <2>5
<1>5. ASSUME NEW f \in File, DeleteEntry(f)
      PROVE  InvalidationInv'
  <2> USE <1>5 DEF DeleteEntry
  <2>1. Stay' = Stay /\ Outdated' = Outdated /\ ClosedTable'
    BY <1>f
  <2>2. LoadTypeOK' /\ NothingCheckedYet'
    BY DEF LoadTypeOK, NothingCheckedYet
  <2>3. NeverTooDirty' /\ AfterCheck'
    BY <2>1 DEF NeverTooDirty, AfterCheck
  <2>4. DeleteClean'
    BY DEF DeleteClean, CleanOrDirty, LoadTypeOK
  <2>5. CheckPhase' /\ PassClean'
    BY DEF CheckPhase, PassClean
  <2> QED BY <2>1, <2>2, <2>3, <2>4, <2>5
<1>6. ASSUME MarkAllValid
      PROVE  InvalidationInv'
  <2> USE <1>6 DEF MarkAllValid
  <2>1. Stay' = Stay /\ Outdated' = Outdated /\ ClosedTable'
    BY <1>f
  <2>2. LoadTypeOK' /\ NothingCheckedYet'
    BY DEF LoadTypeOK, NothingCheckedYet
  <2>3. NeverTooDirty' /\ AfterCheck'
    BY <2>1 DEF NeverTooDirty, AfterCheck
  <2>4. DeleteClean'
    BY DEF DeleteClean, CleanOrDirty
  <2>5. CheckPhase' /\ PassClean'
    BY DEF CheckPhase, PassClean
  <2> QED BY <2>1, <2>2, <2>3, <2>4, <2>5
<1>7. ASSUME UNCHANGED loadVars
      PROVE  InvalidationInv'
  <2> USE <1>7 DEF loadVars
  <2>1. Stay' = Stay /\ Outdated' = Outdated /\ ClosedTable'
    BY <1>f
  <2>2. LoadTypeOK' /\ NothingCheckedYet' /\ NeverTooDirty' /\ AfterCheck'
    BY <2>1 DEF LoadTypeOK, NothingCheckedYet, NeverTooDirty, AfterCheck
  <2>3. CheckPhase' /\ PassClean' /\ DeleteClean'
    BY <2>1 DEF CheckPhase, PassClean, DeleteClean, CleanOrDirty
  <2> QED BY <2>1, <2>2, <2>3
<1> QED BY <1>1, <1>2, <1>3, <1>4, <1>5, <1>6, <1>7 DEF LoadNext, LoadStep, LoadDone

\* So it always holds.
LEMMA InvalidationInvHolds == LoadSpec => []InvalidationInv
BY InvalidationInitInv, InvalidationStepInv, PTL DEF LoadSpec

-----------------------------------------------------------------------------
(***************************************************************************)
(* Types, for the loops of LoadCache: in particular only entries that      *)
(* exist are ever marked as checked.                                       *)
(***************************************************************************)
THEOREM InvalidationTyped == LoadSpec => []LoadTypeOK
<1>1. InvalidationInv => LoadTypeOK
  BY DEF InvalidationInv
<1> QED BY <1>1, InvalidationInvHolds, PTL

(***************************************************************************)
(* RemoveDirtyCacheEntries never leaves an entry that points at a deleted  *)
(* one.                                                                    *)
(***************************************************************************)
THEOREM NoPointerDangles == LoadSpec => []NoDanglingPointer
<1>1. InvalidationInv => NoDanglingPointer
  BY DEF InvalidationInv, NoDanglingPointer, DeleteClean, CleanOrDirty, ClosedTable,
         SelfContained
<1> QED BY <1>1, InvalidationInvHolds, PTL

(***************************************************************************)
(* LoadCache keeps the entries from which no outdated file can be reached, *)
(* and no other.                                                           *)
(***************************************************************************)
THEOREM SurvivorsStay == LoadSpec => []ExactlySurvivorsStay
<1>1. InvalidationInv => ExactlySurvivorsStay
  <2> SUFFICES ASSUME InvalidationInv, loop = "done"
               PROVE  allFiles = Stay
    BY DEF ExactlySurvivorsStay, Stay
  <2>1. allFiles = loaded \ dirty
    BY DEF InvalidationInv, DeleteClean
  <2>2. Stay \subseteq allFiles
    BY <2>1, SurvivorsLargest DEF InvalidationInv, NeverTooDirty, Stay
  <2>3. SelfContained(allFiles, includes)
    BY <2>1 DEF InvalidationInv, DeleteClean, CleanOrDirty, ClosedTable, SelfContained
  <2>4. allFiles \in SUBSET (loaded \ Outdated)
    BY <2>1 DEF InvalidationInv, AfterCheck
  <2>5. allFiles \subseteq Stay
    BY <2>3, <2>4, SurvivorsLargest DEF Stay
  <2> QED BY <2>2, <2>5
<1> QED BY <1>1, InvalidationInvHolds, PTL

-----------------------------------------------------------------------------
(***************************************************************************)
(* For every command line, every set of groups and every dependency graph: *)
(* m_TargetProjects holds no project twice, and at the end exactly what    *)
(* the commands ask for without what they refuse.                          *)
(*                                                                         *)
(* During the first loop the targets and what the current command has      *)
(* still to add make up what was asked for so far (AddPhase).  During the  *)
(* second the targets without what is still to be removed are what was     *)
(* asked for without what was refused so far (RemovePhase).  A removal     *)
(* takes out one occurrence only, so the second part stands on the first   *)
(* loop's never adding a project twice.                                    *)
(***************************************************************************)

\* Commands whose loop has been entered.
Begun == IF working THEN i ELSE i - 1

AddPhase == pass = "add" => Targets \cup todo = Asked(Begun)

RemovePhase ==
  pass = "remove" =>
    Targets \ todo = Asked(Len(commands)) \ Refused(Begun)

BuildInv ==
  /\ BuildTypeOK
  /\ NoProjectTwice
  /\ AddPhase
  /\ RemovePhase
  /\ RemovalTrumps

-----------------------------------------------------------------------------
\* What a command selects are projects.
LEMMA SelectedType ==
  ASSUME BuildTypeOK, NEW c \in Command
  PROVE  Selected(c) \subseteq Project /\ members[c.tag] \subseteq Project
<1>1. c.tag \in Tag
  BY DEF Command
<1>2. members[c.tag] \subseteq Project
  BY <1>1 DEF BuildTypeOK
<1>3. \A p \in Project : Dependents(p) \subseteq Project
                         /\ Dependencies(p) \subseteq Project
  BY DEF Dependents, Dependencies
<1> QED BY <1>2, <1>3 DEF Selected

\* One more command of the first loop.
LEMMA AskedStep ==
  ASSUME NEW k \in Nat \ {0}
  PROVE  Asked(k) = Asked(k - 1) \cup (IF Adds(commands[k])
                                       THEN Selected(commands[k]) ELSE {})
<1> DEFINE J(n) == {j \in 1..n : Adds(commands[j])}
<1>1. J(k) = J(k - 1) \cup (IF Adds(commands[k]) THEN {k} ELSE {})
  OBVIOUS
<1>2. \A n : Asked(n) = UNION {Selected(commands[j]) : j \in J(n)}
  BY DEF Asked
<1> HIDE DEF J
<1> QED BY <1>1, <1>2

\* One more command of the second loop.
LEMMA RefusedStep ==
  ASSUME NEW k \in Nat \ {0}
  PROVE  Refused(k) = Refused(k - 1) \cup (IF Removes(commands[k])
                                           THEN members[commands[k].tag] ELSE {})
<1> DEFINE J(n) == {j \in 1..n : Removes(commands[j])}
<1>1. J(k) = J(k - 1) \cup (IF Removes(commands[k]) THEN {k} ELSE {})
  OBVIOUS
<1>2. \A n : Refused(n) = UNION {members[commands[j].tag] : j \in J(n)}
  BY DEF Refused
<1> HIDE DEF J
<1> QED BY <1>1, <1>2

\* What was asked and refused depends on the input alone.
LEMMA InputStays ==
  ASSUME UNCHANGED input
  PROVE  /\ \A k : Asked(k)' = Asked(k)
         /\ \A k : Refused(k)' = Refused(k)
         /\ commands' = commands
BY DEF input, Asked, Refused, Selected, Dependents, Dependencies

\* Adding a project that is not listed.
LEMMA AppendNew ==
  ASSUME BuildTypeOK, NoProjectTwice, NEW p \in Project, ~Listed(p),
         targets' = Append(targets, p)
  PROVE  /\ targets' \in Seq(Project)
         /\ NoProjectTwice'
         /\ Targets' = Targets \cup {p}
<1>1. /\ targets \in Seq(Project)
      /\ Len(targets') = Len(targets) + 1
      /\ \A k \in 1..Len(targets) : targets'[k] = targets[k]
      /\ targets'[Len(targets) + 1] = p
  BY DEF BuildTypeOK
<1>2. targets' \in Seq(Project)
  BY <1>1
<1>3. NoProjectTwice'
  BY <1>1 DEF NoProjectTwice, Listed
<1>4. Targets' = Targets \cup {p}
  BY <1>1 DEF Targets
<1> QED BY <1>2, <1>3, <1>4

\* FindAndRemove of a project that is listed once.
LEMMA RemoveListed ==
  ASSUME BuildTypeOK, NoProjectTwice, NEW k \in 1..Len(targets),
         targets' = Without(k)
  PROVE  /\ targets' \in Seq(Project)
         /\ NoProjectTwice'
         /\ Targets' = Targets \ {targets[k]}
<1>1. /\ targets \in Seq(Project)
      /\ Len(targets) \in Nat \ {0}
      /\ \A j \in 1..Len(targets) : targets[j] \in Project
  BY DEF BuildTypeOK
<1> DEFINE n == Len(targets) - 1
<1>2. n \in Nat
  BY <1>1
<1>3. targets' \in [1..n -> Project]
  BY <1>1 DEF Without
<1>4. targets' \in Seq(Project) /\ Len(targets') = n
  BY <1>2, <1>3
<1>5. \A j \in 1..n : targets'[j] = IF j < k THEN targets[j] ELSE targets[j + 1]
  BY DEF Without
<1>6. NoProjectTwice'
  BY <1>1, <1>4, <1>5 DEF NoProjectTwice
<1>7. Targets' \subseteq Targets \ {targets[k]}
  BY <1>1, <1>4, <1>5 DEF Targets, NoProjectTwice
<1>8. ASSUME NEW p \in Targets, p # targets[k]
      PROVE  p \in Targets'
  <2>1. PICK j \in 1..Len(targets) : targets[j] = p
    BY DEF Targets
  <2>2. CASE j < k
    BY <1>1, <1>4, <1>5, <2>1, <2>2 DEF Targets
  <2>3. CASE j > k
    <3>1. j - 1 \in 1..n /\ ~(j - 1 < k) /\ (j - 1) + 1 = j
      BY <1>1, <2>3
    <3> QED BY <1>4, <1>5, <2>1, <3>1 DEF Targets
  <2> QED BY <1>8, <2>1, <2>2, <2>3
<1> QED BY <1>4, <1>6, <1>7, <1>8

\* A step that leaves the input alone has only the position, the loop and the
\* targets to keep in their sets.
LEMMA TypeStep ==
  ASSUME BuildTypeOK, UNCHANGED input,
         pass' \in {"add", "remove", "done"},
         i' \in 1..Len(commands) + 1,
         working' \in BOOLEAN,
         todo' \subseteq Project,
         working' => i' <= Len(commands),
         ~working' => todo' = {},
         targets' \in Seq(Project)
  PROVE  BuildTypeOK'
<1>1. /\ commands' = commands /\ members' = members
      /\ owner' = owner /\ dependsOn' = dependsOn
  BY DEF input
<1>2. Len(commands') = Len(commands)
  BY <1>1
<1>3. /\ commands' \in Seq(Command)
      /\ members' \in [Tag -> SUBSET Project]
      /\ owner' \in [ProjectNode -> Project]
      /\ dependsOn' \in SUBSET (ProjectNode \X ProjectNode)
  BY <1>1 DEF BuildTypeOK
<1> QED BY <1>2, <1>3 DEF BuildTypeOK

-----------------------------------------------------------------------------
\* The invariant holds before the first command.
LEMMA BuildInitInv == BuildInit => BuildInv
<1> SUFFICES ASSUME BuildInit PROVE BuildInv
  OBVIOUS
<1>1. BuildTypeOK
  <2>1. Len(commands) \in Nat /\ 1 \in 1..Len(commands) + 1
    BY DEF BuildInit
  <2>2. << >> \in Seq(Project)
    OBVIOUS
  <2> QED BY <2>1, <2>2 DEF BuildInit, BuildTypeOK
<1>2. NoProjectTwice /\ RemovePhase /\ RemovalTrumps
  BY DEF BuildInit, NoProjectTwice, RemovePhase, RemovalTrumps
<1>3. AddPhase
  BY DEF BuildInit, AddPhase, Begun, Asked, Targets
<1> QED BY <1>1, <1>2, <1>3 DEF BuildInv

\* Every step of the two loops keeps the invariant.
LEMMA BuildStepInv == BuildInv /\ [BuildNext]_buildVars => BuildInv'
<1> SUFFICES ASSUME BuildInv, [BuildNext]_buildVars PROVE BuildInv'
  OBVIOUS
<1> USE DEF BuildInv
<1>t. Len(commands) \in Nat /\ i \in 1..Len(commands) + 1
  BY DEF BuildTypeOK
<1>1. ASSUME StartAdd PROVE BuildInv'
  <2> USE <1>1 DEF StartAdd, StartCommand
  <2>1. /\ UNCHANGED <<input, pass, targets>> /\ pass = "add"
        /\ ~working /\ i \in 1..Len(commands) /\ todo = {}
    BY <1>t DEF BuildTypeOK
  <2>2. commands[i] \in Command
    BY <2>1 DEF BuildTypeOK
  <2>3. BuildTypeOK'
    <3>1. todo' \subseteq Project
      BY <2>1, <2>2, SelectedType
    <3>2. /\ working' \in BOOLEAN
          /\ i' \in 1..Len(commands) + 1
          /\ working' => i' <= Len(commands)
          /\ ~working' => todo' = {}
      <4>1. CASE Adds(commands[i])
        <5>1. working' = TRUE /\ i' = i
          BY <4>1
        <5>2. i \in 1..Len(commands) + 1 /\ i <= Len(commands)
          BY <2>1, <1>t
        <5>3. i' \in 1..Len(commands) + 1 /\ i' <= Len(commands)
          BY <5>1, <5>2, Zenon
        <5> QED BY <5>1, <5>3, Zenon
      <4>2. CASE ~Adds(commands[i])
        <5>1. working' = FALSE /\ todo' = {} /\ i' = i + 1
          BY <4>2
        <5>2. i + 1 \in 1..Len(commands) + 1
          BY <2>1, <1>t
        <5>3. i' \in 1..Len(commands) + 1
          BY <5>1, <5>2, Zenon
        <5> QED BY <5>1, <5>3, Zenon
      <4> QED BY <4>1, <4>2
    <3>3. pass' \in {"add", "remove", "done"} /\ targets' \in Seq(Project)
      BY <2>1 DEF BuildTypeOK
    <3> QED BY <2>1, <3>1, <3>2, <3>3, TypeStep
  <2>4. NoProjectTwice' /\ Targets' = Targets
    BY <2>1 DEF NoProjectTwice, Targets
  <2>5. Begun' = i /\ Begun = i - 1
    BY <2>1 DEF Begun
  <2>6. Targets' \cup todo' = Asked(i)
    BY <2>1, <2>4, <2>5, AskedStep DEF AddPhase
  <2>7. AddPhase'
    BY <2>1, <2>5, <2>6, InputStays DEF AddPhase
  <2>8. RemovePhase' /\ RemovalTrumps'
    BY <2>1 DEF RemovePhase, RemovalTrumps
  <2> QED BY <2>3, <2>4, <2>7, <2>8
<1>2. ASSUME StartRemove PROVE BuildInv'
  <2> USE <1>2 DEF StartRemove, StartCommand
  <2>1. /\ UNCHANGED <<input, pass, targets>> /\ pass = "remove"
        /\ ~working /\ i \in 1..Len(commands) /\ todo = {}
    BY <1>t DEF BuildTypeOK
  <2>2. commands[i] \in Command
    BY <2>1 DEF BuildTypeOK
  <2>3. BuildTypeOK'
    <3>1. todo' \subseteq Project
      BY <2>1, <2>2, SelectedType
    <3>2. /\ working' \in BOOLEAN
          /\ i' \in 1..Len(commands) + 1
          /\ working' => i' <= Len(commands)
          /\ ~working' => todo' = {}
      <4>1. CASE Removes(commands[i])
        <5>1. working' = TRUE /\ i' = i
          BY <4>1
        <5>2. i \in 1..Len(commands) + 1 /\ i <= Len(commands)
          BY <2>1, <1>t
        <5>3. i' \in 1..Len(commands) + 1 /\ i' <= Len(commands)
          BY <5>1, <5>2, Zenon
        <5> QED BY <5>1, <5>3, Zenon
      <4>2. CASE ~Removes(commands[i])
        <5>1. working' = FALSE /\ todo' = {} /\ i' = i + 1
          BY <4>2
        <5>2. i + 1 \in 1..Len(commands) + 1
          BY <2>1, <1>t
        <5>3. i' \in 1..Len(commands) + 1
          BY <5>1, <5>2, Zenon
        <5> QED BY <5>1, <5>3, Zenon
      <4> QED BY <4>1, <4>2
    <3>3. pass' \in {"add", "remove", "done"} /\ targets' \in Seq(Project)
      BY <2>1 DEF BuildTypeOK
    <3> QED BY <2>1, <3>1, <3>2, <3>3, TypeStep
  <2>4. NoProjectTwice' /\ Targets' = Targets
    BY <2>1 DEF NoProjectTwice, Targets
  <2>5. Begun' = i /\ Begun = i - 1
    BY <2>1 DEF Begun
  <2>6. Targets' \ todo' = Asked(Len(commands)) \ Refused(i)
    BY <2>1, <2>4, <2>5, RefusedStep DEF RemovePhase
  <2>7. RemovePhase'
    BY <2>1, <2>5, <2>6, InputStays DEF RemovePhase
  <2>8. AddPhase' /\ RemovalTrumps'
    BY <2>1 DEF AddPhase, RemovalTrumps
  <2> QED BY <2>3, <2>4, <2>7, <2>8
<1>3. ASSUME NEW p \in Project, Add(p) PROVE BuildInv'
  <2> USE <1>3 DEF Add
  <2>1. /\ UNCHANGED <<input, pass, i, working>> /\ pass = "add"
        /\ p \in todo /\ todo' = todo \ {p}
    OBVIOUS
  <2>2. /\ targets' \in Seq(Project)
        /\ NoProjectTwice'
        /\ Targets' = Targets \cup {p}
    <3>1. CASE Listed(p)
      BY <3>1 DEF NoProjectTwice, Targets, Listed, BuildTypeOK
    <3>2. CASE ~Listed(p)
      BY <3>2, AppendNew
    <3> QED BY <3>1, <3>2
  <2>3. BuildTypeOK'
    BY <2>1, <2>2 DEF BuildTypeOK, input
  <2>4. Begun' = Begun
    BY <2>1 DEF Begun
  <2>5. AddPhase'
    BY <2>1, <2>2, <2>4, InputStays DEF AddPhase
  <2>6. RemovePhase' /\ RemovalTrumps'
    BY <2>1 DEF RemovePhase, RemovalTrumps
  <2> QED BY <2>2, <2>3, <2>5, <2>6
<1>4. ASSUME NEW p \in Project, Remove(p) PROVE BuildInv'
  <2> USE <1>4 DEF Remove
  <2>1. /\ UNCHANGED <<input, pass, i, working>> /\ pass = "remove"
        /\ p \in todo /\ todo' = todo \ {p}
    OBVIOUS
  <2>2. /\ targets' \in Seq(Project)
        /\ NoProjectTwice'
        /\ Targets' = Targets \ {p}
    <3>1. CASE ~Listed(p) /\ targets' = targets
      BY <3>1 DEF NoProjectTwice, Targets, Listed, BuildTypeOK
    <3>2. ASSUME NEW k \in 1..Len(targets), targets[k] = p, targets' = Without(k)
          PROVE  /\ targets' \in Seq(Project)
                 /\ NoProjectTwice'
                 /\ Targets' = Targets \ {p}
      BY <3>2, RemoveListed
    <3> QED BY <3>1, <3>2
  <2>3. BuildTypeOK'
    BY <2>1, <2>2 DEF BuildTypeOK, input
  <2>4. Begun' = Begun
    BY <2>1 DEF Begun
  <2>5. RemovePhase'
    BY <2>1, <2>2, <2>4, InputStays DEF RemovePhase
  <2>6. AddPhase' /\ RemovalTrumps'
    BY <2>1 DEF AddPhase, RemovalTrumps
  <2> QED BY <2>2, <2>3, <2>5, <2>6
<1>5. ASSUME EndCommand PROVE BuildInv'
  <2> USE <1>5 DEF EndCommand
  <2>1. /\ UNCHANGED <<input, pass, todo, targets>>
        /\ todo = {} /\ i \in 1..Len(commands)
    BY <1>t DEF BuildTypeOK
  <2>2. BuildTypeOK'
    <3>1. i' \in 1..Len(commands) + 1 /\ working' = FALSE
      BY <2>1, <1>t
    <3>2. /\ pass' \in {"add", "remove", "done"} /\ todo' = {}
          /\ targets' \in Seq(Project)
      BY <2>1 DEF BuildTypeOK
    <3> QED BY <2>1, <3>1, <3>2, TypeStep
  <2>3. NoProjectTwice' /\ Targets' = Targets
    BY <2>1 DEF NoProjectTwice, Targets
  <2>4. Begun' = Begun
    BY <2>1 DEF Begun
  <2>5. AddPhase' /\ RemovePhase'
    BY <2>1, <2>3, <2>4, InputStays DEF AddPhase, RemovePhase
  <2>6. RemovalTrumps'
    BY <2>1, <2>3, InputStays DEF RemovalTrumps
  <2> QED BY <2>2, <2>3, <2>5, <2>6
<1>6. ASSUME EndPass PROVE BuildInv'
  <2> USE <1>6 DEF EndPass
  <2>1. /\ UNCHANGED <<input, working, todo, targets>>
        /\ ~working /\ todo = {} /\ i = Len(commands) + 1
        /\ Begun = Len(commands)
    BY <1>t DEF BuildTypeOK, Begun
  <2>2. BuildTypeOK'
    BY <2>1, <1>t DEF BuildTypeOK, input
  <2>3. NoProjectTwice' /\ Targets' = Targets
    BY <2>1 DEF NoProjectTwice, Targets
  <2>4. CASE pass = "add"
    <3>1. pass' = "remove" /\ Begun' = 0
      BY <2>1, <2>4 DEF Begun
    <3>2. Refused(0) = {}
      BY DEF Refused
    <3>3. Targets = Asked(Len(commands))
      BY <2>1, <2>4 DEF AddPhase
    <3>4. RemovePhase'
      BY <2>1, <2>3, <3>1, <3>2, <3>3, InputStays DEF RemovePhase
    <3> QED BY <2>2, <2>3, <3>1, <3>4 DEF AddPhase, RemovalTrumps
  <2>5. CASE pass = "remove"
    <3>1. pass' = "done"
      BY <2>5
    <3>2. RemovalTrumps'
      BY <2>1, <2>3, <2>5, InputStays DEF RemovalTrumps, RemovePhase
    <3> QED BY <2>2, <2>3, <3>1, <3>2 DEF AddPhase, RemovePhase
  <2> QED BY <2>4, <2>5 DEF BuildTypeOK
<1>7. ASSUME UNCHANGED buildVars PROVE BuildInv'
  <2> USE <1>7 DEF buildVars
  <2>1. UNCHANGED <<input, pass, i, working, todo, targets>>
    OBVIOUS
  <2>2. BuildTypeOK' /\ NoProjectTwice' /\ Targets' = Targets /\ Begun' = Begun
    BY <2>1 DEF BuildTypeOK, input, NoProjectTwice, Targets, Begun
  <2>3. AddPhase' /\ RemovePhase' /\ RemovalTrumps'
    BY <2>1, <2>2, InputStays DEF AddPhase, RemovePhase, RemovalTrumps
  <2> QED BY <2>2, <2>3
<1> QED BY <1>1, <1>2, <1>3, <1>4, <1>5, <1>6, <1>7 DEF BuildNext, BuildStep, BuildDone

\* So it always holds.
LEMMA BuildInvHolds == BuildSpec => []BuildInv
BY BuildInitInv, BuildStepInv, PTL DEF BuildSpec

-----------------------------------------------------------------------------
(***************************************************************************)
(* Types, for both loops of GenerateBuildSet: in particular no project is  *)
(* left to handle when the next command is taken.                          *)
(***************************************************************************)
THEOREM BuildTyped == BuildSpec => []BuildTypeOK
<1>1. BuildInv => BuildTypeOK
  BY DEF BuildInv
<1> QED BY <1>1, BuildInvHolds, PTL

(***************************************************************************)
(* m_TargetProjects never lists a project twice.                           *)
(***************************************************************************)
THEOREM NeverTwice == BuildSpec => []NoProjectTwice
<1>1. BuildInv => NoProjectTwice
  BY DEF BuildInv
<1> QED BY <1>1, BuildInvHolds, PTL

(***************************************************************************)
(* Removal trumps: the build set is what the commands add, with whatever   *)
(* depends on it or it depends on, without what they remove.               *)
(***************************************************************************)
THEOREM BuildSetCorrect == BuildSpec => []RemovalTrumps
<1>1. BuildInv => RemovalTrumps
  BY DEF BuildInv
<1> QED BY <1>1, BuildInvHolds, PTL

-----------------------------------------------------------------------------
(***************************************************************************)
(* Types.  Beside them, a file has one record, and a process that ended    *)
(* leaves nothing in memory.                                               *)
(***************************************************************************)
OneRecordEach == \A r, q \in cache : r.name = q.name => r = q

CacheTypeInv ==
  /\ CacheTypeOK
  /\ OneRecordEach
  /\ phase = "save" => \A r \in cache : r.name \notin toSave
  /\ phase = "scan" => toSave = {}
  /\ phase = "idle" => project = {} /\ scanStack = << >> /\ calling = {} /\ toSave = {}

LEMMA Versions == 1..MaxVersion \subseteq Stamp /\ NotYet \in Stamp /\ Gone \in Stamp
                  /\ Stamp \subseteq Int /\ NoStamp \notin Stamp
BY MaxVersionAssumption DEF Stamp, NotYet, Gone, NoStamp

LEMMA Stats ==
  ASSUME CacheTypeOK, NEW f \in File
  PROVE  Stat(f) \in Stamp /\ Stat(f) <= disk[f] /\ disk[f] \in Int
BY Versions, MaxVersionAssumption DEF CacheTypeOK, Stat, Exists, Stamp, NotYet, Gone

LEMMA Parsed ==
  ASSUME NEW f \in File
  PROVE  Parse(f) \subseteq File /\ (Exists(f) => Parse(f) = Candidates[f][disk[f]])
BY CandidatesAssumption DEF Parse, Exists

LEMMA Paths == \A f \in File, v \in 1..MaxVersion : Candidates[f][v] \subseteq File
BY CandidatesAssumption

LEMMA StackTop ==
  ASSUME CacheTypeOK, scanStack # << >>
  PROVE  Len(scanStack) \in 1..Len(scanStack) /\ Len(scanStack) \in Nat
         /\ ScanTop \in ScanFrame /\ ScanTop.node \in File /\ ScanTop.todo \subseteq File
<1>1. Len(scanStack) \in 1..Len(scanStack) /\ Len(scanStack) \in Nat
  BY EmptySeq DEF CacheTypeOK
<1>2. ScanTop \in ScanFrame
  BY <1>1 DEF CacheTypeOK, ScanTop
<1> QED
  BY <1>1, <1>2 DEF ScanFrame

LEMMA WithoutLast ==
  ASSUME NEW S, NEW s \in Seq(S), s # << >>
  PROVE  /\ Len(SubSeq(s, 1, Len(s) - 1)) = Len(s) - 1
         /\ \A k \in 1..(Len(s) - 1) : SubSeq(s, 1, Len(s) - 1)[k] = s[k]
<1>1. Len(s) \in Nat /\ Len(s) > 0 /\ \A k \in 1..Len(s) : s[k] \in S
  BY EmptySeq
<1> DEFINE m == Len(s) - 1
<1>2. 1 \in Int /\ m \in Int /\ m >= 0 /\ \A k \in 1..m : s[k] \in S
  BY <1>1
<1> HIDE DEF m
<1>3. /\ Len(SubSeq(s, 1, m)) = IF 1 <= m THEN m - 1 + 1 ELSE 0
      /\ \A k \in 1..(m - 1 + 1) : SubSeq(s, 1, m)[k] = s[1 + k - 1]
  BY <1>2, SubSeqProperties
<1>4. Len(SubSeq(s, 1, m)) = m
  BY <1>2, <1>3
<1>5. \A k \in 1..m : SubSeq(s, 1, m)[k] = s[k]
  BY <1>2, <1>3
<1> QED
  BY <1>4, <1>5 DEF m

\* The frames after one path of the top one has been tried.
LEMMA TopTried ==
  ASSUME CacheTypeOK, NEW f, scanStack # << >>,
         scanStack' = [scanStack EXCEPT ![Len(scanStack)].todo = @ \ {f}]
  PROVE  /\ scanStack' \in Seq(ScanFrame) /\ Len(scanStack') = Len(scanStack)
         /\ \A k \in 1..Len(scanStack) :
              /\ scanStack'[k].node = scanStack[k].node
              /\ scanStack'[k].todo =
                   IF k = Len(scanStack) THEN scanStack[k].todo \ {f} ELSE scanStack[k].todo
<1> DEFINE n == Len(scanStack)
<1>1. n \in 1..n /\ scanStack \in Seq(ScanFrame) /\ n \in Nat
  BY StackTop DEF CacheTypeOK
<1>2. \A k \in 1..n : scanStack[k] \in ScanFrame
  BY <1>1
<1>3. scanStack' = [scanStack EXCEPT ![n] = [scanStack[n] EXCEPT !.todo = @ \ {f}]]
  OBVIOUS
<1>4. [scanStack[n] EXCEPT !.todo = @ \ {f}] \in ScanFrame
  BY <1>1, <1>2 DEF ScanFrame
<1>5. /\ scanStack' \in Seq(ScanFrame) /\ Len(scanStack') = n
      /\ \A k \in 1..n : scanStack'[k] = IF k = n THEN [scanStack[n] EXCEPT !.todo = @ \ {f}]
                                                  ELSE scanStack[k]
  <2> DEFINE top == [scanStack[n] EXCEPT !.todo = @ \ {f}]
  <2>1. top \in ScanFrame /\ scanStack' = [scanStack EXCEPT ![n] = top]
    BY <1>3, <1>4
  <2> HIDE DEF top
  <2> HIDE DEF n
  <2>2. /\ [scanStack EXCEPT ![n] = top] \in Seq(ScanFrame)
        /\ Len([scanStack EXCEPT ![n] = top]) = Len(scanStack)
        /\ \A k \in 1..Len(scanStack) :
             [scanStack EXCEPT ![n] = top][k] = IF k = n THEN top ELSE scanStack[k]
    <3>1. n \in 1..Len(scanStack)
      BY <1>1 DEF n
    <3> QED
      BY <1>1, <2>1, <3>1, ExceptSeq
  <2> QED
    BY <2>1, <2>2 DEF top, n
<1>6. \A k \in 1..n : /\ scanStack'[k].node = scanStack[k].node
                      /\ scanStack'[k].todo = IF k = n THEN scanStack[k].todo \ {f}
                                                       ELSE scanStack[k].todo
  <2> SUFFICES ASSUME NEW k \in 1..n
               PROVE  /\ scanStack'[k].node = scanStack[k].node
                      /\ scanStack'[k].todo = IF k = n THEN scanStack[k].todo \ {f}
                                                       ELSE scanStack[k].todo
    OBVIOUS
  <2>1. CASE k = n
    <3> DEFINE frame == scanStack[n]
    <3>1. frame \in [node : File, todo : SUBSET File]
      BY <1>1, <1>2 DEF ScanFrame
    <3>2. scanStack'[k] = [frame EXCEPT !.todo = @ \ {f}]
      BY <1>5, <2>1
    <3> HIDE DEF frame
    <3>3. scanStack'[k].node = frame.node /\ scanStack'[k].todo = frame.todo \ {f}
      BY <3>1, <3>2
    <3> QED
      BY <2>1, <3>3 DEF frame
  <2>2. CASE k # n
    BY <1>5, <2>2
  <2> QED
    BY <2>1, <2>2
<1> QED
  BY <1>5, <1>6

\* What FindOrCreateDependency returns is in the table.
LEMMA Found ==
  ASSUME CacheTypeOK, NEW f \in File, FindOrCreate(f)
  PROVE  /\ entries' = entries \cup {f} /\ stamp' \in [File -> Stamp]
         /\ \A g \in File : stamp'[g] = IF g = f /\ f \notin entries THEN Stat(f) ELSE stamp[g]
BY Stats DEF FindOrCreate, CacheTypeOK

\* Entries that stay have all their dependencies.
LEMMA Loaded ==
  ASSUME CacheTypeInv
  PROVE  /\ LoadedEntries \subseteq CachedNames \ OutdatedNames /\ CachedNames \subseteq File
         /\ \A f \in LoadedEntries : CachedDeps[f] \subseteq LoadedEntries
         /\ \A f \in File : CachedStamp(f) \in Stamp
         /\ \A r \in cache : CachedDeps[r.name] = r.deps
                             /\ (r.stamp # NoStamp => CachedStamp(r.name) = r.stamp)
<1> USE DEF CacheTypeInv, CacheTypeOK
<1>1. CachedNames \subseteq File
  BY SourceAssumption DEF CachedNames, Record
<1>2. LoadedEntries \subseteq CachedNames \ OutdatedNames
  BY DEF LoadedEntries, Survivors
<1>3. \A f \in LoadedEntries : CachedDeps[f] \subseteq LoadedEntries
  BY DEF LoadedEntries, Survivors, SelfContained
<1>4. ASSUME NEW r \in cache
      PROVE  /\ CachedDeps[r.name] = r.deps
             /\ (r.stamp # NoStamp => CachedStamp(r.name) = r.stamp)
  <2>1. r.name \in File /\ \A q \in cache : q.name = r.name <=> q = r
    BY SourceAssumption DEF OneRecordEach, Record
  <2>2. {q \in cache : q.name = r.name} = {r}
    BY <2>1
  <2>3. (CHOOSE q \in cache : q.name = r.name) = r
    BY <2>1
  <2> QED
    BY <2>1, <2>2, <2>3 DEF CachedDeps, CachedStamp
<1>5. ASSUME NEW f \in File
      PROVE  CachedStamp(f) \in Stamp
  <2>1. CASE \E r \in cache : r.name = f /\ r.stamp # NoStamp
    BY <1>4, <2>1 DEF Record
  <2>2. CASE ~ \E r \in cache : r.name = f /\ r.stamp # NoStamp
    BY <2>2, Stats DEF CachedStamp
  <2> QED
    BY <2>1, <2>2
<1> QED
  BY <1>1, <1>2, <1>3, <1>4, <1>5

LEMMA CacheInitTyped == CacheInit => CacheTypeInv
<1> SUFFICES ASSUME CacheInit PROVE CacheTypeInv
  OBVIOUS
<1>1. disk \in [File -> Stamp] /\ 0 \in Stamp
  BY Versions, MaxVersionAssumption DEF CacheInit, NotYet
<1>2. quiet \in BOOLEAN /\ readable \in BOOLEAN /\ torn \in BOOLEAN
  BY Zenon DEF CacheInit
<1>3. scanStack \in Seq(ScanFrame)
  BY DEF CacheInit
<1> QED
  BY <1>1, <1>2, <1>3 DEF CacheInit, CacheTypeInv, CacheTypeOK, OneRecordEach

LEMMA CacheStepTyped == CacheTypeInv /\ [CacheNext]_cacheVars => CacheTypeInv'
<1> SUFFICES ASSUME CacheTypeInv, [CacheNext]_cacheVars
             PROVE  CacheTypeInv'
  OBVIOUS
<1> USE DEF CacheTypeInv, CacheTypeOK, OneRecordEach, environment, saved, memory, control,
            lateness
<1>0. CASE UNCHANGED cacheVars
  BY <1>0 DEF cacheVars
<1>1. CASE Environment
  <2>1. PICK f \in File : Edit(f) \/ Delete(f) \/ Create(f)
    BY <1>1 DEF Environment
  <2>2. disk' \in [File -> Stamp]
    <3>1. disk[f] < MaxVersion => disk[f] + 1 \in Stamp \/ ~Exists(f)
      BY MaxVersionAssumption DEF Exists, Stamp, NotYet, Gone
    <3> QED
      BY <2>1, <3>1, Versions, MaxVersionAssumption DEF Edit, Delete, Create
  <2>3. quiet' \in BOOLEAN
    BY <2>1, Zenon DEF Edit, Delete, Create
  <2>4. late' \in [File -> SUBSET File] /\ cacheLate' \in [File -> SUBSET File]
    BY <2>1 DEF Edit, Delete, Create, lateness
  <2> QED
    BY <2>1, <2>2, <2>3, <2>4 DEF Edit, Delete, Create
<1>2. CASE LoadCache
  <2>1. quiet' \in BOOLEAN
    BY <1>2, Zenon DEF LoadCache
  <2>2. entries' \in SUBSET File /\ checked' = entries'
    BY <1>2, Loaded DEF LoadCache, LoadedChecked
  <2>3. stamp' \in [File -> Stamp]
    BY <1>2, Loaded, Versions DEF LoadCache, NotYet
  <2>4. deps' \in [File -> SUBSET entries']
    <3>1. ASSUME NEW f \in entries'
          PROVE  CachedDeps[f] \subseteq entries'
      BY <1>2, <3>1, Loaded DEF LoadCache
    <3> QED
      BY <1>2, <3>1 DEF LoadCache
  <2>5. late' \in [File -> SUBSET File]
    BY <1>2 DEF LoadCache
  <2> QED
    BY <1>2, <2>1, <2>2, <2>3, <2>4, <2>5 DEF LoadCache
<1>3. ASSUME NEW f \in File, ScanListed(f)
      PROVE  CacheTypeInv'
  <2>1. CASE Exists(f)
    <3>1. entries' = entries \cup {f} /\ stamp' \in [File -> Stamp]
      BY <1>3, <2>1, Found DEF ScanListed
    <3> QED
      BY <1>3, <2>1, <3>1 DEF ScanListed
  <2>2. CASE ~Exists(f)
    BY <1>3, <2>2 DEF ScanListed
  <2> QED
    BY <2>1, <2>2
<1>4. ASSUME NEW f \in File, AlreadyChecked(f)
      PROVE  CacheTypeInv'
  BY <1>4 DEF AlreadyChecked
<1>5. ASSUME NEW f \in File, AddIncludesForFile(f)
      PROVE  CacheTypeInv'
  <2>1. [node |-> f, todo |-> Parse(f)] \in ScanFrame
    BY Parsed DEF ScanFrame
  <2>2. scanStack' \in Seq(ScanFrame)
    BY <1>5, <2>1, AppendProperties DEF AddIncludesForFile
  <2> QED
    BY <1>5, <2>2 DEF AddIncludesForFile
<1>6. ASSUME NEW f \in File, TryPath(f)
      PROVE  CacheTypeInv'
  <2>1. scanStack' \in Seq(ScanFrame) /\ ScanTop.node \in File
    BY <1>6, TopTried, StackTop DEF TryPath
  <2>2. CASE f \in entries \/ Exists(f)
    <3>1. entries' = entries \cup {f} /\ stamp' \in [File -> Stamp]
      BY <1>6, <2>2, Found DEF TryPath
    <3>2. deps' = [deps EXCEPT ![ScanTop.node] = @ \cup {f}]
      BY <1>6, <2>2 DEF TryPath
    <3>3. deps' \in [File -> SUBSET entries']
      BY <2>1, <3>1, <3>2
    <3> QED
      BY <1>6, <2>1, <2>2, <3>1, <3>3 DEF TryPath
  <2>3. CASE ~(f \in entries \/ Exists(f))
    BY <1>6, <2>1, <2>3 DEF TryPath
  <2> QED
    BY <2>2, <2>3
<1>7. CASE IncludesDone
  <2>1. scanStack' \in Seq(ScanFrame)
    BY <1>7, SubSeqProperties DEF IncludesDone
  <2> QED
    BY <1>7, <2>1 DEF IncludesDone
<1>8. CASE BeginSave
  <2>1. readable' \in BOOLEAN
    BY <1>8, Zenon DEF BeginSave
  <2> QED
    BY <1>8, <2>1 DEF BeginSave
<1>9. CASE WriteVersion
  <2>1. readable' \in BOOLEAN
    BY <1>9, Zenon DEF WriteVersion
  <2> QED
    BY <1>9, <2>1 DEF WriteVersion
<1>10. ASSUME NEW f \in File, SaveEntry(f)
       PROVE  CacheTypeInv'
  <2>1. f \in Source => RecordOf(f) \in Record /\ RecordOf(f).name = f
    BY DEF RecordOf, Record
  <2>2. cache' \subseteq cache \cup {RecordOf(f)} /\ cache' \in SUBSET Record
    BY <1>10, <2>1 DEF SaveEntry
  <2>3. f \in toSave /\ phase = "save" /\ toSave' = toSave \ {f}
        /\ RecordOf(f).name = f
    BY <1>10 DEF SaveEntry, RecordOf
  <2>4. \A r, q \in cache' : r.name = q.name => r = q
    BY <2>2, <2>3
  <2>5. \A r \in cache' : r.name \notin toSave'
    BY <2>2, <2>3
  <2> QED
    BY <1>10, <2>2, <2>3, <2>4, <2>5 DEF SaveEntry
<1>11. ASSUME EmptyMemory, toScan' \in SUBSET Roots, phase' = "idle", torn' \in BOOLEAN,
              cache' \in SUBSET Record, OneRecordEach',
              UNCHANGED <<environment, readable, cacheLate>>
       PROVE  CacheTypeInv'
  BY <1>11, Versions DEF EmptyMemory, NotYet
<1>12. CASE EndSave
  BY <1>11, <1>12 DEF EndSave
<1>13. CASE Crash
  <2>1. torn' \in BOOLEAN
    BY <1>13, Zenon DEF Crash
  <2>2. cache' \in SUBSET Record /\ OneRecordEach'
    <3>1. CASE cache' = cache
      BY <3>1
    <3>2. ASSUME NEW f \in toSave \cap Source,
                 NEW r \in [name : {f}, stamp : {NoStamp}, deps : {{}}]
                             \cup [name : {f}, stamp : {stamp[f]}, deps : SUBSET deps[f]],
                 cache' = cache \cup {r}
          PROVE  cache' \in SUBSET Record /\ OneRecordEach'
      <4>1. f \in File /\ stamp[f] \in Stamp /\ deps[f] \subseteq File
        OBVIOUS
      <4>2. r \in Record /\ r.name = f
        BY <4>1 DEF Record
      <4>3. phase = "save"
        BY <1>13 DEF Crash
      <4>4. \A q \in cache : q.name # f
        BY <4>3
      <4> QED
        BY <3>2, <4>2, <4>4
    <3> QED
      BY <1>13, <3>1, <3>2 DEF Crash
  <2> QED
    BY <1>11, <1>13, <2>1, <2>2 DEF Crash
<1> QED
  BY <1>0, <1>1, <1>2, <1>3, <1>4, <1>5, <1>6, <1>7, <1>8, <1>9, <1>10, <1>12, <1>13
     DEF CacheNext, Scan, Save

(***************************************************************************)
(* The table, the records and the pending calls keep their types: also     *)
(* what LoadCache leaves of the entries, whose children are all in the     *)
(* table.                                                                  *)
(***************************************************************************)
THEOREM CacheTyped == CacheSpec => []CacheTypeOK
<1>1. CacheTypeInv => CacheTypeOK
  BY DEF CacheTypeInv
<1> QED
  BY CacheInitTyped, CacheStepTyped, <1>1, PTL DEF CacheSpec

-----------------------------------------------------------------------------
(***************************************************************************)
(* The strengthening.  A file whose size and time are not those of its     *)
(* entry never gets them back, so every claim below is made only for the   *)
(* entries that are up to date (IsVersion), and is lost when the file      *)
(* changes.                                                                *)
(***************************************************************************)
\* The file is there, and v is its version.
IsVersion(f, v) == Exists(f) /\ v = disk[f]

\* D holds what the text of f names and is there, all but what came late, and nothing
\* that it does not name.
Covers(f, D, L) ==
  /\ D \subseteq Candidates[f][disk[f]]
  /\ \A c \in Candidates[f][disk[f]] \ L : Exists(c) => c \in D

\* No size and time is newer than the file.
StampInv ==
  /\ \A f \in File : stamp[f] <= disk[f]
  /\ \A r \in cache : r.stamp <= disk[r.name]

\* Everything is a source file.
SourceInv ==
  /\ entries \subseteq Source
  /\ \A r \in cache : r.deps \subseteq Source
  /\ \A k \in 1..Len(scanStack) : scanStack[k].todo \subseteq Source

\* A call that starts is one call, and every other entry has been parsed.
FlagInv ==
  /\ \A f, g \in calling : f = g
  /\ entries \subseteq checked \cup calling
  /\ Pending \subseteq checked
  /\ phase = "save" => scanStack = << >> /\ calling = {} /\ toScan = {}
  /\ \A f \in File \ checked : deps[f] = {}

\* What a pending call has found and what it has not tried yet are what the file names.
FrameInv ==
  \A k \in 1..Len(scanStack) :
    IsVersion(scanStack[k].node, stamp[scanStack[k].node]) =>
      Covers(scanStack[k].node, deps[scanStack[k].node] \cup scanStack[k].todo,
             late[scanStack[k].node])

CheckedInv ==
  ~torn => \A f \in checked \ Pending : IsVersion(f, stamp[f]) => Covers(f, deps[f], late[f])

HasRecord(f) == \E r \in cache : r.name = f

\* Every name in the cache has a record, or will have one when SaveCache is through.
RecordsInv ==
  /\ ~torn => \A r \in cache :
       /\ r.stamp # NoStamp
       /\ IsVersion(r.name, r.stamp) => Covers(r.name, r.deps, cacheLate[r.name])
       /\ \A d \in r.deps : HasRecord(d) \/ d \in toSave
  /\ phase = "save" => \A f \in entries : HasRecord(f) \/ f \in toSave

\* As long as nobody touches the files, the entries are what is on the disk.
QuietInv ==
  quiet /\ phase # "idle" =>
    /\ \A f \in entries : IsVersion(f, stamp[f])
    /\ project = {f \in Roots \ toScan : Exists(f)}

CacheInv ==
  /\ CacheTypeInv
  /\ StampInv
  /\ SourceInv
  /\ FlagInv
  /\ FrameInv
  /\ CheckedInv
  /\ RecordsInv
  /\ QuietInv

LEMMA CacheInitInv == CacheInit => CacheInv
<1> SUFFICES ASSUME CacheInit PROVE CacheInv
  OBVIOUS
<1>1. CacheTypeInv
  BY CacheInitTyped
<1>2. \A f \in File : stamp[f] <= disk[f]
  BY DEF CacheInit, NotYet
<1> QED
  BY <1>1, <1>2 DEF CacheInit, CacheInv, StampInv, SourceInv, FlagInv, FrameInv, CheckedInv,
     RecordsInv, QuietInv, Pending

-----------------------------------------------------------------------------
LEMMA FrameTyped ==
  ASSUME CacheTypeOK, NEW k \in 1..Len(scanStack)
  PROVE  scanStack[k].node \in File /\ scanStack[k].todo \subseteq File
<1>1. scanStack[k] \in ScanFrame
  BY DEF CacheTypeOK
<1> QED
  BY <1>1 DEF ScanFrame

LEMMA EntryTyped ==
  ASSUME CacheTypeOK, NEW f \in File
  PROVE  stamp[f] \in Int /\ stamp[f] \in Stamp /\ deps[f] \subseteq File
         /\ deps[f] \subseteq entries
BY Versions DEF CacheTypeOK

LEMMA RecordTyped ==
  ASSUME CacheTypeOK, NEW r \in cache
  PROVE  r.name \in Source /\ r.name \in File /\ r.stamp \in Int /\ r.deps \subseteq File
<1>1. r \in Record
  BY DEF CacheTypeOK
<1>2. NoStamp \in Int
  BY DEF NoStamp
<1> QED
  BY <1>1, <1>2, Versions, SourceAssumption DEF Record

(***************************************************************************)
(* Somebody else's step makes no entry up to date that was not, and leaves *)
(* those that are what they were.                                          *)
(***************************************************************************)
LEMMA Disturbed ==
  ASSUME CacheTypeInv, Environment, NEW f \in File, NEW v \in Int, v <= disk[f]
  PROVE  /\ v <= disk'[f]
         /\ IsVersion(f, v)' => IsVersion(f, v)
         /\ IsVersion(f, v)' =>
              \A D : /\ Covers(f, D, late[f]) => Covers(f, D, late[f])'
                     /\ Covers(f, D, cacheLate[f]) => Covers(f, D, cacheLate[f])'
<1> USE DEF CacheTypeInv, CacheTypeOK, Exists
<1>1. PICK g \in File : Edit(g) \/ Delete(g) \/ Create(g)
  BY DEF Environment
<1>2. /\ disk' \in [File -> Int] /\ disk[g] < disk'[g] /\ disk[f] \in Int
      /\ \A h \in File : h # g => disk'[h] = disk[h]
  BY <1>1, Versions, MaxVersionAssumption
     DEF Edit, Delete, Create, Stamp, NotYet, Gone
<1>3. \A h \in File : Exists(h)' => Exists(h) \/ h \in late'[f] \cap cacheLate'[f]
  BY <1>1, <1>2, MaxVersionAssumption DEF Edit, Delete, Create, Gone
<1>4. late[f] \subseteq late'[f] /\ cacheLate[f] \subseteq cacheLate'[f]
  BY <1>1 DEF Edit, Delete, Create, lateness
<1>5. v <= disk'[f]
  <2>1. disk'[f] \in Int /\ disk[f] <= disk'[f]
    BY <1>2
  <2> QED
    BY <1>2, <2>1
<1>6. ASSUME IsVersion(f, v)'
      PROVE  disk'[f] = disk[f] /\ f # g
  BY <1>2, <1>6 DEF IsVersion
<1>7. IsVersion(f, v)' => IsVersion(f, v)
  BY <1>6 DEF IsVersion
<1>8. ASSUME IsVersion(f, v)', NEW D
      PROVE  /\ Covers(f, D, late[f]) => Covers(f, D, late[f])'
             /\ Covers(f, D, cacheLate[f]) => Covers(f, D, cacheLate[f])'
  <2>1. disk'[f] = disk[f] /\ disk[f] \in 1..MaxVersion
    BY <1>6, <1>8 DEF IsVersion
  <2>2. Candidates[f][disk[f]] \subseteq File
    BY <2>1, Paths
  <2> QED
    BY <1>3, <1>4, <1>8, <2>1, <2>2 DEF Covers
<1> QED
  BY <1>5, <1>7, <1>8

\* The conjuncts that the lemmas below establish for the next state, one by one.
Strengthening ==
  /\ StampInv
  /\ SourceInv
  /\ FlagInv
  /\ FrameInv
  /\ CheckedInv
  /\ RecordsInv
  /\ QuietInv

LEMMA DisturbedKeeps ==
  ASSUME CacheInv, Environment
  PROVE  Strengthening'
<1> USE DEF CacheInv
<1>1. UNCHANGED <<readable, cache, torn, phase, entries, stamp, deps, checked, project, toScan,
                  scanStack, calling, toSave>> /\ quiet' = FALSE
  BY DEF Environment, Edit, Delete, Create, saved, memory, control
<1>2. \A f \in File : stamp[f] \in Int /\ stamp[f] <= disk[f] /\ deps[f] \subseteq File
  BY EntryTyped DEF CacheTypeInv, StampInv
<1>3. \A r \in cache : r.name \in File /\ r.stamp \in Int /\ r.stamp <= disk[r.name]
  BY RecordTyped DEF CacheTypeInv, StampInv
<1>4. StampInv'
  <2>1. \A f \in File : stamp'[f] <= disk'[f]
    BY <1>1, <1>2, Disturbed
  <2>2. \A r \in cache' : r.stamp <= disk'[r.name]
    BY <1>1, <1>3, Disturbed
  <2> QED
    BY <2>1, <2>2 DEF StampInv
<1>5. SourceInv' /\ FlagInv' /\ QuietInv'
  BY <1>1 DEF SourceInv, FlagInv, QuietInv, Pending
<1>6. FrameInv'
  <2> SUFFICES ASSUME NEW k \in 1..Len(scanStack),
                      IsVersion(scanStack[k].node, stamp[scanStack[k].node])'
               PROVE  Covers(scanStack[k].node, deps[scanStack[k].node] \cup scanStack[k].todo,
                      late[scanStack[k].node])'
    BY <1>1 DEF FrameInv
  <2> DEFINE f == scanStack[k].node
             D == deps[f] \cup scanStack[k].todo
  <2>1. f \in File
    BY FrameTyped DEF CacheTypeInv
  <2>2. f' = f /\ D' = D /\ stamp' = stamp
    BY <1>1
  <2> HIDE DEF f, D
  <2>3. IsVersion(f, stamp[f])' => IsVersion(f, stamp[f])
    BY <1>2, <2>1, <2>2, Disturbed DEF IsVersion, Exists
  <2>4. Covers(f, D, late[f])
    BY <2>3 DEF FrameInv, f, D
  <2>5. Covers(f, D, late[f])'
    <3>1. IsVersion(f, stamp[f])'
      BY DEF f
    <3>2. stamp[f] \in Int /\ stamp[f] <= disk[f] /\ (IsVersion(f, stamp[f]))'
      BY <1>2, <2>1, <3>1
    <3> QED
      BY <2>1, <2>2, <2>4, <3>2, Disturbed DEF IsVersion, Exists, Covers
  <2> QED
    BY <2>5 DEF f, D
<1>7. CheckedInv'
  <2> SUFFICES ASSUME ~torn, NEW f \in checked \ Pending, IsVersion(f, stamp[f])'
               PROVE  Covers(f, deps[f], late[f])'
    BY <1>1 DEF CheckedInv, Pending
  <2>1. f \in File /\ stamp'[f] = stamp[f] /\ deps'[f] = deps[f]
    BY <1>1 DEF CacheTypeInv, CacheTypeOK
  <2>2. IsVersion(f, stamp[f]) /\ Covers(f, deps[f], late[f])
    BY <1>2, <2>1, Disturbed DEF IsVersion, Exists, CheckedInv
  <2> QED
    BY <1>2, <2>1, <2>2, Disturbed DEF IsVersion, Exists, Covers
<1>8. RecordsInv'
  <2>1. ASSUME ~torn, NEW r \in cache, IsVersion(r.name, r.stamp)'
        PROVE  Covers(r.name, r.deps, cacheLate[r.name])'
    BY <1>3, <2>1, Disturbed DEF RecordsInv
  <2> QED
    BY <1>1, <2>1 DEF RecordsInv, HasRecord
<1> QED
  BY <1>4, <1>5, <1>6, <1>7, <1>8 DEF Strengthening

-----------------------------------------------------------------------------
(***************************************************************************)
(* LoadCache.  Without a cut-off cache every name in the file has a record *)
(* of its own, and that record says what the entry gets.                   *)
(***************************************************************************)
LEMMA LoadedFromRecords ==
  ASSUME CacheInv, phase = "idle", ~torn, NEW f \in LoadedEntries
  PROVE  IsVersion(f, CachedStamp(f)) => Covers(f, CachedDeps[f], cacheLate[f])
<1> USE DEF CacheInv
<1>1. f \in CachedNames
  BY Loaded
<1>2. HasRecord(f)
  BY <1>1 DEF CachedNames, RecordsInv, HasRecord, CacheTypeInv
<1>3. PICK r \in cache : r.name = f
  BY <1>2 DEF HasRecord
<1>4. CachedDeps[f] = r.deps /\ CachedStamp(f) = r.stamp
  BY <1>3, Loaded DEF RecordsInv
<1> QED
  BY <1>3, <1>4 DEF RecordsInv

LEMMA LoadCacheKeeps ==
  ASSUME CacheInv, LoadCache
  PROVE  Strengthening'
<1> USE DEF CacheInv
<1>1. /\ UNCHANGED <<disk, cacheLate, readable, cache, torn>>
      /\ phase = "idle" /\ phase' = "scan" /\ toScan' = Roots
      /\ project' = {} /\ scanStack' = << >> /\ calling' = {} /\ toSave' = {}
      /\ checked' = entries'
      /\ entries' = LoadedEntries \/ entries' = {}
  BY DEF LoadCache, saved, LoadedChecked, CacheTypeInv
<1>2. /\ entries' \subseteq LoadedEntries /\ entries' \subseteq File
      /\ entries' \subseteq CachedNames \ OutdatedNames
  BY <1>1, Loaded
<1>3. \A f \in File : /\ stamp'[f] = IF f \in entries' THEN CachedStamp(f) ELSE 0
                      /\ deps'[f] = IF f \in entries' THEN CachedDeps[f] ELSE {}
                      /\ late'[f] = IF f \in entries' THEN cacheLate[f] ELSE {}
  BY DEF LoadCache
<1>4. CachedNames \subseteq Source
  BY RecordTyped DEF CachedNames, SourceInv, CacheTypeInv
<1>5. ASSUME NEW f \in File
      PROVE  CachedStamp(f) <= disk[f]
  <2>1. CASE \E r \in cache : r.name = f /\ r.stamp # NoStamp
    BY <2>1, Loaded DEF StampInv
  <2>2. CASE ~ \E r \in cache : r.name = f /\ r.stamp # NoStamp
    BY <2>2, Stats DEF CachedStamp, CacheTypeInv
  <2> QED
    BY <2>1, <2>2
<1>6. \A f \in File : 0 <= disk[f]
  BY DEF CacheTypeInv, CacheTypeOK, Stamp, NotYet, Gone
<1>7. StampInv'
  BY <1>1, <1>3, <1>5, <1>6 DEF StampInv
<1>8. SourceInv' /\ FlagInv'
  BY <1>1, <1>2, <1>3, <1>4 DEF SourceInv, FlagInv, Pending
<1>9. FrameInv'
  BY <1>1 DEF FrameInv
<1>10. CheckedInv'
  <2> SUFFICES ASSUME ~torn', NEW f \in checked', IsVersion(f, stamp[f])'
               PROVE  Covers(f, deps[f], late[f])'
    BY <1>1 DEF CheckedInv
  <2>1. f \in LoadedEntries /\ stamp'[f] = CachedStamp(f) /\ deps'[f] = CachedDeps[f]
       /\ late'[f] = cacheLate[f]
    BY <1>1, <1>2, <1>3
  <2>2. IsVersion(f, CachedStamp(f)) => Covers(f, CachedDeps[f], cacheLate[f])
    BY <1>1, <2>1, LoadedFromRecords
  <2> QED
    BY <1>1, <2>1, <2>2 DEF IsVersion, Exists, Covers
<1>11. RecordsInv'
  BY <1>1 DEF RecordsInv, HasRecord, IsVersion, Exists, Covers, CacheTypeInv
<1>12. QuietInv'
  <2>1. ASSUME NEW f \in entries'
        PROVE  IsVersion(f, stamp[f])'
    <3>1. f \in CachedNames \cap Source /\ f \notin OutdatedNames /\ f \in File
      BY <1>2, <1>4
    <3>2. Exists(f) /\ CachedStamp(f) = disk[f]
      BY <3>1 DEF OutdatedNames
    <3> QED
      BY <1>1, <1>3, <2>1, <3>1, <3>2 DEF IsVersion, Exists
  <2> QED
    BY <1>1, <2>1 DEF QuietInv
<1> QED
  BY <1>7, <1>8, <1>9, <1>10, <1>11, <1>12 DEF Strengthening

-----------------------------------------------------------------------------
(***************************************************************************)
(* The scan.  A new entry gets the size and time that the file has then.   *)
(***************************************************************************)
LEMMA FoundUpToDate ==
  ASSUME CacheInv, UNCHANGED <<disk, quiet, phase>>, phase # "idle",
         NEW f \in File, FindOrCreate(f), f \in entries \/ Exists(f)
  PROVE  /\ \A g \in File : stamp'[g] <= disk[g]
         /\ \A g \in File : stamp'[g] # stamp[g] => g = f /\ f \notin entries
         /\ quiet => \A g \in entries' : IsVersion(g, stamp[g])'
<1> USE DEF CacheInv
<1>1. entries' = entries \cup {f}
      /\ \A g \in File : stamp'[g] = IF g = f /\ f \notin entries THEN Stat(f) ELSE stamp[g]
  BY Found DEF CacheTypeInv
<1>2. \A g \in File : stamp'[g] <= disk[g]
  BY <1>1, Stats DEF StampInv, CacheTypeInv
<1>3. ASSUME quiet, NEW g \in entries'
      PROVE  IsVersion(g, stamp[g])'
  <2>1. entries \subseteq File
    BY DEF CacheTypeInv, CacheTypeOK
  <2>2. CASE g = f /\ f \notin entries
    BY <1>1, <2>2 DEF IsVersion, Exists, Stat
  <2>3. CASE ~(g = f /\ f \notin entries)
    BY <1>1, <1>3, <2>1, <2>3 DEF IsVersion, Exists, QuietInv
  <2> QED
    BY <2>2, <2>3
<1> QED
  BY <1>1, <1>2, <1>3

LEMMA ScanListedKeeps ==
  ASSUME CacheInv, NEW f \in File, ScanListed(f)
  PROVE  Strengthening'
<1> USE DEF CacheInv
<1>1. /\ UNCHANGED <<disk, late, cacheLate, quiet, readable, cache, torn, phase, deps, checked,
                     scanStack, toSave>>
      /\ phase = "scan" /\ scanStack = << >> /\ calling = {} /\ toScan' = toScan \ {f}
      /\ f \in toScan /\ f \in Roots /\ f \in Source
  BY RootsAssumption DEF ScanListed, environment, saved, CacheTypeInv, CacheTypeOK, lateness
<1>2. /\ \A g \in File : stamp'[g] <= disk[g]
      /\ \A g \in File : stamp'[g] # stamp[g] => g = f /\ f \notin entries
      /\ quiet => \A g \in entries' : IsVersion(g, stamp[g])'
      /\ entries' \subseteq entries \cup {f} /\ entries' \subseteq entries \cup calling'
      /\ \A g, h \in calling' : g = h
      /\ project' = project \cup {g \in {f} : Exists(g)}
  <2>1. CASE Exists(f)
    <3>1. FindOrCreate(f) /\ calling' = {f} /\ project' = project \cup {f}
      BY <2>1 DEF ScanListed
    <3>2. entries' = entries \cup {f}
      BY <3>1 DEF FindOrCreate
    <3> QED
      BY <1>1, <2>1, <3>1, <3>2, FoundUpToDate
  <2>2. CASE ~Exists(f)
    <3>1. UNCHANGED <<entries, stamp, project, calling>>
      BY <2>2 DEF ScanListed
    <3> QED
      BY <1>1, <2>2, <3>1 DEF StampInv, QuietInv, IsVersion, Exists, CacheTypeInv, CacheTypeOK
  <2> QED
    BY <2>1, <2>2
<1>3. StampInv' /\ SourceInv' /\ FlagInv' /\ FrameInv'
  BY <1>1, <1>2 DEF StampInv, SourceInv, FlagInv, FrameInv, Pending
<1>4. CheckedInv'
  <2>1. checked \subseteq entries /\ entries \subseteq File
    BY DEF CacheTypeInv, CacheTypeOK
  <2>2. \A g \in checked : stamp'[g] = stamp[g]
    BY <1>2, <2>1
  <2> QED
    BY <1>1, <2>2 DEF CheckedInv, Pending, IsVersion, Exists, Covers
<1>5. RecordsInv'
  BY <1>1 DEF RecordsInv, HasRecord, IsVersion, Exists, Covers
<1>6. QuietInv'
  <2>1. quiet => project' = {g \in Roots \ toScan' : Exists(g)'}
    BY <1>1, <1>2 DEF QuietInv, Exists
  <2> QED
    BY <1>1, <1>2, <2>1 DEF QuietInv
<1> QED
  BY <1>3, <1>4, <1>5, <1>6 DEF Strengthening

LEMMA AlreadyCheckedKeeps ==
  ASSUME CacheInv, NEW f \in File, AlreadyChecked(f)
  PROVE  Strengthening'
<1> USE DEF CacheInv
<1>1. /\ UNCHANGED <<disk, late, cacheLate, quiet, readable, cache, torn, phase, entries,
                     stamp, deps, checked, project, toScan, scanStack, toSave>>
      /\ phase = "scan" /\ f \in calling /\ f \in checked /\ calling' = {}
  BY DEF AlreadyChecked, environment, saved, memory, lateness
<1>2. FlagInv'
  BY <1>1 DEF FlagInv, Pending
<1>3. StampInv' /\ SourceInv' /\ FrameInv' /\ CheckedInv' /\ RecordsInv' /\ QuietInv'
  BY <1>1 DEF StampInv, SourceInv, FrameInv, CheckedInv, RecordsInv, QuietInv, Pending,
     HasRecord, IsVersion, Exists, Covers
<1> QED
  BY <1>2, <1>3 DEF Strengthening

LEMMA AddIncludesForFileKeeps ==
  ASSUME CacheInv, OnlySources, NEW f \in File, AddIncludesForFile(f)
  PROVE  Strengthening'
<1> USE DEF CacheInv
<1> DEFINE frame == [node |-> f, todo |-> Parse(f)]
           n == Len(scanStack)
<1>1. /\ UNCHANGED <<disk, cacheLate, quiet, readable, cache, torn, phase, entries, stamp, deps,
                     project, toScan, toSave>>
      /\ phase = "scan" /\ f \in calling /\ f \notin checked /\ calling' = {}
      /\ checked' = checked \cup {f} /\ scanStack' = Append(scanStack, frame)
      /\ \A g \in File : late'[g] = IF g = f THEN {} ELSE late[g]
  BY DEF AddIncludesForFile, environment, saved, CacheTypeInv, CacheTypeOK
<1>2. frame \in ScanFrame /\ frame.node = f /\ frame.todo = Parse(f)
  BY Parsed DEF ScanFrame
<1>3. Parse(f) \subseteq Source
  BY DEF Parse, Exists, OnlySources
<1>4. IsVersion(f, stamp[f]) => Covers(f, deps[f] \cup Parse(f), {})
  BY <1>1, Parsed DEF IsVersion, Covers, FlagInv
<1> HIDE DEF frame
<1>5. /\ n \in Nat /\ Len(scanStack') = n + 1
      /\ \A k \in 1..n : scanStack'[k] = scanStack[k]
      /\ scanStack'[n + 1] = frame
  BY <1>1, <1>2, AppendProperties DEF CacheTypeInv, CacheTypeOK
<1>6. Pending' = Pending \cup {f}
  BY <1>2, <1>5 DEF Pending
<1>7. StampInv' /\ FlagInv' /\ RecordsInv' /\ QuietInv'
  BY <1>1, <1>6 DEF StampInv, FlagInv, RecordsInv, QuietInv, HasRecord, IsVersion, Exists, Covers
<1>8. SourceInv'
  BY <1>1, <1>2, <1>3, <1>5 DEF SourceInv
<1>9. FrameInv'
  <2> SUFFICES ASSUME NEW k \in 1..(n + 1)
               PROVE  (IsVersion(scanStack[k].node, stamp[scanStack[k].node])
                         => Covers(scanStack[k].node,
                                   deps[scanStack[k].node] \cup scanStack[k].todo,
                                   late[scanStack[k].node]))'
    BY <1>5 DEF FrameInv
  <2>1. CASE k = n + 1
    BY <1>1, <1>2, <1>4, <1>5, <2>1 DEF IsVersion, Exists, Covers
  <2>2. CASE k # n + 1
    <3>1. k \in 1..n /\ scanStack[k].node \in Pending
      BY <1>5, <2>2 DEF Pending
    <3>2. scanStack[k].node \in File /\ scanStack[k].node # f
      BY <1>1, <3>1, FrameTyped DEF FlagInv, CacheTypeInv
    <3>3. late'[scanStack[k].node] = late[scanStack[k].node]
      BY <1>1, <3>2
    <3> QED
      BY <1>1, <1>5, <3>1, <3>3 DEF FrameInv, IsVersion, Exists, Covers
  <2> QED
    BY <2>1, <2>2
<1>10. CheckedInv'
  <2> SUFFICES ASSUME ~torn, NEW g \in checked \ Pending, g # f
               PROVE  (IsVersion(g, stamp[g]) => Covers(g, deps[g], late[g]))'
    BY <1>1, <1>6 DEF CheckedInv
  <2>1. g \in File
    BY DEF CacheTypeInv, CacheTypeOK
  <2>2. late'[g] = late[g]
    BY <1>1, <2>1
  <2> QED
    BY <1>1, <2>2 DEF CheckedInv, IsVersion, Exists, Covers
<1> QED
  BY <1>7, <1>8, <1>9, <1>10 DEF Strengthening

LEMMA TryPathKeeps ==
  ASSUME CacheInv, NEW f \in File, TryPath(f)
  PROVE  Strengthening'
<1> USE DEF CacheInv
<1> DEFINE n == Len(scanStack)
           top == scanStack[n].node
<1>1. /\ UNCHANGED <<disk, late, cacheLate, quiet, readable, cache, torn, phase, checked, project,
                     toScan, toSave>>
      /\ phase = "scan" /\ scanStack # << >> /\ calling = {}
  BY DEF TryPath, environment, saved, lateness
<1>2. /\ n \in 1..n /\ n \in Nat /\ f \in scanStack[n].todo /\ top \in File
      /\ ScanTop = scanStack[n] /\ top \in Pending
  BY <1>1, StackTop DEF TryPath, ScanTop, CacheTypeInv, Pending
<1>3. /\ Len(scanStack') = n
      /\ \A k \in 1..n :
           /\ scanStack'[k].node = scanStack[k].node
           /\ scanStack'[k].todo =
                IF k = n THEN scanStack[k].todo \ {f} ELSE scanStack[k].todo
  BY <1>1, TopTried DEF TryPath, CacheTypeInv
<1>4. Pending' = Pending
  BY <1>3 DEF Pending
<1>5. Pending \subseteq checked /\ checked \subseteq entries /\ entries \subseteq File
  BY DEF FlagInv, CacheTypeInv, CacheTypeOK
<1>6. f \in Source
  BY <1>2 DEF SourceInv
\* One path tried: an entry keeps its size and time, and only the top call's file gets f.
<1>7. /\ \A g \in File : stamp'[g] <= disk[g]
      /\ \A g \in entries : stamp'[g] = stamp[g]
      /\ quiet => \A g \in entries' : IsVersion(g, stamp[g])'
      /\ entries' \subseteq entries \cup {f} /\ entries' \subseteq entries \cup calling'
      /\ \A g, h \in calling' : g = h
      /\ \A g \in File : g # top => deps'[g] = deps[g]
      /\ \/ deps'[top] = deps[top] \cup {f}
         \/ deps'[top] = deps[top] /\ ~Exists(f)
  <2>1. CASE f \in entries \/ Exists(f)
    <3>1. FindOrCreate(f) /\ calling' = {f} /\ deps' = [deps EXCEPT ![top] = @ \cup {f}]
      BY <1>2, <2>1 DEF TryPath
    <3>2. entries' = entries \cup {f}
      BY <3>1 DEF FindOrCreate
    <3>3. /\ \A g \in File : g # top => deps'[g] = deps[g]
          /\ deps'[top] = deps[top] \cup {f}
      BY <1>2, <3>1 DEF CacheTypeInv, CacheTypeOK
    <3>4. /\ \A g \in File : stamp'[g] <= disk[g]
          /\ \A g \in entries : stamp'[g] = stamp[g]
          /\ quiet => \A g \in entries' : IsVersion(g, stamp[g])'
      BY <1>1, <1>5, <2>1, <3>1, FoundUpToDate
    <3> QED
      BY <3>1, <3>2, <3>3, <3>4
  <2>2. CASE ~(f \in entries \/ Exists(f))
    <3>1. UNCHANGED <<entries, stamp, deps, calling>>
      BY <2>2 DEF TryPath
    <3> QED
      BY <1>1, <2>2, <3>1 DEF StampInv, QuietInv, IsVersion, Exists
  <2> QED
    BY <2>1, <2>2
<1>8. StampInv' /\ QuietInv'
  BY <1>1, <1>7 DEF StampInv, QuietInv, Exists
<1>9. SourceInv'
  BY <1>1, <1>3, <1>6, <1>7 DEF SourceInv
<1>10. FlagInv'
  BY <1>1, <1>2, <1>4, <1>5, <1>7 DEF FlagInv
<1>11. ASSUME NEW k \in 1..n, IsVersion(scanStack[k].node, stamp'[scanStack[k].node])
       PROVE  Covers(scanStack[k].node, deps'[scanStack[k].node] \cup scanStack'[k].todo,
                     late[scanStack[k].node])
  <2> DEFINE g == scanStack[k].node
  <2>1. g \in Pending /\ g \in File
    BY FrameTyped DEF Pending, CacheTypeInv
  <2>2. IsVersion(g, stamp[g])
    BY <1>5, <1>7, <1>11, <2>1
  <2>3. Covers(g, deps[g] \cup scanStack[k].todo, late[g])
    BY <2>2 DEF FrameInv
  <2>4. CASE g # top
    <3>1. k # n
      BY <2>4
    <3> QED
      BY <1>3, <1>7, <2>1, <2>3, <2>4, <3>1
  <2>5. CASE g = top
    <3>1. Covers(top, deps[top] \cup scanStack[n].todo, late[top])
      BY <1>2, <2>2, <2>5 DEF FrameInv
    <3>2. f \in Candidates[top][disk[top]]
      BY <1>2, <3>1 DEF Covers
    <3> HIDE DEF top, n, g
    <3>3. scanStack'[k].todo = scanStack[k].todo \/ scanStack'[k].todo = scanStack[k].todo \ {f}
      BY <1>3
    <3> QED
      BY <1>7, <2>3, <2>5, <3>2, <3>3 DEF Covers, g
  <2> QED
    BY <2>4, <2>5
<1>12. FrameInv'
  BY <1>1, <1>3, <1>11 DEF FrameInv, IsVersion, Exists, Covers
<1>13. CheckedInv'
  <2> SUFFICES ASSUME ~torn, NEW g \in checked \ Pending, IsVersion(g, stamp[g])'
               PROVE  Covers(g, deps[g], late[g])'
    BY <1>1, <1>4 DEF CheckedInv
  <2>1. stamp'[g] = stamp[g] /\ deps'[g] = deps[g]
    BY <1>2, <1>5, <1>7
  <2> QED
    BY <1>1, <2>1 DEF CheckedInv, IsVersion, Exists, Covers
<1>14. RecordsInv'
  BY <1>1 DEF RecordsInv, HasRecord, IsVersion, Exists, Covers
<1> QED
  BY <1>8, <1>9, <1>10, <1>12, <1>13, <1>14 DEF Strengthening

LEMMA IncludesDoneKeeps ==
  ASSUME CacheInv, IncludesDone
  PROVE  Strengthening'
<1> USE DEF CacheInv
<1> DEFINE n == Len(scanStack)
<1>1. /\ UNCHANGED <<disk, late, cacheLate, quiet, readable, cache, torn, phase, entries,
                     stamp, deps, checked, project, toScan, calling, toSave>>
      /\ phase = "scan" /\ scanStack # << >>
      /\ scanStack' = SubSeq(scanStack, 1, n - 1)
  BY DEF IncludesDone, environment, saved, memory, lateness
<1>2. n \in Nat /\ n \in 1..n /\ scanStack[n].todo = {}
  BY <1>1, StackTop DEF IncludesDone, ScanTop, CacheTypeInv
<1>3. Len(scanStack') = n - 1 /\ \A k \in 1..(n - 1) : scanStack'[k] = scanStack[k]
  BY <1>1, WithoutLast DEF CacheTypeInv, CacheTypeOK
<1>4. Pending \subseteq Pending' \cup {scanStack[n].node} /\ Pending' \subseteq Pending
  BY <1>2, <1>3 DEF Pending
<1>5. StampInv' /\ RecordsInv' /\ QuietInv'
  BY <1>1 DEF StampInv, RecordsInv, QuietInv, HasRecord, IsVersion, Exists, Covers
<1>8. SourceInv' /\ FrameInv'
  <2>1. \A k \in 1..(n - 1) : k \in 1..n
    BY <1>2
  <2>2. SourceInv'
    BY <1>1, <1>2, <1>3, <2>1 DEF SourceInv
  <2>3. FrameInv'
    <3> SUFFICES ASSUME NEW k \in 1..(n - 1)
                 PROVE  (IsVersion(scanStack[k].node, stamp[scanStack[k].node])
                           => Covers(scanStack[k].node,
                                     deps[scanStack[k].node] \cup scanStack[k].todo,
                                     late[scanStack[k].node]))'
      BY <1>3 DEF FrameInv
    <3> QED
      BY <1>1, <1>3, <2>1 DEF FrameInv, IsVersion, Exists, Covers
  <2> QED
    BY <2>2, <2>3
<1>6. FlagInv'
  BY <1>1, <1>4 DEF FlagInv
<1>7. CheckedInv'
  <2> SUFFICES ASSUME ~torn, NEW g \in checked \ Pending', IsVersion(g, stamp[g])
               PROVE  Covers(g, deps[g], late[g])
    BY <1>1 DEF CheckedInv, IsVersion, Exists, Covers
  <2>1. CASE g \in Pending
    <3>1. g = scanStack[n].node
      BY <1>4, <2>1
    <3>2. Covers(g, deps[g] \cup scanStack[n].todo, late[g])
      BY <1>2, <3>1 DEF FrameInv
    <3> QED
      BY <1>2, <3>2
  <2>2. CASE g \notin Pending
    BY <2>2 DEF CheckedInv
  <2> QED
    BY <2>1, <2>2
<1> QED
  BY <1>5, <1>6, <1>7, <1>8 DEF Strengthening

-----------------------------------------------------------------------------
(***************************************************************************)
(* SaveCache, and what is left when the process ends.                      *)
(***************************************************************************)
LEMMA BeginSaveKeeps ==
  ASSUME CacheInv, BeginSave
  PROVE  Strengthening'
<1>1. /\ UNCHANGED <<disk, late, cacheLate, quiet, torn, entries, stamp, deps, checked, project,
                     toScan, scanStack, calling>>
      /\ phase = "scan" /\ scanStack = << >> /\ calling = {} /\ toScan = {}
      /\ phase' = "save" /\ cache' = {} /\ toSave' = entries
  BY DEF BeginSave, environment, memory, lateness
<1> QED
  BY <1>1 DEF Strengthening, CacheInv, StampInv, SourceInv, FlagInv, FrameInv, CheckedInv,
     RecordsInv, QuietInv, HasRecord, Pending, IsVersion, Exists, Covers

LEMMA WriteVersionKeeps ==
  ASSUME CacheInv, WriteVersion
  PROVE  Strengthening'
<1>1. UNCHANGED <<disk, late, cacheLate, quiet, cache, torn, phase, entries, stamp, deps, checked,
                  project, toScan, scanStack, calling, toSave>>
  BY DEF WriteVersion, environment, memory, control, lateness
<1> QED
  BY <1>1 DEF Strengthening, CacheInv, StampInv, SourceInv, FlagInv, FrameInv, CheckedInv,
     RecordsInv, QuietInv, HasRecord, Pending, IsVersion, Exists, Covers

LEMMA SaveEntryKeeps ==
  ASSUME CacheInv, NEW f \in File, SaveEntry(f)
  PROVE  Strengthening'
<1> USE DEF CacheInv
<1> DEFINE r == RecordOf(f)
<1>1. /\ UNCHANGED <<disk, late, quiet, torn, phase, entries, stamp, deps, checked, project,
                     toScan, scanStack, calling>>
      /\ phase = "save" /\ f \in toSave /\ toSave' = toSave \ {f}
      /\ cache' = IF f \in Source THEN cache \cup {r} ELSE cache
      /\ \A g \in File : cacheLate'[g] = IF g = f THEN late[g] ELSE cacheLate[g]
  BY DEF SaveEntry, environment, memory, CacheTypeInv, CacheTypeOK
<1>2. /\ scanStack = << >> /\ calling = {} /\ f \in checked /\ f \notin Pending
      /\ f \in Source /\ toSave \subseteq entries
  BY <1>1 DEF FlagInv, SourceInv, CacheTypeInv, CacheTypeOK, Pending
<1>3. r.name = f /\ r.stamp = stamp[f] /\ r.deps = deps[f]
  BY DEF RecordOf
<1>4. stamp[f] \in Int /\ stamp[f] # NoStamp /\ stamp[f] <= disk[f] /\ deps[f] \subseteq entries
  BY EntryTyped, Versions DEF StampInv, CacheTypeInv
<1> HIDE DEF r
<1>5. cache' = cache \cup {r}
  BY <1>1, <1>2
<1>6. \A g : HasRecord(g)' <=> HasRecord(g) \/ g = f
  BY <1>3, <1>5 DEF HasRecord
<1>7. StampInv' /\ SourceInv'
  BY <1>1, <1>2, <1>3, <1>4, <1>5 DEF StampInv, SourceInv
<1>8. FlagInv' /\ FrameInv' /\ CheckedInv' /\ QuietInv'
  BY <1>1 DEF FlagInv, FrameInv, CheckedInv, QuietInv, Pending, IsVersion, Exists, Covers
<1>9. RecordsInv'
  <2>1. \A g \in entries' : HasRecord(g)' \/ g \in toSave'
    BY <1>1, <1>6 DEF RecordsInv
  <2>2. ASSUME ~torn, NEW q \in cache', IsVersion(q.name, q.stamp)
        PROVE  Covers(q.name, q.deps, cacheLate'[q.name])
    <3>1. CASE q \in cache
      <4>1. q.name \in File /\ q.name # f
        BY <1>1, <3>1, RecordTyped DEF CacheTypeInv, OneRecordEach
      <4> QED
        BY <1>1, <2>2, <3>1, <4>1 DEF RecordsInv
    <3>2. CASE q = r
      BY <1>1, <1>2, <1>3, <2>2, <3>2 DEF CheckedInv
    <3> QED
      BY <1>5, <3>1, <3>2
  <2>3. ASSUME ~torn, NEW q \in cache'
        PROVE  q.stamp # NoStamp /\ \A d \in q.deps : HasRecord(d)' \/ d \in toSave'
    <3>1. CASE q \in cache
      BY <1>1, <1>6, <2>3, <3>1 DEF RecordsInv
    <3>2. CASE q = r
      BY <1>1, <1>3, <1>4, <2>1, <3>2
    <3> QED
      BY <1>5, <3>1, <3>2
  <2> QED
    BY <1>1, <2>1, <2>2, <2>3 DEF RecordsInv, IsVersion, Exists, Covers
<1> QED
  BY <1>7, <1>8, <1>9 DEF Strengthening

\* Nothing in memory, and the records as before or one of them cut off.
LEMMA EndedKeeps ==
  ASSUME CacheInv, EmptyMemory, phase' = "idle", UNCHANGED <<disk, cacheLate, quiet>>,
         \A r \in cache' : r.stamp <= disk[r.name] /\ r.deps \subseteq Source,
         ~torn' => cache' = {} \/ (cache' = cache /\ ~torn /\ toSave = {})
  PROVE  Strengthening'
<1> USE DEF CacheInv
<1>1. /\ entries' = {} /\ checked' = {} /\ scanStack' = << >> /\ calling' = {} /\ toSave' = {}
      /\ \A f \in File : stamp'[f] = 0 /\ deps'[f] = {}
  BY DEF EmptyMemory
<1>2. \A f \in File : 0 <= disk[f]
  BY DEF CacheTypeInv, CacheTypeOK, Stamp, NotYet, Gone
<1>3. StampInv' /\ SourceInv'
  BY <1>1, <1>2 DEF StampInv, SourceInv
<1>4. FlagInv' /\ FrameInv' /\ CheckedInv' /\ QuietInv'
  BY <1>1 DEF FlagInv, FrameInv, CheckedInv, QuietInv, Pending
<1>5. RecordsInv'
  BY <1>1 DEF RecordsInv, HasRecord, IsVersion, Exists, Covers
<1> QED
  BY <1>3, <1>4, <1>5 DEF Strengthening

LEMMA EndSaveKeeps ==
  ASSUME CacheInv, EndSave
  PROVE  Strengthening'
BY EndedKeeps DEF EndSave, CacheInv, StampInv, SourceInv, environment, saved

LEMMA CrashKeeps ==
  ASSUME CacheInv, Crash
  PROVE  Strengthening'
<1> USE DEF CacheInv
<1>1. \A r \in cache : r.stamp <= disk[r.name] /\ r.deps \subseteq Source
  BY DEF StampInv, SourceInv
<1>2. ASSUME NEW f \in toSave \cap Source,
             NEW r \in [name : {f}, stamp : {NoStamp}, deps : {{}}]
                         \cup [name : {f}, stamp : {stamp[f]}, deps : SUBSET deps[f]]
      PROVE  r.stamp <= disk[r.name] /\ r.deps \subseteq Source
  <2>1. f \in File /\ stamp[f] <= disk[f] /\ deps[f] \subseteq Source
    BY EntryTyped, SourceAssumption DEF StampInv, SourceInv, CacheTypeInv
  <2>2. NoStamp <= disk[f]
    BY <2>1, EntryTyped DEF CacheTypeInv, CacheTypeOK, Stamp, NotYet, Gone, NoStamp
  <2> QED
    BY <2>1, <2>2
<1>3. \A r \in cache' : r.stamp <= disk[r.name] /\ r.deps \subseteq Source
  BY <1>1, <1>2 DEF Crash
<1>4. toSave \cap Source = toSave
  BY DEF SourceInv, CacheTypeInv, CacheTypeOK
<1>5. ~torn' => cache' = {} \/ (cache' = cache /\ ~torn /\ toSave = {})
  <2>1. CASE phase = "scan"
    BY <1>4, <2>1 DEF Crash, CacheTypeInv
  <2>2. CASE phase # "scan"
    BY <1>4, <2>2 DEF Crash
  <2> QED
    BY <2>1, <2>2
<1> QED
  BY <1>3, <1>5, EndedKeeps DEF Crash, environment

LEMMA CacheStepInv ==
  ASSUME OnlySources, CacheInv, [CacheNext]_cacheVars
  PROVE  CacheInv'
<1>1. CacheTypeInv'
  BY CacheStepTyped DEF CacheInv
<1> SUFFICES Strengthening'
  BY <1>1 DEF Strengthening, CacheInv
<1>2. CASE UNCHANGED cacheVars
  <2>1. /\ UNCHANGED <<disk, late, cacheLate, quiet, readable, cache, torn, phase, entries, stamp>>
        /\ UNCHANGED <<deps, checked, project, toScan, scanStack, calling, toSave>>
    BY <1>2 DEF cacheVars, environment, saved, memory, control, lateness
  <2>2. StampInv' /\ SourceInv' /\ FlagInv'
    BY <2>1 DEF CacheInv, StampInv, SourceInv, FlagInv, Pending
  <2>3. FrameInv' /\ CheckedInv'
    BY <2>1 DEF CacheInv, FrameInv, CheckedInv, Pending, IsVersion, Exists, Covers
  <2>4. RecordsInv' /\ QuietInv'
    BY <2>1 DEF CacheInv, RecordsInv, QuietInv, HasRecord, IsVersion, Exists, Covers
  <2> QED
    BY <2>2, <2>3, <2>4 DEF Strengthening
<1>3. CASE CacheNext
  <2>1. CASE Environment
    BY <2>1, DisturbedKeeps
  <2>2. CASE LoadCache
    BY <2>2, LoadCacheKeeps
  <2>3. CASE Scan
    BY <2>3, ScanListedKeeps, AlreadyCheckedKeeps, AddIncludesForFileKeeps, TryPathKeeps,
       IncludesDoneKeeps, BeginSaveKeeps DEF Scan
  <2>4. CASE Save
    BY <2>4, WriteVersionKeeps, SaveEntryKeeps, EndSaveKeeps DEF Save
  <2>5. CASE Crash
    BY <2>5, CrashKeeps
  <2> QED
    BY <1>3, <2>1, <2>2, <2>3, <2>4, <2>5 DEF CacheNext
<1> QED
  BY <1>2, <1>3

-----------------------------------------------------------------------------
LEMMA CacheAlways ==
  ASSUME OnlySources
  PROVE  CacheSpec => []CacheInv
<1>1. CacheInit => CacheInv
  BY CacheInitInv
<1>2. CacheInv /\ [CacheNext]_cacheVars => CacheInv'
  BY CacheStepInv
<1> QED
  BY <1>1, <1>2, PTL DEF CacheSpec

(***************************************************************************)
(* m_bCheckedIncludes means what dependencies.h says, over any number of   *)
(* runs, edits, deletions and crashes: a checked entry that is up to date  *)
(* has exactly the dependencies its file names and that existed when they  *)
(* were looked for, whether AddIncludesForFile parsed the file in this run *)
(* or LoadCache took them from an earlier one (if no file includes one     *)
(* that IsSourceFile refuses, and until SaveCache is cut off inside its    *)
(* records).                                                               *)
(***************************************************************************)
THEOREM CheckedAreComplete ==
  ASSUME OnlySources
  PROVE  CacheSpec => []IncludesChecked
<1>1. CacheInv => IncludesChecked
  <2> SUFFICES ASSUME CacheInv, ~torn, NEW f \in checked \ Pending,
                      Exists(f), stamp[f] = disk[f]
               PROVE  Covers(f, deps[f], late[f])
    BY DEF IncludesChecked, Covers
  <2> QED
    BY DEF CacheInv, CheckedInv, IsVersion
<1> QED
  BY <1>1, CacheAlways, PTL

\* Two graphs that agree on a self-contained set with the roots lead to the same files.
LEMMA SameReach ==
  ASSUME NEW R, NEW D, NEW E, NEW S, NEW All, R \subseteq S, S \subseteq All,
         SelfContained(S, D), \A f \in S : E[f] = D[f]
  PROVE  ReachableFrom(R, D, All) = ReachableFrom(R, E, All)
<1>1. \A T \in SUBSET All : SelfContained(T, E) => SelfContained(T \cap S, D)
  BY DEF SelfContained
<1>2. \A T \in SUBSET All : SelfContained(T, D) => SelfContained(T \cap S, E)
  BY DEF SelfContained
<1>3. ASSUME NEW f \in ReachableFrom(R, D, All), NEW T \in SUBSET All,
             R \subseteq T, SelfContained(T, E)
      PROVE  f \in T
  <2>1. T \cap S \in SUBSET All /\ R \subseteq T \cap S /\ SelfContained(T \cap S, D)
    BY <1>1, <1>3
  <2> QED
    BY <2>1 DEF ReachableFrom
<1>4. ASSUME NEW f \in ReachableFrom(R, E, All), NEW T \in SUBSET All,
             R \subseteq T, SelfContained(T, D)
      PROVE  f \in T
  <2>1. T \cap S \in SUBSET All /\ R \subseteq T \cap S /\ SelfContained(T \cap S, E)
    BY <1>2, <1>4
  <2> QED
    BY <2>1 DEF ReachableFrom
<1> QED
  BY <1>3, <1>4 DEF ReachableFrom

\* A self-contained set in a graph, and a graph with more on that set.
LEMMA MoreReach ==
  ASSUME NEW R, NEW D, NEW E, NEW S, NEW All, R \subseteq S, S \subseteq All,
         SelfContained(S, D), \A f \in S : D[f] \subseteq E[f]
  PROVE  ReachableFrom(R, D, All) \subseteq ReachableFrom(R, E, All)
<1>1. \A T \in SUBSET All : SelfContained(T, E) => SelfContained(T \cap S, D)
  BY DEF SelfContained
<1>2. ASSUME NEW f \in ReachableFrom(R, D, All), NEW T \in SUBSET All,
             R \subseteq T, SelfContained(T, E)
      PROVE  f \in T
  <2>1. T \cap S \in SUBSET All /\ R \subseteq T \cap S /\ SelfContained(T \cap S, D)
    BY <1>1, <1>2
  <2> QED
    BY <2>1 DEF ReachableFrom
<1> QED
  BY <1>2 DEF ReachableFrom

(***************************************************************************)
(* After any history of edits, deletions, creations and runs cut short     *)
(* before SaveCache, a run that nobody disturbs reaches from the project   *)
(* no file but those that a run with an empty cache would reach on the     *)
(* same disk, and all of them as long as no entry includes a file created  *)
(* after that entry was parsed.  The last condition cannot be dropped: an  *)
(* entry that stays in the cache is not parsed again.                      *)
(***************************************************************************)
THEOREM CacheIsTransparent ==
  ASSUME OnlySources
  PROVE  CacheSpec => []SameAsWithoutCache
<1>1. CacheInv => SameAsWithoutCache
  <2> SUFFICES ASSUME CacheInv, phase = "save", quiet, ~torn
               PROVE  /\ ReachableFrom(project, deps, File) \subseteq TrueReach
                      /\ NothingMissed => ReachableFrom(project, deps, File) = TrueReach
    BY DEF SameAsWithoutCache
  <2> USE DEF CacheInv
  <2>1. toScan = {} /\ Pending = {} /\ entries \subseteq checked
    BY DEF FlagInv, Pending
  <2>2. project = {f \in Roots : Exists(f)}
    BY <2>1 DEF QuietInv
  <2>3. project \subseteq entries /\ entries \subseteq File /\ SelfContained(entries, deps)
    BY DEF CacheTypeInv, CacheTypeOK, SelfContained
  <2>4. ASSUME NEW f \in entries
        PROVE  /\ deps[f] \subseteq TrueDeps[f]
               /\ TrueDeps[f] \subseteq deps[f] \cup (Parse(f) \cap late[f])
    <3>1. f \in File /\ IsVersion(f, stamp[f]) /\ Covers(f, deps[f], late[f])
      BY <2>1, <2>3 DEF QuietInv, CheckedInv
    <3>2. Parse(f) = Candidates[f][disk[f]]
      BY <3>1 DEF Parse, IsVersion
    <3>3. \A c \in deps[f] : Exists(c)
      BY <2>3 DEF QuietInv, IsVersion, SelfContained
    <3> QED
      BY <3>1, <3>2, <3>3 DEF TrueDeps, Covers
  <2>5. ReachableFrom(project, deps, File) \subseteq TrueReach
    BY <2>2, <2>3, <2>4, MoreReach DEF TrueReach
  <2>6. ASSUME NothingMissed
        PROVE  ReachableFrom(project, deps, File) = TrueReach
    <3>1. \A f \in entries : TrueDeps[f] = deps[f]
      BY <2>4, <2>6 DEF NothingMissed
    <3> QED
      BY <2>2, <2>3, <3>1, SameReach DEF TrueReach
  <2> QED
    BY <2>5, <2>6
<1> QED
  BY <1>1, CacheAlways, PTL

=============================================================================
