-------------------------- MODULE MacroResolution --------------------------
(***************************************************************************)
(* The expansion of $MACRO references in a script string or a condition:   *)
(* CVPC::ResolveMacrosInStringInternal of src/utils/vpc/macros.cpp, with   *)
(* Sys_ReplaceString.                                                      *)
(*                                                                         *)
(* A text is a sequence of symbols and a name is a sequence of letters:    *)
(* what matters is that one name may be the beginning of another, so that  *)
(* "$ab" holds the reference $ab and the reference $a.  Case, the warnings *)
(* and the size of the buffers are left out.                               *)
(***************************************************************************)
EXTENDS Naturals, FiniteSets, SequencesExt, IncludeGraph

CONSTANTS Macros,       \* the names of the macros, longest first when sorted
          Conditionals, \* the names of the conditionals
          Values,       \* the values a macro may have
          Texts         \* the strings to resolve

ASSUME ResolveAssumption ==
  /\ IsFiniteSet(Macros)
  /\ \A s \in Macros \cup Values \cup Texts : s \in Seq(ToSet(s))

VARIABLES order,        \* m_Macros, sorted
          value,        \* the value of each macro
          pString,      \* the string to resolve
          isCondition,  \* bStringIsConditional
          buffer1,
          buffer2,
          next,         \* the macro of the pass that comes next
          bDone,
          bDoReplace,
          resolved      \* whether the loop has ended

resolveVars == <<order, value, pString, isCondition, buffer1, buffer2, next, bDone,
          bDoReplace, resolved>>

Reference(m) == <<"$">> \o m

\* The text t from its position k on.
From(t, k) == SubSeq(t, k, Len(t))

\* The positions of t at which s occurs.
Occurrences(t, s) == {k \in 1..Len(t) : IsPrefix(s, From(t, k))}

First(S) == CHOOSE k \in S : \A l \in S : k <= l

\* Every s of t replaced with r, from left to right, never inside an r.
Sys_ReplaceString(t, s, r) ==
  LET rest[k \in 1..(Len(t) + 1)] ==
        IF k > Len(t) THEN <<>>
        ELSE IF k \in Occurrences(t, s) THEN r \o rest[k + Len(s)]
        ELSE <<t[k]>> \o rest[k + 1]
  IN  rest[1]

\* A slip: the comparison is the wrong way round.
ShortestFirst(s) == \A i, j \in DOMAIN s : i < j => Len(s[i]) <= Len(s[j])

\* SortMacrosByNameLength: the sort says nothing of names of one length.
Sorted(s) == \A i, j \in DOMAIN s : i < j => Len(s[i]) >= Len(s[j])

\* No macro's value leads back to the macro: the loop has no other protection.
Acyclic(v) ==
  LET mentions == [m \in Macros |-> {n \in Macros : Occurrences(v[m], Reference(n)) # {}}]
  IN  \A m \in Macros : m \notin ReachableFrom(mentions[m], mentions, Macros)

ResolveTypeOK ==
  /\ order \in [1..Cardinality(Macros) -> Macros]
  /\ value \in [Macros -> Values]
  /\ pString \in Texts
  /\ isCondition \in BOOLEAN
  /\ next \in 1..Cardinality(Macros) + 1
  /\ bDone \in BOOLEAN
  /\ bDoReplace \in BOOLEAN
  /\ resolved \in BOOLEAN
  /\ resolved => bDone /\ next = Cardinality(Macros) + 1

ResolveInit ==
  /\ order \in SetToSeqs(Macros)
  /\ Sorted(order)
  /\ value \in [Macros -> Values]
  /\ Acyclic(value)
  /\ pString \in Texts
  /\ isCondition \in BOOLEAN
  /\ buffer1 = pString
  /\ buffer2 = <<>>
  /\ next = 1
  /\ bDone = TRUE
  /\ bDoReplace = TRUE
  /\ resolved = FALSE

\* A slip: the conditional is looked for at the $, not after it.
BlockedAtDollar(m) ==
  LET found == Occurrences(buffer1, Reference(m))
  IN  /\ isCondition
      /\ found # {}
      /\ \E c \in Conditionals : IsPrefix(c, From(buffer1, First(found)))

\* A condition whose first reference to the macro, after its $, is also the
\* beginning of a conditional.
Blocked(m) ==
  LET found == Occurrences(buffer1, Reference(m))
  IN  /\ isCondition
      /\ found # {}
      /\ \E c \in Conditionals : IsPrefix(c, From(buffer1, First(found) + 1))

(***************************************************************************)
(* The body of the loop over the macros.  bDoReplace is set at the start   *)
(* of the pass, not here.  Sys_ReplaceString writes buffer2 also when it   *)
(* finds nothing, and nothing else writes it.                              *)
(***************************************************************************)
ResolveMacro ==
  /\ ~resolved
  /\ next <= Len(order)
  /\ LET m == order[next]
         replace == bDoReplace /\ ~Blocked(m)
         out == IF replace THEN Sys_ReplaceString(buffer1, Reference(m), value[m])
                ELSE buffer2
     IN  /\ bDoReplace' = replace
         /\ bDone' = (bDone /\ ~(replace /\ Occurrences(buffer1, Reference(m)) # {}))
         /\ buffer2' = out
         /\ buffer1' = out
  /\ next' = next + 1
  /\ UNCHANGED <<order, value, pString, isCondition, resolved>>

\* A slip: the flag is cleared before the loop, not before each pass.
EndPassKeepsFlag ==
  /\ ~resolved
  /\ next > Len(order)
  /\ IF bDone
     THEN resolved' = TRUE /\ UNCHANGED <<next, bDone, bDoReplace>>
     ELSE next' = 1 /\ bDoReplace' = TRUE /\ UNCHANGED <<bDone, resolved>>
  /\ UNCHANGED <<order, value, pString, isCondition, buffer1, buffer2>>

\* A slip: the loop ends with the first macro that is not in the string.
EndPassEarly ==
  /\ ~resolved
  /\ next > 1
  /\ IF bDone
     THEN resolved' = TRUE /\ UNCHANGED <<next, bDone, bDoReplace>>
     ELSE next' = 1 /\ bDone' = TRUE /\ bDoReplace' = TRUE /\ UNCHANGED resolved
  /\ UNCHANGED <<order, value, pString, isCondition, buffer1, buffer2>>

\* while (!bDone): another pass, or the end.
EndPass ==
  /\ ~resolved
  /\ next > Len(order)
  /\ IF bDone
     THEN resolved' = TRUE /\ UNCHANGED <<next, bDone, bDoReplace>>
     ELSE next' = 1 /\ bDone' = TRUE /\ bDoReplace' = TRUE /\ UNCHANGED resolved
  /\ UNCHANGED <<order, value, pString, isCondition, buffer1, buffer2>>

Resolved == resolved /\ UNCHANGED resolveVars

ResolveNext == ResolveMacro \/ EndPass \/ Resolved

ResolveSpec == ResolveInit /\ [][ResolveNext]_resolveVars

ResolveFairSpec == ResolveSpec /\ WF_resolveVars(ResolveMacro \/ EndPass)

-----------------------------------------------------------------------------
\* What comes after position k begins with the name of a conditional.
NamesAConditional(k) ==
  \E c \in Conditionals : IsPrefix(c, From(pString, k + 1))

\* No string mentions one of the longest macros, which come first.
LongestUnmentioned ==
  \A m \in Macros, t \in Texts :
    (\A n \in Macros : Len(n) <= Len(m)) => Occurrences(t, Reference(m)) = {}

(***************************************************************************)
(* "give conditionals priority over macros": a condition in which every    *)
(* reference begins with the name of a conditional is left as it is.       *)
(***************************************************************************)
ConditionUntouched ==
  resolved /\ isCondition /\ (\A k \in Occurrences(pString, <<"$">>) : NamesAConditional(k))
    => buffer1 = pString

(***************************************************************************)
(* The reference: one scan of the string, each reference read as the       *)
(* longest macro name it begins with, its value expanded before it is put  *)
(* in.  No value refers deeper than there are macros.                      *)
(***************************************************************************)
Scan(t, E) ==
  LET here(k) == {m \in Macros : k \in Occurrences(t, Reference(m))}
      longest(k) == CHOOSE m \in here(k) : \A n \in here(k) : Len(n) <= Len(m)
      rest[k \in 1..(Len(t) + 1)] ==
        IF k > Len(t) THEN <<>>
        ELSE IF here(k) = {} THEN <<t[k]>> \o rest[k + 1]
        ELSE E[longest(k)] \o rest[k + 1 + Len(longest(k))]
  IN  rest[1]

Expanded ==
  LET expand[d \in 0..Cardinality(Macros)] ==
        IF d = 0 THEN [m \in Macros |-> <<>>]
        ELSE [m \in Macros |-> Scan(value[m], expand[d - 1])]
  IN  expand[Cardinality(Macros)]

\* The symbols of names, and whether the name before position k of t goes on there.
NameSymbols == UNION {ToSet(m) : m \in Macros}
GoesOn(t, k) == k \in DOMAIN t /\ t[k] \in NameSymbols

\* At k stands a reference to m, and nothing that could make its name longer.
Refers(t, k, m) ==
  k \in Occurrences(t, Reference(m)) /\ ~GoesOn(t, k + 1 + Len(m))

(***************************************************************************)
(* No name that a $ begins is still going on at position k of t; `apart`   *)
(* says that of what stands before t.                                      *)
(***************************************************************************)
Free(t, k, apart) ==
  /\ \A j \in 1..k - 1 : t[j] = "$" => \E i \in j + 1..k - 1 : t[i] \notin NameSymbols
  /\ apart \/ \E i \in 1..k - 1 : t[i] \notin NameSymbols

\* Every reference in t ends where its name does, and its value does not continue
\* an earlier name.
Separated(t, apart) ==
  \A k \in 1..Len(t), m \in Macros :
    k \in Occurrences(t, Reference(m)) =>
      \E n \in Macros : Refers(t, k, n) /\ (GoesOn(value[n], 1) => Free(t, k, apart))

\* A reference that comes out of a value after its own macro in the pass, and
\* before a macro whose name begins it.
ComesLate(n) ==
  \E l, m \in Macros :
    /\ m # n /\ m # l /\ IsPrefix(m, n)
    /\ Occurrences(value[l], Reference(n)) # {}
    /\ Len(m) <= Len(l) /\ Len(l) <= Len(n)

\* No replacement makes, extends or cuts off a reference.
ReferencesStand ==
  /\ "$" \notin NameSymbols
  /\ Separated(pString, TRUE)
  /\ \A m \in Macros : Separated(value[m], FALSE) /\ ~ComesLate(m)

(***************************************************************************)
(* "ensure a "greedy" match": a string (not a condition) comes out as the  *)
(* reference says, whatever the order of macros with names of one length   *)
(* and however many passes it took: the loop replaces the longest name     *)
(* everywhere and then the next, over buffers that are copied back and     *)
(* forth, the reference reads the string once.                             *)
(***************************************************************************)
GreedyMatch ==
  resolved /\ ~isCondition /\ ReferencesStand => buffer1 = Scan(pString, Expanded)

\* Once it has begun, the loop ends for every string and every set of macros that
\* is not cyclic.
ResolutionEnds == next > 1 ~> resolved
=============================================================================
