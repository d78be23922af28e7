-------------------------- MODULE MCMacroResolution --------------------------
(***************************************************************************)
(* Macros $a, $ab and $c, the name of one beginning the name of another;   *)
(* conditionals ab and d; strings of up to two references or other         *)
(* symbols.  "lll" stands for the long names every run of VPC defines      *)
(* (_EXTERNAL_STATICLIB_EXT): it sorts first and is not used here.         *)
(***************************************************************************)
EXTENDS MacroResolution

A == <<"a">>
AB == <<"a", "b">>
C == <<"c">>
Long == <<"l", "l", "l">>

MCMacros == {A, AB, C, Long}
MCConditionals == {AB, <<"d">>}
MCValues == {<<>>, <<".">>, <<"b">>, <<"$", "a">>, <<"$", "a", "b">>, <<"$", "c", ".">>}

Pieces == {<<"$", "a">>, <<"$", "a", "b">>, <<"$", "c">>, <<"$", "d">>, <<"b">>, <<".">>}
MCTexts == {FlattenSeq(s) : s \in BoundedSeq(Pieces, 2)}

\* The unused macro has no value of interest.
ResolveStart(chosen) ==
  /\ ~chosen => order = <<Long, AB, A, C>>
  /\ value \in {v \in [Macros -> IF chosen THEN Values ELSE {<<>>}] : v[Long] = <<>>}
  /\ pString \in IF chosen THEN Texts ELSE {<<>>}
  /\ isCondition \in IF chosen THEN BOOLEAN ELSE {FALSE}
  /\ ResolveInit
-----------------------------------------------------------------------------
\* What the theorem about conditions asks of the strings.
ASSUME LongestIsUnmentioned == LongestUnmentioned
=============================================================================
