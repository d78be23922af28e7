--------------------------- MODULE MCSolutionRun ---------------------------
(***************************************************************************)
(* Two projects, one of them with a script per game condition, two games.  *)
(***************************************************************************)
EXTENDS SolutionRun

CONSTANTS lib, client, hl2, tf

MCProjects == <<lib, client>>
MCGames == <<hl2, tf>>

\* The library has one script that names no game.  The client has one script,
\* or two for different games; each may be for one platform only.
SomeScripts ==
  {[p \in ProjectIndex |-> IF p = lib THEN <<[phases |-> f, hasGame |-> FALSE, games |-> {}]>>
                      ELSE s] :
     f \in SUBSET Phase \ {{}},
     s \in {<<[phases |-> f1, hasGame |-> TRUE, games |-> g1]>> :
              f1 \in {{1}, Phase}, g1 \in SUBSET Game \ {{}}}
           \cup {<<[phases |-> Phase, hasGame |-> TRUE, games |-> {hl2}],
                   [phases |-> f2, hasGame |-> h, games |-> IF h THEN {tf} ELSE {}]>> :
                   f2 \in SUBSET Phase, h \in BOOLEAN}}

RunStart(chosen) ==
  /\ scripts \in IF chosen THEN SomeScripts ELSE {[p \in ProjectIndex |-> << >>]}
  /\ target \in IF chosen THEN {<<lib>>, <<client>>, <<lib, client>>, <<client, lib>>} ELSE {<<lib>>}
  /\ wanted \in IF chosen THEN SUBSET Game ELSE {{}}
  /\ twoPhase \in IF chosen THEN BOOLEAN ELSE {FALSE}
  /\ mksln \in IF chosen THEN BOOLEAN ELSE {FALSE}
  /\ simulates \in IF chosen THEN BOOLEAN ELSE {FALSE}
  /\ RunInit
=============================================================================
