--------------------------- MODULE MCFolderScript ---------------------------
(***************************************************************************)
(* Folders of up to two items, or three with a $Configuration first.  An   *)
(* item is a file list, alone or with a section of up to one configuration,*)
(* a $Configuration or a folder with up to two items of its own, or up to  *)
(* one where there are two folders or three items.  The lists              *)
(* have files that exist (a, b), that do not (m, n), that stay unresolved  *)
(* (o) and that have a build step (s), with conditions of either value.    *)
(***************************************************************************)
EXTENDS FolderScript

LOCAL Names(list) == [i \in DOMAIN list |-> [name |-> list[i][1], cond |-> list[i][2]]]
LOCAL Always(list) == Names([i \in DOMAIN list |-> <<list[i], "none">>])

LOCAL Item(word, list, confs, section) ==
  [word |-> word, list |-> list, confs |-> confs, section |-> section, inner |-> << >>]

LOCAL FileLists ==
  {Always(l) : l \in {<<"a">>, <<"m", "a">>, <<"a", "b">>, <<"o", "a">>, <<"a", "o">>, <<"o">>,
                      <<"s">>, <<"m", "n">>}}
  \cup {Names(l) : l \in {<< <<"a", "true">>, <<"s", "false">> >>,
                          << <<"a", "false">> >>,
                          << <<"m", "none">>, <<"a", "false">>, <<"s", "none">> >>}}

LOCAL LeafItems ==
  {Item("$File", l, << >>, FALSE) : l \in FileLists}
  \cup {Item("$File", l, c, TRUE) : l \in FileLists, c \in {<< >>, <<"x">>}}
  \cup {Item("$DynamicFile", Always(<<"m">>), << >>, FALSE),
        Item("$Configuration", << >>, <<"y">>, FALSE)}

LOCAL InnerItems ==
  {Item("$File", Always(<<"a">>), << >>, FALSE), Item("$File", Always(<<"a", "b">>), <<"x">>, TRUE),
   Item("$File", Always(<<"s">>), << >>, TRUE), Item("$File", Always(<<"o">>), <<"x">>, TRUE),
   Item("$Configuration", << >>, <<"z">>, FALSE)}

LOCAL FolderItems(n) ==
  {[Item(w, << >>, << >>, FALSE) EXCEPT !.inner = s] :
     w \in FolderWords, s \in BoundedSeq(InnerItems, n)}

MCTrees ==
  BoundedSeq(LeafItems, 2)
  \cup {<<f, l>> : f \in FolderItems(2), l \in LeafItems}
  \cup {<<l, f>> : f \in FolderItems(2), l \in LeafItems}
  \cup {<<f, g>> : f \in FolderItems(1), g \in FolderItems(1)}
  \cup {<<Item("$Configuration", << >>, <<"y">>, FALSE), f, l>> :
          f \in FolderItems(1), l \in LeafItems}

FolderStart(chosen) == (~chosen => tree = << >> /\ outer = "$Folder") /\ FolderInit
=============================================================================
