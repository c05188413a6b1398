----------------------------- MODULE MCWatcher -----------------------------
(* Instances of module Watcher: below the top there can be directories d and *)
(* e, e also in d, and in each a file f; a hidden file h; an excluded x.     *)
EXTENDS Watcher

MCPaths  == {top, <<"d">>, <<"d", "f">>, <<"d", "e">>, <<"d", "e", "f">>, <<".h">>, <<"x">>}
MCTrees  == {{top}, {top, <<"d">>, <<"d", "e">>}}
MCExcluded == {<<"x">>}

\* Two directories side by side, to move one to the place of the other.
SidePaths == {top, <<"d">>, <<"d", "f">>, <<"e">>, <<"e", "f">>}
SideTrees == {{top, <<"d">>, <<"d", "f">>}}

\* One directory in another, both to be made again and again.
AgainPaths == {top, <<"d">>, <<"d", "e">>}
AgainTrees == {{top}}
=============================================================================
