------------------------------ MODULE MCDaemon ------------------------------
(* Instances of module Daemon: root h (home) with the directory d, the files *)
(* a and b in d, b hidden, and root r with the file c.                       *)
EXTENDS Daemon, TLC

CONSTANTS h, r, d, a, b, c, c1, c2, rb

MCRootOf == [p \in Files |-> IF p = c THEN r ELSE h]
MCDirOf  == [p \in Files |-> IF p \in {a, b} THEN d ELSE None]

HomeOnly  == [paths |-> {h}, hide |-> TRUE]
OtherRoot == [paths |-> {r}, hide |-> TRUE]
BothRoots == [paths |-> {h, r}, hide |-> TRUE]

\* Nothing happens to the files, no request, no crash.
Still == [config |-> HomeOnly, files |-> Files, changes |-> {}, most |-> 0,
          requests |-> {}, crash |-> FALSE, forced |-> {FALSE}]

Growing  == [Still EXCEPT !.files = {a, b, d}, !.changes = Happenings, !.most = 2,
                          !.requests = {"rebuild", "add-path"}, !.crash = TRUE]
Setting  == [Growing EXCEPT !.files = {b, d}, !.most = 1, !.requests = {"rebuild", "set"}]
Removing == [Still EXCEPT !.config = BothRoots, !.changes = {"delete"}, !.most = 2,
                          !.requests = {"remove-path"}]
MCScenarios == {Growing, Setting, Removing}

\* Where the code goes wrong.
Applying     == {[Still EXCEPT !.requests = {"set"}]}
Forced       == {[Still EXCEPT !.config = OtherRoot, !.changes = {"delete"}, !.most = 1,
                               !.requests = {"rebuild"}, !.crash = TRUE, !.forced = BOOLEAN]}
Resurrecting == {[Still EXCEPT !.config = BothRoots, !.requests = {"rebuild", "remove-path"}],
                 [Removing EXCEPT !.changes = {"create"}], [Removing EXCEPT !.changes = {"modify"}],
                 [Removing EXCEPT !.crash = TRUE]}
Missing      == {[Still EXCEPT !.changes = {"create"}, !.most = 1, !.requests = {"rebuild"}]}
Restarting   == {[Still EXCEPT !.requests = {"remove-path"}, !.crash = TRUE]}
Changing     == {[Still EXCEPT !.config = OtherRoot, !.requests = {"set"}, !.crash = TRUE]}
Differing    == Forced \cup Resurrecting \cup Missing \cup Restarting \cup Changing
=============================================================================
