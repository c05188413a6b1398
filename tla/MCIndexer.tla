----------------------------- MODULE MCIndexer -----------------------------
(* Instances of module Indexer.  Root r holds directories a and b, a file f  *)
(* and a hidden directory h; a holds directory c and an excluded name x; b   *)
(* holds a name n that cannot be stat'ed and two links, l to the directory c *)
(* is and m to the root; c holds a directory g that cannot be opened, which  *)
(* is k when reached through l.                                              *)
EXTENDS Indexer, TLC

CONSTANTS r, a, b, c, f, g, h, x, n, l, k, m, t1, t2, t3

MCChildren ==
  [p \in Paths |-> CASE p = r -> {a, b, f, h}
                     [] p = a -> {c, x}
                     [] p = b -> {n, l, m}
                     [] p = c -> {g}
                     [] p = l -> {k}
                     [] OTHER -> {}]

MCInode == [p \in Paths |-> CASE p = l -> c [] p = m -> r [] p = k -> g [] OTHER -> p]

\* Without and with links followed.  In the second, x is excluded as a root
\* too, and a is a root below the root r; in the third, a directory below the
\* root r is a root under its other path.
MCConfigs == {[paths |-> <<r>>, follow_symlinks |-> FALSE],
              [paths |-> <<x, r, a>>, follow_symlinks |-> TRUE],
              [paths |-> <<l, r>>, follow_symlinks |-> TRUE]}

\* A root below another one, links not followed.
NestedConfigs == {[paths |-> <<r, a>>, follow_symlinks |-> FALSE]}
=============================================================================
