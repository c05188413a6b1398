------------------------------ MODULE MCIndex ------------------------------
(* Instances of module Index: a directory d, a file x in it, a file y beside *)
(* d whose name starts with that of d, and vectors as fullScan() and         *)
(* Db::loadAll() return them.                                                *)
EXTENDS Index, TLC

CONSTANTS d, x, y

MCBelow == (d :> {x}) @@ (x :> {}) @@ (y :> {})

Dir(p)     == [path |-> p, size |-> 1, is_dir |-> TRUE]
File(p, n) == [path |-> p, size |-> n, is_dir |-> FALSE]

\* One entry per path: the roots do not overlap, or the rows of the database.
DistinctSnapshots == {<<>>, <<Dir(d), File(y, 1), File(x, 1)>>, <<File(x, 0), Dir(d)>>}

\* Roots /r and /r/d: the scan of /r/d finds x a second time.
OverlappingSnapshots == DistinctSnapshots \cup {<<Dir(d), File(x, 1), File(y, 1), File(x, 1)>>}

\* removePathAndSubtree keeps the entries it does not mark, in their order.
ASSUME KeptIsSelectSeq ==
  \A s \in OverlappingSnapshots : \A p \in Paths :
    Kept(s, {i \in DOMAIN s : s[i].path # p}) = SelectSeq(s, LAMBDA f : f.path # p)
=============================================================================
