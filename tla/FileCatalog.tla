---------------------------- MODULE FileCatalog ----------------------------
(***************************************************************************)
(* What an index of files promises to its users: a set of files, at most   *)
(* one of each path, that can be loaded, updated one file at a time, and   *)
(* from which a path or a whole subtree can be dropped.  Module Index      *)
(* implements it with a vector and a hash map.                             *)
(***************************************************************************)
CONSTANTS
  Paths,      \* the path names
  Below,      \* Below[p]: the paths below p
  FileEntry,  \* the files, with a field "path"
  Contents    \* the sets of files that can be loaded

VARIABLE files

\* The files of other paths than the ones in P.
Except(P) == {f \in files : f.path \notin P}

Init == files = {}

Load(S)  == files' = S
Put(f)   == files' = Except({f.path}) \cup {f}
Drop(p)  == files' = Except({p})
Prune(p) == files' = Except({p} \cup Below[p])
Move(p, f) == files' = Except({p, f.path}) \cup {f}

Next ==
  \/ \E S \in Contents \cup {{}} : Load(S)
  \/ \E f \in FileEntry : Put(f)
  \/ \E p \in Paths : Drop(p) \/ Prune(p)
  \/ \E p \in Paths, f \in FileEntry : Move(p, f)

Spec == Init /\ [][Next]_files
=============================================================================
