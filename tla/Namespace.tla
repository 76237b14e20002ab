------------------------------ MODULE Namespace ------------------------------
(***************************************************************************)
(* What the native layer sees of the disk.  A world is a set of directory  *)
(* entries: the directory they lie in, their spelling, their 8.3 alias and *)
(* the node they name, together with the directories and volumes that safe *)
(* v1 refuses.  A path is a sequence: the drive, then the components; the  *)
(* root of a drive is a node of its own, named by the drive.               *)
(*                                                                         *)
(* A lookup ignores case and also finds an entry by its alias, so several  *)
(* texts lead to one entry; the key of an entry (its directory's identity  *)
(* and the folded spelling) is what tells entries apart.                   *)
(***************************************************************************)
EXTENDS Naturals, Sequences, FiniteSets, TLC

CONSTANTS
  Drives,    \* the drive letters of the machine
  Fold,      \* Fold[n]: the folded form of spelling n
  Nodes      \* Nodes[x]: kind, volume and reparse flag of node x

Parent(path) == SubSeq(path, 1, Len(path) - 1)
Leaf(path)   == path[Len(path)]

(***************************************************************************)
(* A path is absolute when it starts at a drive; its depth counts the      *)
(* components below the drive.                                             *)
(***************************************************************************)
is_absolute_windows_path(path) == Len(path) > 0 /\ path[1] \in Drives

path_component_depth(path) ==
  IF is_absolute_windows_path(path) THEN Len(path) - 1 ELSE Len(path)

\* The text key of a path: folded, aliases not resolved.
path_key(path) ==
  [i \in 1..Len(path) |-> IF i = 1 THEN path[1] ELSE Fold[path[i]]]

\* The ancestors a walk from the parent up to, but not including, the drive visits.
visit_direct_ancestors(path) == {SubSeq(path, 1, n) : n \in 2..(Len(path) - 1)}

(***************************************************************************)
(* Opening a name in a directory.                                          *)
(***************************************************************************)
Entries(w, dir, name) ==
  {e \in w.entries : e.dir = dir /\ (Fold[e.spelling] = Fold[name] \/ e.alias = Fold[name])}

open_entry(w, dir, name) ==
  IF Entries(w, dir, name) = {} THEN [err |-> "NotFound"]
  ELSE [err |-> "None", entry |-> CHOOSE e \in Entries(w, dir, name) : TRUE]

Opened(o) == IF o.err = "None" THEN {o.entry} ELSE {}

Failed(code) == [err |-> code]

(***************************************************************************)
(* The checks on an opened directory handle, in their order.               *)
(***************************************************************************)
validate_directory_handle(x) == Nodes[x].kind = "Directory" /\ ~Nodes[x].reparse

Accepts(w, x) ==
  IF ~validate_directory_handle(x) THEN "NotADirectory"
  ELSE IF x \in w.caseSensitive THEN "CaseSensitive"
  ELSE "None"

(***************************************************************************)
(* Open the parent directory of a path, one component at a time from the   *)
(* drive.  Every directory on the way is checked, the file system only of  *)
(* the last.                                                               *)
(***************************************************************************)
Accepted(w, x) ==
  IF Accepts(w, x) = "None" THEN [err |-> "None", node |-> x] ELSE Failed(Accepts(w, x))

Entered(w, o) == IF o.err # "None" THEN o ELSE Accepted(w, o.entry.node)

Descend(w, at, name) ==
  IF at.err # "None" THEN at
  ELSE Entered(w, open_entry(w, at.node, name))

Supported(w, at) ==
  IF at.err = "None" /\ Nodes[at.node].volume \in w.foreign
  THEN Failed("UnsupportedFilesystem") ELSE at

OpenParent(w, path) ==
  LET walk[i \in 1..Len(path)] ==
        IF i > 1 THEN Descend(w, walk[i - 1], path[i])
        ELSE IF path[1] \in w.remote THEN Failed("UnsupportedPath")
        ELSE Accepted(w, path[1])
  IN  Supported(w, walk[Len(path)])

validate_path_environment(w, path) == OpenParent(w, Parent(path)).err

\* The key of an entry named n in directory dir, whether or not it exists.
planned_entry_key(dir, n) == <<dir, Fold[n]>>

(***************************************************************************)
(* A snapshot: the identity of the parent and of what lies at the leaf.    *)
(***************************************************************************)
SnapshotIn(w, p, leaf) ==
  IF p.err # "None" THEN p
  ELSE [err    |-> "None",
        parent |-> p.node,
        node   |-> {e.node : e \in Opened(open_entry(w, p.node, leaf))}]

observe(w, path) == SnapshotIn(w, OpenParent(w, Parent(path)), Leaf(path))

(***************************************************************************)
(* The source of a row: a snapshot together with the path respelled the    *)
(* way the directory spells its leaf, and the key of that entry.           *)
(***************************************************************************)
Respelled(w, path, s) ==
  IF s.err # "None" THEN s
  ELSE s @@ IF s.node = {}
            THEN [path |-> path, key |-> <<>>]
            ELSE LET spelling == open_entry(w, s.parent, Leaf(path)).entry.spelling
                 IN  [path |-> Append(Parent(path), spelling),
                      key  |-> planned_entry_key(s.parent, spelling)]

resolve_source(w, path) == Respelled(w, path, observe(w, path))
=============================================================================
