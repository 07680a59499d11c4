----------------------------- MODULE Namespace -----------------------------
(***************************************************************************)
(* What a file system promises its callers: a tree of path names, each     *)
(* bound to a file number, with hard links between regular files.  Nothing *)
(* is said of bitmaps, inodes, reference counts or blocks; a file lives    *)
(* exactly as long as a name is bound to it.                               *)
(***************************************************************************)
EXTENDS Integers, Sequences

CONSTANTS
    Paths,        \* the path names: <<>> is the root, <<"a", "b">> is /a/b
    Files,        \* the file numbers
    Root,         \* the root directory's
    Unbound       \* what a path that names nothing is bound to

VARIABLES
    tree,         \* the file number each path is bound to
    dirs,         \* the numbers that are directories
    written       \* the regular files that have contents

nvars == <<tree, dirs, written>>

Parent(p) == SubSeq(p, 1, Len(p) - 1)

Bound == {p \in Paths : tree[p] # Unbound}
Named == {tree[p] : p \in Bound}

NInit ==
    /\ tree = [p \in Paths |-> IF p = <<>> THEN Root ELSE Unbound]
    /\ dirs = {Root}
    /\ written = {}

\* Only the binding of p changes.  The first conjunct follows from the second
\* and spares TLC most of its work where tree is a refinement mapping.
Rebind(p, i) ==
    /\ tree'[p] = i
    /\ tree' = [tree EXCEPT ![p] = i]

\* The paths that can be bound: nothing has the name, its directory is there.
Vacant ==
    {p \in Paths \ {<<>>} : tree[Parent(p)] \in dirs /\ tree[p] = Unbound}

\* A new file, or a new directory, under a number that no name leads to.
Create(p, i) ==
    /\ Rebind(p, i)
    /\ i \notin Named
    /\ dirs' \in {dirs, dirs \cup {i}}
    /\ UNCHANGED written

\* Another name for a regular file.
Link(p, i) ==
    /\ Rebind(p, i)
    /\ i \in Named \ dirs
    /\ UNCHANGED <<dirs, written>>

\* A name goes; the contents go with the last one.
Unlink(p) ==
    /\ Rebind(p, Unbound)
    /\ tree[p] \notin dirs
    /\ written' = written \cap {tree[q] : q \in Bound \ {p}}
    /\ UNCHANGED dirs

\* Contents are written through any of the file's names, once.
Write(p) ==
    /\ tree[p] \notin dirs \cup written
    /\ written' = written \cup {tree[p]}
    /\ UNCHANGED <<tree, dirs>>

NNext ==
    \/ \E p \in Vacant, i \in Files : Create(p, i) \/ Link(p, i)
    \/ \E p \in Bound : Unlink(p) \/ Write(p)

NSpec == NInit /\ [][NNext]_nvars
=============================================================================
