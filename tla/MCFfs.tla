------------------------------- MODULE MCFfs -------------------------------
(***************************************************************************)
(* The disks TLC checks, described as groups x blocks x inodes.            *)
(***************************************************************************)
EXTENDS Ffs

Disk(groups, blocks, inodeCount, large, contig) ==
    [groups |-> groups, blocks |-> blocks, inodes |-> inodeCount, large |-> large,
     contig |-> contig, faraway |-> 1, spreadInodes |-> FALSE, spreadData |-> FALSE]

SmallDisks ==
    {Disk(2, 2, 2, l, 1) : l \in {0, 1}} \cup {Disk(3, 3, 3, l, c) : l \in {0, 1, 2}, c \in {1, 2}}
        \cup {[Disk(3, 3, 3, 0, 1) EXCEPT !.spreadInodes = i, !.spreadData = ~i] : i \in BOOLEAN}
        \cup {Disk(2, 4, 2, 0, 2), Disk(2, 2, 3, 0, 1), [Disk(3, 3, 2, 0, 1) EXCEPT !.faraway = 2]}

SmallPaths == {<<>>, <<"a">>, <<"b">>, <<"a", "b">>, <<"a", "c">>}
=============================================================================
