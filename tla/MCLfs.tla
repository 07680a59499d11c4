------------------------------- MODULE MCLfs -------------------------------
(***************************************************************************)
(* The instances of Lfs that TLC checks.  Nothing in Lfs tells one name    *)
(* from another, so the names are symmetric.                               *)
(***************************************************************************)
EXTENDS Lfs, TLC

CONSTANTS a, b, c

Mode(disk_cr, no_force, policy) ==
    [use_disk_cr |-> disk_cr, no_force_checkpoints |-> no_force, inode_policy |-> policy]

\* The inode map in memory, with and without forced checkpoints.
InMemoryModes ==
    {Mode(FALSE, FALSE, "sequential"), Mode(FALSE, TRUE, "sequential"), Mode(FALSE, FALSE, "random")}

\* Inodes found through the checkpoint region, which every command writes.
OnDiskModes == {Mode(TRUE, FALSE, "sequential")}

NamesAlike == Permutations(Names)
=============================================================================
