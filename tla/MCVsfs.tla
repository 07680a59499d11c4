------------------------------- MODULE MCVsfs -------------------------------
(***************************************************************************)
(* The instance of Vsfs that TLC checks.  Nothing in Vsfs tells one name   *)
(* from another, so the names are symmetric.                               *)
(***************************************************************************)
EXTENDS Vsfs, TLC

CONSTANTS a, b, c

\* One geometry for each way to fill up: no free inode or no free block from
\* the start, inodes to spare, blocks to spare.
MCGeometries == {<<1, 2>>, <<2, 1>>, <<5, 3>>, <<4, 4>>}

NamesAlike == Permutations(Names)
=============================================================================
