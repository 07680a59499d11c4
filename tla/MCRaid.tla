------------------------------- MODULE MCRaid -------------------------------
(***************************************************************************)
(* The arrays TLC checks: every level, both layouts of RAID 5, chunks of   *)
(* one and of two blocks, and one of four.  A disk of nine blocks ends in  *)
(* the middle of a chunk of two or four.                                   *)
(***************************************************************************)
EXTENDS Raid

Array(level, numDisks, chunkSize, raid5type) ==
    [level |-> level, numDisks |-> numDisks, chunkSize |-> chunkSize, raid5type |-> raid5type]

SmallArrays ==
    {Array(0, d, c, "LS") : d \in {1, 3}, c \in {1, 2}}
        \cup {Array(1, d, c, "LS") : d \in {2, 4}, c \in {1, 2}}
        \cup {Array(4, d, c, "LS") : d \in {2, 4}, c \in {1, 2}}
        \cup {Array(5, d, c, t) : d \in {3, 4}, c \in {1, 2}, t \in {"LA", "LS"}}
        \cup {Array(5, 3, 4, "LS")}
=============================================================================
