---------------------------- MODULE RaidMapping ----------------------------
(***************************************************************************)
(* Final_Review_Code/HW-Raid/raid.py: where an array puts its blocks.  An  *)
(* array r has r.level, r.numDisks, r.chunkSize (in blocks) and r.raid5type*)
(* (left-symmetric or left-asymmetric).  A place is a disk and an offset.  *)
(***************************************************************************)
EXTENDS Integers

Place(disk, off) == [disk |-> disk, off |-> off]

cnum(r, bnum) == bnum \div r.chunkSize
coff(r, bnum) == bnum % r.chunkSize

\* The arrays that main and raid.__init__ accept.
IsArray(r) ==
    /\ r.level \in {0, 1, 4, 5}
    /\ r.numDisks \in Nat \ {0} /\ r.chunkSize \in Nat \ {0}
    /\ r.level # 0 => r.numDisks >= 2
    /\ r.level = 1 => r.numDisks % 2 = 0
    /\ r.raid5type \in {"LA", "LS"}

blocksInStripe(r) == (r.numDisks - 1) * r.chunkSize

\* Blocks dealt out to n disks chunk by chunk: the disk and the offset.
StripeDisk(r, n, bnum) == cnum(r, bnum) % n
\* Mutation: rows counted from one.
StripeOff_NextRow(r, n, bnum) == (cnum(r, bnum) \div n + 1) * r.chunkSize + coff(r, bnum)
StripeOff(r, n, bnum)  == (cnum(r, bnum) \div n) * r.chunkSize + coff(r, bnum)

bmap0(r, bnum) == Place(StripeDisk(r, r.numDisks, bnum), StripeOff(r, r.numDisks, bnum))

Pairs(r) == r.numDisks \div 2
\* Mutation: both copies on the pair's first disk.
bmap1_SameDisk(r, bnum) ==
    LET place == Place(2 * StripeDisk(r, Pairs(r), bnum), StripeOff(r, Pairs(r), bnum))
    IN  <<place, place>>
bmap1(r, bnum) ==
    LET disk == 2 * StripeDisk(r, Pairs(r), bnum)
        off  == StripeOff(r, Pairs(r), bnum)
    IN  <<Place(disk, off), Place(disk + 1, off)>>

\* RAID 4 and 5: the row a block's chunk lies in, and the disk of the row's parity.
ddsk(r, bnum) == cnum(r, bnum) \div (r.numDisks - 1)
col(r, bnum)  == ddsk(r, bnum) % r.numDisks

pdisk(r, bnum) ==
    IF r.level = 4 THEN r.numDisks - 1 ELSE (r.numDisks - 1) - col(r, bnum)

\* Mutation: the chunk that meets the parity disk is not moved on.
DataDisk_OffByOne(r, bnum) ==
    LET disk == StripeDisk(r, r.numDisks - 1, bnum)
    IN  IF r.level = 4 THEN disk
        ELSE IF r.raid5type = "LS" THEN (disk - col(r, bnum)) % r.numDisks
        ELSE IF disk > pdisk(r, bnum) THEN disk + 1 ELSE disk

\* The disk of a data block.  RAID 5 steps over the row's parity (LA) or starts
\* each row behind the last one's (LS).
DataDisk(r, bnum) ==
    LET disk == StripeDisk(r, r.numDisks - 1, bnum)
    IN  IF r.level = 4 THEN disk
        ELSE IF r.raid5type = "LS" THEN (disk - col(r, bnum)) % r.numDisks
        ELSE IF disk >= pdisk(r, bnum) THEN disk + 1 ELSE disk

\* bmap4 and bmap5, pmap4 and pmap5.
bmap(r, bnum) == Place(DataDisk(r, bnum), StripeOff(r, r.numDisks - 1, bnum))
pmap(r, snum) == pdisk(r, snum * blocksInStripe(r))

\* The places a block is kept in, and the place of the parity it enters.
Copies(r, bnum) ==
    IF r.level = 0 THEN {bmap0(r, bnum)}
    ELSE IF r.level = 1 THEN {bmap1(r, bnum)[1], bmap1(r, bnum)[2]}
    ELSE {bmap(r, bnum)}
StripeOf(r, bnum) == bnum \div blocksInStripe(r)
ParityOf(r, bnum) ==
    IF r.level \in {4, 5}
    THEN {Place(pmap(r, StripeOf(r, bnum)), bmap(r, bnum).off)} ELSE {}
=============================================================================
