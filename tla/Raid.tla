-------------------------------- MODULE Raid --------------------------------
(***************************************************************************)
(* Final_Review_Code/HW-Raid/raid.py: a stream of reads and writes on an   *)
(* array of disks.  Each request is turned into physical I/Os, which the   *)
(* disks count and time (in tenths of a millisecond).                      *)
(***************************************************************************)
EXTENDS RaidMapping, Sequences, FiniteSets, SequencesExt

CONSTANTS
    Arrays,          \* the arrays a run may be started with
    Sizes,           \* of the requests, in blocks
    RandRange,       \* random requests begin below
    numTracks,       \* of a disk (100 in the code)
    blocksPerTrack,  \* of a disk (100 in the code)
    numRequests

ASSUME RaidAssumption ==
    /\ \A r \in Arrays : IsArray(r)
    /\ Sizes \subseteq Nat /\ RandRange \in Nat
    /\ numTracks \in Nat \ {0} /\ blocksPerTrack \in Nat \ {0} /\ numRequests \in Nat

VARIABLES
    array, size, workload,  \* the options
    off,                    \* where a sequential workload goes on
    disks,                  \* self.disks
    request,                \* the last request, [addr, isWrite]
    issued,                 \* the physical I/Os of the last request
    count,                  \* of requests
    failed                  \* disk.enqueue's assertion has ended the program

vars == <<array, size, workload, off, disks, request, issued, count, failed>>

blocksPerDisk == numTracks * blocksPerTrack
seekTime == 100
xferTime == 1

NewDisk == [currAddr |-> -10000, countSeq |-> 0, countNseq |-> 0, countRand |-> 0, utilTime |-> 0]

Init ==
    /\ array \in Arrays /\ size \in Sizes /\ workload \in {"seq", "rand"}
    /\ off = 0
    /\ disks = [d \in 0 .. array.numDisks - 1 |-> NewDisk]
    /\ request = [addr |-> 0, isWrite |-> FALSE]
    /\ issued = <<>>
    /\ count = 0
    /\ failed = FALSE

-----------------------------------------------------------------------------
Read(place)  == [isWrite |-> FALSE, place |-> place]
Write(place) == [isWrite |-> TRUE, place |-> place]

\* range(begin, end)
Span(begin, end) == [k \in 1 .. end - begin |-> begin + k - 1]

enqueue0(addr, isWrite) ==
    [k \in 1 .. size |-> [isWrite |-> isWrite, place |-> bmap0(array, addr + k - 1)]]

\* A write goes to both copies, a read to the one its offset's parity names.
Balanced(bnum) ==
    LET copies == bmap1(array, bnum)
    IN  copies[(copies[1].off % 2) + 1]
enqueue1(addr, isWrite) ==
    IF isWrite
    THEN [k \in 1 .. 2 * size |->
             Write(bmap1(array, addr + (k - 1) \div 2)[((k - 1) % 2) + 1])]
    ELSE [k \in 1 .. size |-> Read(Balanced(addr + k - 1))]

\* doPartialWrite: the data blocks begin .. end - 1 and their parity.
DataPlaces(blocks) == [k \in DOMAIN blocks |-> bmap(array, blocks[k])]
\* offList: the blocks' offsets, each where it is met first.
Offsets(blocks) ==
    LET offList[k \in 0 .. Len(blocks)] ==
            IF k = 0 THEN <<>>
            ELSE LET before == offList[k - 1]
                     o == bmap(array, blocks[k]).off
                 IN  IF Contains(before, o) THEN before ELSE Append(before, o)
    IN  offList[Len(blocks)]
ParityPlaces(stripe, blocks) ==
    LET offList == Offsets(blocks)
    IN  [k \in DOMAIN offList |-> Place(pmap(array, stripe), offList[k])]
Reads(places)  == [k \in DOMAIN places |-> Read(places[k])]
Writes(places) == [k \in DOMAIN places |-> Write(places[k])]

\* Mutation: the blocks behind the last one written are forgotten.
ReadsForParity_OnlyBefore(stripe, begin, end) ==
    IF (end - begin) + 1 <= blocksInStripe(array) - (end - begin)
    THEN DataPlaces(Span(begin, end)) \o ParityPlaces(stripe, Span(begin, end))
    ELSE DataPlaces(Span(stripe * blocksInStripe(array), begin))

\* What is read first: the old contents and the old parity (subtractive), or
\* the rest of the stripe (additive), whatever is less.
ReadsForParity(stripe, begin, end) ==
    LET stripeBegin == stripe * blocksInStripe(array)
        stripeEnd   == stripeBegin + blocksInStripe(array)
    IN
    IF (end - begin) + 1 <= blocksInStripe(array) - (end - begin)
    THEN DataPlaces(Span(begin, end)) \o ParityPlaces(stripe, Span(begin, end))
    ELSE DataPlaces(Span(stripeBegin, begin)) \o DataPlaces(Span(end, stripeEnd))

doPartialWrite(stripe, begin, end) ==
    Reads(ReadsForParity(stripe, begin, end))
        \o Writes(DataPlaces(Span(begin, end)) \o ParityPlaces(stripe, Span(begin, end)))

Lesser(m, n) == IF m < n THEN m ELSE n

\* Mutation: the last piece goes on to the end of its stripe.
EndOfPiece_WholeStripe(stripe, begin, left) == (stripe + 1) * blocksInStripe(array)

EndOfPiece(stripe, begin, left) ==
    Lesser(begin + Lesser(left, blocksInStripe(array)), (stripe + 1) * blocksInStripe(array))

\* enqueue45: a read block by block, a write stripe by stripe.
WriteStripe(acc, stripe) ==
    LET end == EndOfPiece(stripe, acc.begin, acc.left)
    IN  [begin |-> end, left |-> acc.left - (end - acc.begin),
         ios |-> acc.ios \o doPartialWrite(stripe, acc.begin, end)]
Written(addr, stripes) ==
    LET done[k \in 0 .. stripes] ==
            IF k = 0 THEN [begin |-> addr, left |-> size, ios |-> <<>>]
            ELSE WriteStripe(done[k - 1], StripeOf(array, addr) + k - 1)
    IN  done[stripes].ios
enqueue45(addr, isWrite) ==
    IF isWrite
    THEN Written(addr, StripeOf(array, addr + size - 1) + 1 - StripeOf(array, addr))
    ELSE Reads(DataPlaces(Span(addr, addr + size)))

PhysicalIOs(addr, isWrite) ==
    CASE array.level = 0 -> enqueue0(addr, isWrite)
      [] array.level = 1 -> enqueue1(addr, isWrite)
      [] OTHER           -> enqueue45(addr, isWrite)

-----------------------------------------------------------------------------
\* disk.enqueue: near accesses cost the way, others a seek and a transfer.
Served(d, addr) ==
    LET diff == IF addr < d.currAddr THEN d.currAddr - addr ELSE addr - d.currAddr
        near == d.currAddr \div numTracks = addr \div numTracks \/ diff < blocksPerTrack
    IN
    [currAddr  |-> addr,
     countSeq  |-> d.countSeq + (IF near /\ diff = 1 THEN 1 ELSE 0),
     countNseq |-> d.countNseq + (IF near /\ diff # 1 THEN 1 ELSE 0),
     countRand |-> d.countRand + (IF near THEN 0 ELSE 1),
     utilTime  |-> d.utilTime + (IF near THEN diff * xferTime ELSE seekTime + xferTime)]
ServedBy(ds, io) == [ds EXCEPT ![io.place.disk] = Served(@, io.place.off)]

\* raid.enqueue, up to the first address that is not on the disk.
enqueue(addr, isWrite) ==
    LET planned == PhysicalIOs(addr, isWrite)
        beyond  == {k \in DOMAIN planned : planned[k].place.off >= blocksPerDisk}
        ios     == IF beyond = {} THEN planned
                   ELSE SubSeq(planned, 1, (CHOOSE k \in beyond : \A j \in beyond : k <= j) - 1)
    IN
    /\ issued' = ios
    /\ disks' = FoldLeft(ServedBy, disks, ios)
    /\ failed' = (beyond # {})

\* One turn of main's loop.
Request(addr, isWrite) ==
    /\ count < numRequests /\ ~failed
    /\ IF workload = "seq" THEN addr = off /\ off' = off + size
                           ELSE UNCHANGED off
    /\ enqueue(addr, isWrite)
    /\ request' = [addr |-> addr, isWrite |-> isWrite]
    /\ count' = count + 1
    /\ UNCHANGED <<array, size, workload>>

Next == \E addr \in 0 .. RandRange - 1 \cup {off}, isWrite \in BOOLEAN : Request(addr, isWrite)

Spec == Init /\ [][Next]_vars

-----------------------------------------------------------------------------
Asked == request.addr .. request.addr + size - 1
Touched(isWrite) == {k \in DOMAIN issued : issued[k].isWrite = isWrite}
PlacesAt(indices) == {issued[k].place : k \in indices}

DisksOf(places) == {p.disk : p \in places}

\* No place is used for two things: two blocks of the array, or a block and a
\* parity, never share a place.  And a disk that fails takes no more with it
\* than the level can restore: the two copies of RAID 1 lie on two disks, the
\* blocks that enter one parity on as many, and their parity on another one
\* ("assert(disk != pdisk)" is the part of it the code states).
PlacesAreDistinct ==
    LET blocks == 0 .. RandRange - 1 IN
    \A b, c \in blocks :
        /\ b # c => Copies(array, b) \cap Copies(array, c) = {}
        /\ Copies(array, b) \cap ParityOf(array, c) = {}
        /\ array.level = 1 => Cardinality(DisksOf(Copies(array, b))) = 2
        /\ array.level \in {4, 5} =>
            /\ DisksOf(Copies(array, b)) \cap DisksOf(ParityOf(array, b)) = {}
            /\ b # c /\ ParityOf(array, b) = ParityOf(array, c)
                => DisksOf(Copies(array, b)) \cap DisksOf(Copies(array, c)) = {}

\* A write puts every block it was asked to write, and no other one, into all
\* its places and changes the parity of each row it touches, each exactly once,
\* however it is split at the ends of stripes; a read takes one copy of each.
TouchesExactlyWhatWasAsked ==
    ~failed /\ count > 0 =>
    IF request.isWrite
    THEN /\ PlacesAt(Touched(TRUE)) = UNION {Copies(array, b) \cup ParityOf(array, b) : b \in Asked}
         /\ \A j, k \in Touched(TRUE) : j # k => issued[j].place # issued[k].place
    ELSE /\ Len(issued) = size /\ Touched(TRUE) = {}
         /\ \A b \in Asked : PlacesAt(Touched(FALSE)) \cap Copies(array, b) # {}

\* The blocks whose parity has the same place as that of block b.
RowOf(b) ==
    LET first == StripeOf(array, b) * blocksInStripe(array)
    IN  {c \in first .. first + blocksInStripe(array) - 1 :
            ParityOf(array, c) = ParityOf(array, b)}

\* The new parity follows from what was read before it is written: the rest of
\* the row, or the row's old parity and the old contents of all that is written.
ParityCanBeComputed ==
    ~failed /\ request.isWrite =>
    \A b \in Asked, k \in Touched(TRUE) :
        {issued[k].place} = ParityOf(array, b) =>
            LET before == PlacesAt({j \in Touched(FALSE) : j < k})
                Known(c) == Copies(array, c) \subseteq before
            IN  \/ \A c \in RowOf(b) \ Asked : Known(c)
                \/ ParityOf(array, b) \subseteq before /\ \A c \in RowOf(b) \cap Asked : Known(c)

\* The disks that data is dealt out to, the blocks of so many rows of chunks on
\* them, the rows that lie on the disks wholly, and those that begin on them.
\* raid.__init__ does not ask for a chunk size that divides a disk: the last row
\* may be torn.
dataDisks ==
    CASE array.level = 0 -> array.numDisks
      [] array.level = 1 -> Pairs(array)
      [] OTHER           -> array.numDisks - 1
BlocksIn(rows) == array.chunkSize * (dataDisks * rows)
wholeRows == blocksPerDisk \div array.chunkSize
begunRows == (blocksPerDisk + array.chunkSize - 1) \div array.chunkSize

\* A block that does not lie on the disks.
Beyond(b) == \E p \in Copies(array, b) : p.off >= blocksPerDisk
\* The blocks of RAID 4 and 5 in one stripe with b.
StripeMates(b) ==
    IF array.level \in {4, 5}
    THEN LET first == StripeOf(array, b) * blocksInStripe(array)
         IN  first .. first + blocksInStripe(array) - 1
    ELSE {}

\* disk.enqueue's assertion, the only test of a request's range, ends no program
\* that keeps to the rows that lie on the disks wholly, and every program that
\* asks for a block behind the last row.  In a torn row it is exact as well, but
\* for a write of RAID 4 or 5: to compute a parity it may read blocks of its
\* stripe that the disks have no room for.
EndsOnlyBeyondCapacity ==
    count > 0 =>
    /\ failed => size > 0 /\ request.addr + size > BlocksIn(wholeRows)
    /\ size > 0 /\ request.addr + size > BlocksIn(begunRows) => failed
    /\ (\E b \in Asked : Beyond(b)) => failed
    /\ failed => \E b \in Asked :
                    Beyond(b) \/ (request.isWrite /\ \E c \in StripeMates(b) : Beyond(c))
=============================================================================
