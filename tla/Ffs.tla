-------------------------------- MODULE Ffs --------------------------------
(***************************************************************************)
(* Final_Review_Code/HW-FFS/ffs.py: a file system that allocates inodes    *)
(* and blocks in groups.  A command file is a series of creations and      *)
(* deletions; do_verify runs after each of them.  Commands that are        *)
(* refused change nothing and are not steps.                               *)
(***************************************************************************)
EXTENDS Integers, Sequences, FiniteSets, SequencesExt, FiniteSetsExt, Functions

CONSTANTS
    Disks,      \* option sets: [groups, blocks, inodes, large, contig, faraway,
                \*               spreadInodes, spreadData], sizes per group
    Paths,      \* the path names in the command file, <<>> for the root
    Sizes,      \* the file sizes in it, in blocks
    Symbols,    \* how many symbols files can be shown by (79 in the code)
    MaxInodes   \* no disk of Disks has more

ASSUME FfsAssumption ==
    /\ \A d \in Disks :
         /\ {d.groups, d.blocks, d.inodes, d.contig, d.faraway} \subseteq Nat \ {0}
         /\ d.large \in Nat /\ {d.spreadInodes, d.spreadData} \subseteq BOOLEAN
         /\ d.groups * d.inodes <= MaxInodes
    /\ Sizes \subseteq Nat /\ Symbols \in Nat \ {0} /\ MaxInodes \in Nat
    /\ Paths \subseteq Seq(UNION {Range(p) : p \in Paths})
    /\ <<>> \in Paths /\ \A p \in Paths \ {<<>>} : Front(p) \in Paths

VARIABLES
    disk,               \* the options
    data_bitmap,        \* the owner of each block of each group, or FREE
    inode_bitmap,       \* the same for inodes
    total_data_free, total_inodes_free,
    inodes,             \* inode_type and inode_blocks
    dir_data,           \* the entries of each directory, by inode number
    name_to_inode_map,  \* -1 for a path that is not in the mapping
    symbol_map,         \* the inode numbers that have a symbol
    available_symbols,  \* how many are left
    error,              \* what has ended the program
    strayed             \* history: do_delete has freed other places than the file's,
                        \* or do_create took an inode from a group without any

tables == <<data_bitmap, inode_bitmap, total_data_free, total_inodes_free, inodes,
            dir_data, name_to_inode_map, symbol_map, available_symbols>>
vars == <<disk, tables, error, strayed>>

FREE == -2
Groups == 0 .. disk.groups - 1
GroupOf(number) == number \div disk.inodes
Bound == {p \in Paths : name_to_inode_map[p] # -1}
Entry(name, number) == [name |-> name, inode |-> number]
\* A table with a new or another value under a number.
Put(table, number, value) ==
    [i \in DOMAIN table \cup {number} |-> IF i = number THEN value ELSE table[i]]

Init ==
    /\ disk \in Disks
    /\ data_bitmap = [g \in Groups |-> [i \in 0 .. disk.blocks - 1 |->
                        IF g = 0 /\ i = 0 THEN 0 ELSE FREE]]
    /\ inode_bitmap = [g \in Groups |-> [i \in 0 .. disk.inodes - 1 |->
                        IF g = 0 /\ i = 0 THEN 0 ELSE FREE]]
    /\ total_data_free = disk.blocks * disk.groups - 1
    /\ total_inodes_free = disk.inodes * disk.groups - 1
    /\ inodes = [i \in {0} |-> [type |-> "directory", blocks |-> {0}]]
    /\ dir_data = [i \in {0} |-> {}]
    /\ name_to_inode_map = [p \in Paths |-> IF p = <<>> THEN 0 ELSE -1]
    /\ symbol_map = {0} /\ available_symbols = Symbols - 1
    /\ error = "none" /\ strayed = FALSE

-----------------------------------------------------------------------------
get_free_count(bitmap) == Cardinality({i \in DOMAIN bitmap : bitmap[i] = FREE})

\* The first index of the greatest value: how the code searches with ">".
FirstMax(f) ==
    CHOOSE g \in DOMAIN f : \A h \in DOMAIN f : f[h] <= f[g] /\ (f[h] = f[g] => g <= h)

find_free_inodes_in_range(group, how_many) ==
    SumFunction([k \in 0 .. how_many - 1 |->
                    get_free_count(inode_bitmap[(group + k) % disk.groups])])

find_most_free_inodes_multiple(how_many) ==
    FirstMax([g \in {h \in Groups : h % how_many = 0} |->
                 find_free_inodes_in_range(g, how_many)])

\* The other groups, right and left of target_group in turn.
Near(target_group, i) ==
    IF i % 2 = 0 THEN (target_group + 1 + i \div 2) % disk.groups
                 ELSE (target_group - 1 - i \div 2) % disk.groups
find_free_inodes_near(target_group) ==
    LET found == {i \in 0 .. disk.groups - 2 :
                     get_free_count(inode_bitmap[Near(target_group, i)]) > 0}
    IN  IF found = {} THEN 1 ELSE Near(target_group, Min(found))

\* Mutation: the parent's group is taken even if it is full.
pick_group_Unchecked(parent, type) ==
    IF type = "directory" \/ disk.spreadInodes
    THEN find_most_free_inodes_multiple(disk.faraway)
    ELSE GroupOf(name_to_inode_map[parent])
pick_group(parent, type) ==
    LET target_group == GroupOf(name_to_inode_map[parent])
    IN  IF type = "directory" \/ disk.spreadInodes
        THEN find_most_free_inodes_multiple(disk.faraway)
        ELSE IF get_free_count(inode_bitmap[target_group]) > 0 THEN target_group
        ELSE find_free_inodes_near(target_group)

\* Mutation: the bitmap is not looked at.
find_free_inode_First(group) == 0
find_free_inode(group) ==
    LET free == {i \in DOMAIN inode_bitmap[group] : inode_bitmap[group][i] = FREE}
    IN  IF free = {} THEN -1 ELSE Min(free)

find_min_data_usage ==
    LET free == [g \in Groups |-> get_free_count(data_bitmap[g])]
    IN  IF free[FirstMax(free)] = 0 THEN -1 ELSE FirstMax(free)

\* The block at index can be taken if chunks_free blocks are free from there on
\* (or as many as are still needed).
range_free(bitmap, index, needed, chunks_free) ==
    LET index_end == index + Min({needed, chunks_free}) - 1
    IN  /\ index_end < disk.blocks
        /\ \A i \in index .. index_end : bitmap[i] = FREE

\* allocated_in_group for the next turn.
\* Mutation: it is not reset for the next group.
CountInGroup_Kept(count, moves_on) == count
CountInGroup(count, moves_on) == IF moves_on THEN 0 ELSE count

\* One turn of allocate_blocks' loop.  s.end is "done", "assert" (the block to
\* be taken is not free) or "no".
Turn(s, size, number) ==
    LET taken == range_free(s.bitmap[s.group], s.index, size - Cardinality(s.allocated), s.chunks_free)
        allocated == s.allocated \cup
                        (IF taken THEN {s.group * disk.blocks + s.index} ELSE {})
        in_group == s.in_group + (IF taken THEN 1 ELSE 0)
        moves_on == \/ s.index + 1 = disk.blocks
                    \/ disk.large > 0 /\ in_group = disk.large
        group == IF moves_on THEN (s.group + 1) % disk.groups ELSE s.group
    IN
    [s EXCEPT
        !.bitmap = IF taken THEN [@ EXCEPT ![s.group][s.index] = number] ELSE @,
        !.allocated = allocated,
        !.end = IF taken /\ s.bitmap[s.group][s.index] # FREE THEN "assert"
                ELSE IF Cardinality(allocated) = size THEN "done" ELSE "no",
        !.index = IF moves_on THEN 0 ELSE @ + 1,
        !.in_group = CountInGroup(in_group, moves_on),
        !.group = group,
        !.chunks_free = IF moves_on /\ group = s.target THEN 1 ELSE @]

\* Group -1 (find_min_data_usage without a free block) is the last one.
\* Bound: every way round the groups but the first takes a block.
MaxTurns(size) == (size + 1) * disk.groups * disk.blocks

allocate_blocks(target_group, size, number) ==
    LET turn[k \in 0 .. MaxTurns(size)] ==
            IF k = 0
            THEN [bitmap |-> data_bitmap, target |-> target_group, group |-> target_group % disk.groups,
                  index |-> 0, in_group |-> 0, chunks_free |-> disk.contig,
                  allocated |-> {}, end |-> "no"]
            ELSE LET s == turn[k - 1] IN IF s.end = "no" THEN Turn(s, size, number) ELSE s
    IN  turn[MaxTurns(size)]

-----------------------------------------------------------------------------
\* do_verify, whose assertions end the program: the counters fit the bitmaps,
\* and the blocks of every named file are marked with its number.
do_verify ==
    LET data_used == disk.groups * disk.blocks
                        - SumFunction([g \in Groups |-> get_free_count(data_bitmap[g])])
        inodes_used == disk.groups * disk.inodes
                        - SumFunction([g \in Groups |-> get_free_count(inode_bitmap[g])])
    IN
    /\ data_used + total_data_free = disk.groups * disk.blocks
    /\ inodes_used + total_inodes_free = disk.groups * disk.inodes
    /\ \A p \in Bound : \A b \in inodes[name_to_inode_map[p]].blocks :
          data_bitmap[b \div disk.blocks][b % disk.blocks] = name_to_inode_map[p]

Verified == error' = IF do_verify' THEN "none" ELSE "verify"

\* The program ends with an error.
Abort(why) == error' = why /\ UNCHANGED <<disk, tables>>

Named(directory, name) == \E e \in dir_data[directory] : e.name = name

\* do_create from the choice of the group on.
Allocate(path, size, type) ==
    LET parent == name_to_inode_map[Front(path)]
        group  == pick_group(Front(path), type)
        index  == find_free_inode(group)
        number == index + group * disk.inodes
        dest_block_group == IF disk.spreadData THEN find_min_data_usage ELSE group
        blocks == allocate_blocks(dest_block_group, size, number)
        entered == [dir_data EXCEPT ![parent] = @ \cup {Entry(Last(path), number)}]
    IN
    /\ strayed' = (strayed \/ index = -1)
    /\ IF blocks.end # "done" THEN Abort(IF size = 0 THEN "empty file" ELSE "allocate")
       ELSE IF path \in Bound THEN Abort("internal")
       ELSE IF available_symbols = 0 THEN Abort("symbols")
       ELSE
       /\ inode_bitmap' = [inode_bitmap EXCEPT ![group][index % disk.inodes] = number]
       /\ data_bitmap' = blocks.bitmap
       /\ inodes' = Put(inodes, number, [type |-> type, blocks |-> blocks.allocated])
       /\ dir_data' = IF type = "directory" THEN Put(entered, number, {}) ELSE entered
       /\ name_to_inode_map' = [name_to_inode_map EXCEPT ![path] = number]
       /\ symbol_map' = symbol_map \cup {number}
       /\ available_symbols' = available_symbols - 1
       /\ total_inodes_free' = total_inodes_free - 1
       /\ total_data_free' = total_data_free - size
       /\ UNCHANGED disk /\ Verified

do_create(path, size, type) ==
    LET parent == name_to_inode_map[Front(path)] IN
    /\ total_inodes_free # 0 /\ total_data_free >= size
    /\ parent # -1
    /\ IF parent \notin DOMAIN dir_data THEN Abort("parent is a file") /\ UNCHANGED strayed
       ELSE ~Named(parent, Last(path)) /\ Allocate(path, size, type)

create(path, size) == error = "none" /\ do_create(path, size, "regular")
mkdir(path) == error = "none" /\ do_create(path, 1, "directory")

\* The places whose bits a file has, as <<group, index>>.
Places(numbers, group_size) == {<<k \div group_size, k % group_size>> : k \in numbers}
\* The places whose bits do_delete resets: both sizes are taken for the number
\* of groups.
Deleted(numbers) == Places(numbers, disk.groups)
Cleared(bitmap, places) ==
    [g \in DOMAIN bitmap |-> [i \in DOMAIN bitmap[g] |->
        IF <<g, i>> \in places THEN FREE ELSE bitmap[g][i]]]
OnDisk(places, group_size) == \A p \in places : p[1] < disk.groups /\ p[2] < group_size

\* Mutation: the inode keeps its bit.
FreedInodes_Kept(number) == {}
FreedInodes(number) == Deleted({number})
FreedBlocks(number) == Deleted(inodes[number].blocks)

do_delete(path) ==
    LET parent == name_to_inode_map[Front(path)]
        entry  == CHOOSE e \in dir_data[parent] : e.name = Last(path)
        number == entry.inode
    IN
    /\ parent # -1
    /\ IF parent \notin DOMAIN dir_data THEN Abort("parent is a file") /\ UNCHANGED strayed
       ELSE
       /\ Named(parent, Last(path))
       /\ inodes[number].type # "directory"
       /\ strayed' = \/ strayed
                     \/ Deleted({number}) # Places({number}, disk.inodes)
                     \/ FreedBlocks(number) # Places(inodes[number].blocks, disk.blocks)
       /\ IF \/ ~OnDisk(FreedBlocks(number), disk.blocks)
             \/ ~OnDisk(FreedInodes(number), disk.inodes)
             \/ number \notin symbol_map \/ path \notin Bound
          THEN Abort("lookup")
          ELSE
          /\ dir_data' = [dir_data EXCEPT ![parent] = @ \ {entry}]
          /\ data_bitmap' = Cleared(data_bitmap, FreedBlocks(number))
          /\ inode_bitmap' = Cleared(inode_bitmap, FreedInodes(number))
          /\ symbol_map' = symbol_map \ {number}
          /\ available_symbols' = available_symbols + 1
          /\ name_to_inode_map' = [name_to_inode_map EXCEPT ![path] = -1]
          /\ total_inodes_free' = total_inodes_free + 1
          /\ total_data_free' = total_data_free + Cardinality(inodes[number].blocks)
          /\ inodes' = [inodes EXCEPT ![number] = [type |-> "", blocks |-> {}]]
          /\ UNCHANGED disk /\ Verified

delete(path) == error = "none" /\ do_delete(path)

Next ==
    \E path \in Paths \ {<<>>} :
        \/ \E size \in Sizes : create(path, size)
        \/ mkdir(path)
        \/ delete(path)

Spec == Init /\ [][Next]_vars

-----------------------------------------------------------------------------
\* get_spans: where a file's inode and its blocks lie on the disk, where each
\* group's inodes come before its blocks.
group_size == disk.inodes + disk.blocks
inode_address(number) == (number % disk.inodes) + GroupOf(number) * group_size
data_address(b) == (b % disk.blocks) + (b \div disk.blocks) * group_size + disk.inodes
Addresses(number) ==
    {inode_address(number)} \cup {data_address(b) : b \in inodes[number].blocks}
\* The filespan of do_all_spans.
file_span(number) == Max(Addresses(number)) - Min(Addresses(number))

Regular == {p \in Bound : inodes[name_to_inode_map[p]].type = "regular"}

\* do_all_spans meets no file twice and finds the span of every file entered in
\* a directory.
SpansAreFound ==
    /\ \A p, q \in Regular : p # q => name_to_inode_map[p] # name_to_inode_map[q]
    /\ \A p \in Bound \ Regular : \A e \in dir_data[name_to_inode_map[p]] :
          \/ inodes[e.inode].type = "directory"
          \/ \E q \in Regular : name_to_inode_map[q] = e.inode
\* dump finds a symbol for every place that is in use (list_to_string) and for
\* every name.
SymbolsAreFound ==
    /\ \A g \in Groups :
          {data_bitmap[g][i] : i \in DOMAIN data_bitmap[g]}
              \cup {inode_bitmap[g][i] : i \in DOMAIN inode_bitmap[g]}
                  \subseteq symbol_map \cup {FREE}
    /\ {name_to_inode_map[p] : p \in Bound} \subseteq symbol_map

-----------------------------------------------------------------------------
\* The tables that do_create and do_delete change one after another agree: the
\* inode bitmap, the block bitmap, the counters and the symbols say the same as
\* the names, and the reports that dump and -T print can be made.  do_verify
\* compares the counters and the blocks only.
BooksBalance ==
    ~strayed =>
    LET Live == {name_to_inode_map[p] : p \in Bound}
        Owned == UNION {inodes[i].blocks : i \in Live}
    IN
    /\ Cardinality(Live) = Cardinality(Bound)
    /\ \A g \in Groups, i \in 0 .. disk.inodes - 1 :
          LET number == g * disk.inodes + i IN
          inode_bitmap[g][i] = IF number \in Live THEN number ELSE FREE
    /\ \A i \in Live, b \in Owned :
          b \in inodes[i].blocks <=> data_bitmap[b \div disk.blocks][b % disk.blocks] = i
    /\ total_inodes_free = disk.groups * disk.inodes - Cardinality(Live)
    /\ total_data_free = disk.groups * disk.blocks - Cardinality(Owned)
    /\ symbol_map = Live /\ available_symbols = Symbols - Cardinality(Live)
    /\ SpansAreFound /\ SymbolsAreFound

\* What ends the program: a command whose parent is a file, an empty file (the
\* loop of allocate_blocks looks for the moment when 0 blocks are taken after it
\* took one), more files than symbols, and do_delete or pick_group gone astray.
\* No internal check fails otherwise; with as many blocks and inodes in a group
\* as there are groups, and -A 1, none fails at all.
ErrorsAreExplained ==
    /\ error \in {"verify", "lookup", "internal", "allocate"} => strayed
    /\ error = "symbols" /\ ~strayed => Cardinality(Bound) = Symbols
    /\ strayed => \/ disk.faraway > 1
                  \/ disk.groups # disk.blocks \/ disk.groups # disk.inodes

\* As long as nothing has gone astray, every command does to the names what the
\* abstract name space does.
N == INSTANCE Namespace WITH
        Files <- 0 .. MaxInodes - 1, Root <- 0, Unbound <- -1,
        tree <- name_to_inode_map,
        dirs <- {i \in DOMAIN inodes : inodes[i].type = "directory"},
        written <- {}
ImplementsNamespace == N!NInit /\ [][strayed' \/ N!NNext]_<<N!nvars, strayed>>

BlocksIn(group, numbers) == {b \in numbers : b \div disk.blocks = group}
BlocksOf(path) == inodes[name_to_inode_map[path]].blocks
\* A new file is kept together if it may and the group of its inode has room: it
\* then spans less than a group.
KeptTogether(path) ==
    LET room == get_free_count(data_bitmap[GroupOf(name_to_inode_map'[path])]) IN
    /\ ~disk.spreadData /\ disk.contig = 1 /\ room >= Cardinality(BlocksOf(path)')
    /\ disk.large = 0 \/ Cardinality(BlocksOf(path)') <= disk.large
    => file_span(name_to_inode_map[path])' < group_size
\* With the large-file exception a group gets blocks of a file beyond k times
\* the limit only when every other group has k times the limit or is full.
SpreadOut(path) ==
    \A g, h \in Groups, k \in 1 .. disk.blocks :
        /\ disk.contig = 1 /\ disk.large > 0
        /\ Cardinality(BlocksIn(g, BlocksOf(path))) > k * disk.large
        => \/ Cardinality(BlocksIn(h, BlocksOf(path))) >= k * disk.large
           \/ get_free_count(data_bitmap[h]) = 0
\* Where a new file's blocks are put.
FilesArePlaced ==
    [][\A p \in Paths : p \in Bound' \ Bound /\ ~strayed' =>
          KeptTogether(p) /\ SpreadOut(p)']_vars
=============================================================================
