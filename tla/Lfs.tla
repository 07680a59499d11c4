-------------------------------- MODULE Lfs --------------------------------
(***************************************************************************)
(* Final_Review_Code/HW-LFS/lfs.py: a log-structured file system.  Every   *)
(* update appends new versions of the blocks it changes; the checkpoint    *)
(* region, block 0, is the only block that is ever overwritten.  It leads  *)
(* to the chunks of the inode map, these to inodes, these to data and      *)
(* directory blocks.  A copy of the inode map and of the checkpoint region *)
(* is kept in memory.                                                      *)
(*                                                                         *)
(* A path is the sequence of its components; the contents of data blocks   *)
(* are left out.  A command that only reports an error changes nothing.    *)
(***************************************************************************)
EXTENDS Integers, Sequences, FiniteSets

CONSTANTS
    Names,                      \* names of files; "-" is not one of them
    NUM_IMAP_PTRS_IN_CR,
    NUM_INODES_PER_IMAP_CHUNK,
    NUM_INODE_PTRS,
    DirSlots,                   \* entries in a directory block (8 in the code)
    Modes,                      \* [use_disk_cr, no_force_checkpoints, inode_policy]
    MaxDepth,                   \* bound: components of a path
    MaxLog                      \* bound: no command starts on a longer log

ASSUME LfsAssumption ==
    /\ Names \cap {"-", ".", ".."} = {}
    /\ MaxDepth \in Nat
    /\ NUM_IMAP_PTRS_IN_CR \in Nat \ {0}
    /\ NUM_INODES_PER_IMAP_CHUNK \in Nat \ {0}
    /\ NUM_INODE_PTRS \in Nat \ {0}
    /\ DirSlots \in Nat /\ DirSlots >= 2
    /\ Modes \subseteq [use_disk_cr : BOOLEAN, no_force_checkpoints : BOOLEAN,
                        inode_policy : {"sequential", "random"}]

VARIABLES
    mode,        \* the options
    disk,        \* the log; block address a is disk[a + 1]
    cr,          \* self.cr, by chunk number
    inode_map,   \* self.inode_map
    failed       \* the assertion or exception that ended the program, or ""

vars == <<mode, disk, cr, inode_map, failed>>

ROOT_INODE == 0
NUM_INODES == NUM_IMAP_PTRS_IN_CR * NUM_INODES_PER_IMAP_CHUNK
Inums      == 0 .. NUM_INODES - 1
Chunks     == 0 .. NUM_IMAP_PTRS_IN_CR - 1
PtrIndex   == 0 .. NUM_INODE_PTRS - 1
Slots      == 0 .. DirSlots - 1
Paths      == UNION {[1 .. n -> Names] : n \in 0 .. MaxDepth}

LastName(path) == path[Len(path)]
Front(path)    == SubSeq(path, 1, Len(path) - 1)

-----------------------------------------------------------------------------
\* The blocks.
FreeSlot == <<"-", -1>>

CrBlock(map)        == [block_type |-> "cp", map |-> map]
DataBlock           == [block_type |-> "data"]
EmptyDirBlock       == [block_type |-> "dir", entries |-> [s \in Slots |-> FreeSlot]]
SetSlot(block, slot, entry) ==
    [block_type |-> "dir", entries |-> [block.entries EXCEPT ![slot] = entry]]
NewDirBlock(parent, current) ==
    SetSlot(SetSlot(EmptyDirBlock, 0, <<".", current>>), 1, <<"..", parent>>)
InodeBlock(type, size, refs, pointers) ==
    [block_type |-> "inode", type |-> type, size |-> size, refs |-> refs, pointers |-> pointers]
NewInode(type, size, refs) ==
    InodeBlock(type, size, refs, [k \in PtrIndex |-> -1])
NewDirInode(address) ==
    InodeBlock("dir", 1, 2, [k \in PtrIndex |-> IF k = 0 THEN address ELSE -1])
inum_to_chunk(inum) == inum \div NUM_INODES_PER_IMAP_CHUNK
ImapChunk(map, c) ==
    [block_type |-> "imap",
     map |-> [k \in 0 .. NUM_INODES_PER_IMAP_CHUNK - 1 |->
                map[c * NUM_INODES_PER_IMAP_CHUNK + k]]]

\* disk[address]; in Python address -1 is the last block.
At(address) == IF address = -1 THEN disk[Len(disk)] ELSE disk[address + 1]

RootInode == NewDirInode(1)

Init ==
    /\ mode \in Modes
    /\ cr = [c \in Chunks |-> IF c = 0 THEN 3 ELSE -1]
    /\ inode_map = [i \in Inums |-> IF i = ROOT_INODE THEN 2 ELSE -1]
    /\ disk = <<CrBlock(cr), NewDirBlock(ROOT_INODE, ROOT_INODE), RootInode,
                ImapChunk(inode_map, 0)>>
    /\ failed = ""

-----------------------------------------------------------------------------
\* get_inode_from_inumber: through the checkpoint region on disk, or through
\* the inode map in memory.
AddrOnDisk(inum) ==
    LET chunk == At(At(0).map[inum_to_chunk(inum)])
    IN  chunk.map[inum % NUM_INODES_PER_IMAP_CHUNK]
InodeAddr(inum) == IF mode.use_disk_cr THEN AddrOnDisk(inum) ELSE inode_map[inum]
Inode(inum) == At(InodeAddr(inum))

\* The addresses an inode points to, and a directory's entries behind them.
PointedBy(inode) == {inode.pointers[k] : k \in PtrIndex} \ {-1}
EntriesIn(inode) ==
    (UNION {{At(a).entries[s] : s \in Slots} : a \in PointedBy(inode)}) \ {FreeSlot}

\* __lookup and the loop of __walk_path: the inode number a path leads to, -1
\* if a name is missing, or what an assertion on the way found wrong.  The
\* test for a component that is not a directory comes after the assertion in
\* __lookup, and looks at the directory the component was found in.
NotMapped == -2      \* assert(inode_address != -1)
NotDir    == -3      \* assert(parent_inode['type'] == INODE_DIRECTORY)
Walk[path \in Paths] ==
    IF path = <<>> THEN ROOT_INODE
    ELSE LET up == Walk[Front(path)]
         IN IF up < 0 THEN up
            ELSE IF InodeAddr(up) = -1 THEN NotMapped
            ELSE IF Inode(up).type # "dir" THEN NotDir
            ELSE LET found == {e \in EntriesIn(Inode(up)) : e[1] = LastName(path)}
                 IN IF found = {} THEN -1 ELSE (CHOOSE e \in found : TRUE)[2]

\* What stops a command that reads the inode behind a path: nothing ("").
WalkFailure(path) ==
    IF Walk[path] = NotMapped \/ (Walk[path] >= 0 /\ InodeAddr(Walk[path]) = -1)
    THEN "inode_address != -1"
    ELSE IF Walk[path] = NotDir THEN "parent_inode['type'] == INODE_DIRECTORY"
    ELSE ""

IsRegular(path) == Walk[path] >= 0 /\ Inode(Walk[path]).type = "reg"

\* __find_matching_dir_slot('-', inode) and __add_dir_entry: the index to
\* update, the directory's size and the new block; {} when it is full.
FreeSlots(inode) ==
    {x \in (0 .. inode.size - 1) \X Slots : At(inode.pointers[x[1]]).entries[x[2]] = FreeSlot}
AddDirEntry(inode, name, inum) ==
    IF FreeSlots(inode) # {}
    THEN LET first == CHOOSE x \in FreeSlots(inode) : \A y \in FreeSlots(inode) :
                        x[1] < y[1] \/ (x[1] = y[1] /\ x[2] <= y[2])
         IN  {[index |-> first[1], size |-> inode.size,
               block |-> SetSlot(At(inode.pointers[first[1]]), first[2], <<name, inum>>)]}
    ELSE IF inode.size # NUM_INODE_PTRS
    THEN {[index |-> inode.size, size |-> inode.size + 1,
           block |-> SetSlot(EmptyDirBlock, 0, <<name, inum>>)]}
    ELSE {}

\* Mutation: the address is asked for after the block was logged.
WithEntry_NextAddress(inode, new, address) ==
    InodeBlock(inode.type, new.size, inode.refs, [inode.pointers EXCEPT ![new.index] = address + 1])

\* The parent's next inode, with the new directory block at the given address.
WithEntry(inode, new, address) ==
    InodeBlock(inode.type, new.size, inode.refs, [inode.pointers EXCEPT ![new.index] = address])

-----------------------------------------------------------------------------
\* Mutation: only the first of the chunks is written.
ChunksOf_First(inums) == <<inum_to_chunk(inums[1])>>

\* The chunks update_imap writes for one or two inodes.
ChunksOf(inums) ==
    IF \A k \in DOMAIN inums : inum_to_chunk(inums[k]) = inum_to_chunk(inums[1])
    THEN <<inum_to_chunk(inums[1])>>
    ELSE <<inum_to_chunk(inums[1]), inum_to_chunk(inums[2])>>

\* The end of every update: the blocks are in the log, the inode map is
\* changed, its chunks follow (update_imap), and the checkpoint region is
\* overwritten unless that is put off (cr_sync).
Commit(blocks, map, inums) ==
    LET chunks == ChunksOf(inums)
        logged == disk \o blocks
        all    == logged \o [k \in DOMAIN chunks |-> ImapChunk(map, chunks[k])]
    IN
    /\ inode_map' = map
    /\ cr' = [c \in Chunks |-> IF \E k \in DOMAIN chunks : chunks[k] = c
                               THEN Len(logged) + (CHOOSE k \in DOMAIN chunks : chunks[k] = c) - 1
                               ELSE cr[c]]
    /\ disk' = IF mode.no_force_checkpoints THEN all ELSE [all EXCEPT ![1] = CrBlock(cr')]
    /\ UNCHANGED <<mode, failed>>

\* A command of the command list.
Command == failed = "" /\ Len(disk) <= MaxLog

Fails(what) == failed' = what /\ UNCHANGED <<mode, disk, cr, inode_map>>

\* allocate_inode: the inode numbers it may return.
FreeInodes == {i \in Inums : inode_map[i] = -1}
allocate_inode ==
    IF mode.inode_policy = "random" THEN FreeInodes
    ELSE {i \in FreeInodes : \A j \in FreeInodes : i <= j}

\* An inode that one more entry leads to.
Referenced(inode) == [inode EXCEPT !.refs = @ + 1]

-----------------------------------------------------------------------------
\* __file_create where nothing is in the way, for a file and for a directory.
\* The new inode refers to itself, and a new directory to its parent.
CreateIn(parent, name, type, inum) ==
    \E new \in AddDirEntry(Inode(parent), name, inum) :
        LET n     == Len(disk)
            up    == WithEntry(Inode(parent), new, n)
            isDir == type = "dir"
            map(upAddr) == [inode_map EXCEPT ![parent] = upAddr, ![inum] = upAddr + 1]
        IN
        IF isDir
        THEN Commit(<<new.block, NewDirBlock(parent, inum), Referenced(up), NewDirInode(n + 1)>>,
                    map(n + 2), <<parent, inum>>)
        ELSE Commit(<<new.block, up, NewInode("reg", 0, 1)>>, map(n + 1), <<parent, inum>>)

file_create(path, type) ==
    /\ Command
    /\ LET parent == Walk[Front(path)] IN
       IF Walk[path] < -1 THEN Fails(WalkFailure(path))
       ELSE /\ Walk[path] = -1
            /\ parent # -1
            /\ \E inum \in allocate_inode : CreateIn(parent, LastName(path), type, inum)

\* file_link.  A missing directory on the way to the new name is not noticed:
\* the program ends with a TypeError.  Only the parent's chunk of the inode
\* map is written, although the source's inode has moved too.
file_link(src, dst) ==
    /\ Command
    /\ LET inum   == Walk[src]
           parent == Walk[Front(dst)]
           n      == Len(disk)
       IN
       IF WalkFailure(src) # "" THEN Fails(WalkFailure(src))
       ELSE /\ IsRegular(src)
            /\ IF Walk[dst] < -1 THEN Fails(WalkFailure(dst))
               ELSE /\ Walk[dst] = -1
                    /\ IF parent = -1 THEN Fails("TypeError")
                       ELSE \E new \in AddDirEntry(Inode(parent), LastName(dst), inum) :
                            Commit(<<new.block, WithEntry(Inode(parent), new, n),
                                     Referenced(Inode(inum))>>,
                                   [inode_map EXCEPT ![parent] = n + 1, ![inum] = n + 2],
                                   <<parent>>)

Lesser(m, n) == IF m < n THEN m ELSE n

\* file_write: as many blocks as fit into the inode; the size becomes the end
\* of this write, whatever it was.
file_write(path, offset, num_blks) ==
    /\ Command
    /\ LET inum == Walk[path]
           last == Lesser(NUM_INODE_PTRS, offset + num_blks)
           n    == Len(disk)
       IN
       IF WalkFailure(path) # "" THEN Fails(WalkFailure(path))
       ELSE /\ IsRegular(path)
            /\ offset \in PtrIndex
            /\ Commit([k \in 1 .. last - offset |-> DataBlock]
                        \o <<InodeBlock("reg", last, Inode(inum).refs,
                                [k \in PtrIndex |->
                                    IF k \in offset .. last - 1 THEN n + k - offset
                                    ELSE Inode(inum).pointers[k]])>>,
                      [inode_map EXCEPT ![inum] = n + last - offset],
                      <<inum>>)

\* Mutation: the count is not lowered when other names are left.
Unreferenced_KeepsCount(inode) == inode

\* What file_delete logs for an inode that other names refer to.
Unreferenced(inode) == [inode EXCEPT !.refs = @ - 1]

\* Mutation: a file that has a second name is freed, too.
LastRef_OffByOne(inode) == inode.refs <= 2

LastRef(inode) == inode.refs = 1

\* file_delete.
file_delete(path) ==
    /\ Command
    /\ LET inum   == Walk[path]
           parent == Walk[Front(path)]
           up     == Inode(parent)
           n      == Len(disk)
       IN
       IF WalkFailure(path) # "" THEN Fails(WalkFailure(path))
       ELSE /\ IsRegular(path)
            /\ IF LastRef(Inode(inum)) /\ inode_map[inum] = -1
               THEN Fails("self.inode_map[inum] != -1")
               ELSE \E k \in PtrIndex, s \in Slots :
                /\ k < up.size
                /\ At(up.pointers[k]).entries[s][1] = LastName(path)
                /\ LET block == SetSlot(At(up.pointers[k]), s, FreeSlot)
                       moved == [up EXCEPT !.pointers[k] = n]
                   IN
                   IF LastRef(Inode(inum))
                   THEN Commit(<<block, moved>>,
                               [inode_map EXCEPT ![inum] = -1, ![parent] = n + 1],
                               <<inum, parent>>)
                   ELSE Commit(<<block, moved, Unreferenced(Inode(inum))>>,
                               [inode_map EXCEPT ![parent] = n + 1, ![inum] = n + 2],
                               <<inum, parent>>)

sync ==
    /\ Command
    /\ disk' = [disk EXCEPT ![1] = CrBlock(cr)]
    /\ UNCHANGED <<mode, cr, inode_map, failed>>

NamedPaths == Paths \ {<<>>}

Next ==
    \/ \E path \in NamedPaths, type \in {"reg", "dir"} : file_create(path, type)
    \/ \E src, dst \in NamedPaths : file_link(src, dst)
    \/ \E path \in NamedPaths, offset \in PtrIndex, num_blks \in 0 .. NUM_INODE_PTRS :
            file_write(path, offset, num_blks)
    \/ \E path \in NamedPaths : file_delete(path)
    \/ sync

Spec == Init /\ [][Next]_vars

-----------------------------------------------------------------------------
Addresses == 0 .. Len(disk) - 1

InodeBlocks ==
    [block_type : {"inode"}, type : {"dir", "reg"}, size : 0 .. NUM_INODE_PTRS, refs : Nat \ {0},
     pointers : [PtrIndex -> Addresses \cup {-1}]]

\* Type invariant.  It includes what get_inode_from_inumber and __lookup
\* assert of the kinds of the blocks they meet: the maps lead to chunks and
\* inodes, the inodes of directories to directory blocks.
TypeOK ==
    /\ mode \in Modes
    /\ cr \in [Chunks -> Addresses \cup {-1}]
    /\ \A c \in Chunks : cr[c] # -1 => At(cr[c]).block_type = "imap"
    /\ \A i \in Inums : inode_map[i] # -1 =>
        /\ inode_map[i] \in Addresses
        /\ At(inode_map[i]) \in InodeBlocks
        /\ \A a \in PointedBy(At(inode_map[i])) :
            At(a).block_type = (IF At(inode_map[i]).type = "dir" THEN "dir" ELSE "data")
    /\ disk[1].block_type = "cp"

MappedInodes == {i \in Inums : inode_map[i] # -1}
InMemory(i)  == At(inode_map[i])
Directories  == {i \in MappedInodes : InMemory(i).type = "dir"}
EntriesOf(inum) ==
    {e \in Directories \X (Names \cup {".", ".."}) :
        <<e[2], inum>> \in EntriesIn(InMemory(e[1]))}

\* The reference count of every inode is the number of directory entries that
\* lead to it, "." and ".." included, after any sequence of commands: with a
\* count too low the last but one unlink would free the file.
LinkCountsMatchEntries ==
    \A i \in MappedInodes : InMemory(i).refs = Cardinality(EntriesOf(i))

\* Whenever the checkpoint region on disk is up to date, what it leads to is
\* the file system in memory: the same inode numbers with the same kind, size
\* and blocks.  (The count of references is left out: file_link does not write
\* the chunk in which the source's inode has moved.)
CheckpointIsCurrent ==
    disk[1].map = cr =>
        \A i \in Inums :
            IF cr[inum_to_chunk(i)] = -1 THEN inode_map[i] = -1
            ELSE IF inode_map[i] = -1 THEN AddrOnDisk(i) = -1
            ELSE /\ AddrOnDisk(i) # -1
                 /\ At(AddrOnDisk(i)) = [InMemory(i) EXCEPT !.refs = At(AddrOnDisk(i)).refs]

-----------------------------------------------------------------------------
N == INSTANCE Namespace WITH
        Files <- Inums,
        Root <- ROOT_INODE,
        Unbound <- -1,
        tree <- [path \in Paths |-> IF Walk[path] < 0 THEN -1 ELSE Walk[path]],
        dirs <- Directories,
        written <- {i \in MappedInodes : InMemory(i).type = "reg" /\ PointedBy(InMemory(i)) # {}}

\* With the inode map in memory the log keeps the promise of module Namespace:
\* every command's log blocks together are one step of it, and a freed inode
\* number that is used again has no name left.
ImplementsNamespace == N!NSpec

\* assert(inode_address != -1) in get_inode_from_inumber never fails: a name
\* that is found in a directory leads to an inode.
NamesLeadToInodes == failed # "inode_address != -1"
=============================================================================
