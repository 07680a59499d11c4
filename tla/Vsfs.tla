-------------------------------- MODULE Vsfs --------------------------------
(***************************************************************************)
(* Final_Review_Code/HW-VSFS/vsfs.py: the "very simple file system", its   *)
(* two bitmaps, inode table and data blocks, and the workload generator    *)
(* that drives it and remembers, outside the file system, which names      *)
(* exist (files, dirs, nameToInum).                                        *)
(*                                                                         *)
(* A directory block is the set of its (name, inum) entries: only dump()   *)
(* looks at their order.  A path is the sequence of its components.  The   *)
(* byte a block of a regular file holds is left out.  numRequests is left  *)
(* out too: a run of n requests is a prefix of a longer one.               *)
(***************************************************************************)
EXTENDS Integers, Sequences, FiniteSets

CONSTANTS
    Names,          \* what makeName can draw
    Geometries,     \* the pairs of values of options -i and -d
    MaxUsed,        \* entries in a directory block (32 in the code)
    MaxDepth        \* bound: components of a path

ASSUME VsfsAssumption ==
    /\ Geometries \subseteq (Nat \ {0}) \X (Nat \ {0})
    /\ MaxUsed \in Nat /\ MaxUsed >= 2
    /\ MaxDepth \in Nat \ {0}
    /\ Names \cap {".", ".."} = {}

VARIABLES
    numInodes, numData,   \* the geometry
    ibitmap, dbitmap,     \* [used |-> numbers marked, numAllocated |-> count]
    inodes,               \* [ftype, addr, refCnt] per inode number
    data,                 \* [ftype, dirList, dirUsed] per block number
    files, dirs,          \* the generator's lists of path names
    nameToInum,           \* the generator's dictionary; -1: no such key
    running               \* FALSE after exit(1)

disk == <<ibitmap, dbitmap, inodes, data>>
vars == <<numInodes, numData, ibitmap, dbitmap, inodes, data,
          files, dirs, nameToInum, running>>

ROOT == 0
Inums  == 0 .. numInodes - 1
Blocks == 0 .. numData - 1
Paths  == UNION {[1 .. n -> Names] : n \in 0 .. MaxDepth}
Dots   == {".", ".."}

LastName(path)   == path[Len(path)]
getParent(path)  == SubSeq(path, 1, Len(path) - 1)

-----------------------------------------------------------------------------
\* class bitmap.  alloc returns the lowest free number, or -1.
FreeNumbers(bitmap, size) == (0 .. size - 1) \ bitmap.used
alloc(bitmap, size) ==
    IF FreeNumbers(bitmap, size) = {} THEN -1
    ELSE CHOOSE n \in FreeNumbers(bitmap, size) :
            \A m \in FreeNumbers(bitmap, size) : n <= m
Marked(bitmap, n) ==
    [used |-> bitmap.used \cup {n}, numAllocated |-> bitmap.numAllocated + 1]
Cleared(bitmap, n) ==
    [used |-> bitmap.used \ {n}, numAllocated |-> bitmap.numAllocated - 1]
numFree(bitmap, size) == size - bitmap.numAllocated

\* class block.
FreeBlock == [ftype |-> "free", dirList |-> {}, dirUsed |-> 0]
FileBlock == [FreeBlock EXCEPT !.ftype = "f"]
DirBlock(self, parent) ==
    [ftype |-> "d", dirList |-> {<<".", self>>, <<"..", parent>>}, dirUsed |-> 2]
addDirEntry(block, name, inum) ==
    [ftype |-> block.ftype, dirList |-> block.dirList \cup {<<name, inum>>},
     dirUsed |-> block.dirUsed + 1]
delDirEntry(block, name) ==
    [ftype |-> block.ftype, dirList |-> {e \in block.dirList : e[1] # name},
     dirUsed |-> block.dirUsed - 1]
dirEntryExists(block, name) == \E e \in block.dirList : e[1] = name
getFreeEntries(block) == MaxUsed - block.dirUsed

\* class inode; free() leaves the reference count as it was.
NewInode == [ftype |-> "free", addr |-> -1, refCnt |-> 1]
decRefCnt(node)  == [node EXCEPT !.refCnt = @ - 1]
FreedInode(node) == [ftype |-> "free", addr |-> -1, refCnt |-> node.refCnt]

\* The block of the directory with this path.
DirAddr(path) == inodes[nameToInum[path]].addr

-----------------------------------------------------------------------------
Init ==
    /\ \E g \in Geometries : numInodes = g[1] /\ numData = g[2]
    /\ ibitmap = [used |-> {ROOT}, numAllocated |-> 1]
    /\ dbitmap = [used |-> {0}, numAllocated |-> 1]
    /\ inodes = [i \in Inums |-> IF i = ROOT THEN [ftype |-> "d", addr |-> 0, refCnt |-> 2]
                                 ELSE NewInode]
    /\ data = [b \in Blocks |-> IF b = 0 THEN DirBlock(ROOT, ROOT) ELSE FreeBlock]
    /\ files = {}
    /\ dirs = {<<>>}
    /\ nameToInum = [p \in Paths |-> IF p = <<>> THEN ROOT ELSE -1]
    /\ running = TRUE

\* After every attempt, whether it succeeded or not, run() gives up if a
\* bitmap is full.
StopsWhenFull ==
    running' = /\ numFree(ibitmap', numInodes) # 0
               /\ numFree(dbitmap', numData) # 0

\* run()'s loop around one attempt.
Attempt == running /\ UNCHANGED <<numInodes, numData>>

Fails == UNCHANGED <<disk, files, dirs, nameToInum>>

\* Mutation: the check for a unique name is forgotten.
HasRoomFor_AnyName(parent, name) == getFreeEntries(data[DirAddr(parent)]) > 0

\* What createLink and createFile both ask of the parent directory.
HasRoomFor(parent, name) ==
    /\ getFreeEntries(data[DirAddr(parent)]) > 0
    /\ ~dirEntryExists(data[DirAddr(parent)], name)

-----------------------------------------------------------------------------
\* Mutation: the last but one name takes the file with it.
LastReference_OffByOne(inum) == inodes[inum].refCnt <= 2

\* deleteFile: is this the name that goes last?
LastReference(inum) == inodes[inum].refCnt = 1

\* deleteFile.  files never holds a directory, so the branch that lowers the
\* parent's count is dead.
deleteFile(path) ==
    LET inum   == nameToInum[path]
        addr   == inodes[inum].addr
        pblock == DirAddr(getParent(path))
        last   == LastReference(inum)
        entryGone == [data EXCEPT ![pblock] = delDirEntry(@, LastName(path))]
    IN
    /\ inodes' = [inodes EXCEPT ![inum] =
                    IF last THEN FreedInode(@) ELSE decRefCnt(@)]
    /\ ibitmap' = IF last THEN Cleared(ibitmap, inum) ELSE ibitmap
    /\ dbitmap' = IF last /\ addr # -1 THEN Cleared(dbitmap, addr) ELSE dbitmap
    /\ data' = IF last /\ addr # -1 THEN [entryGone EXCEPT ![addr] = FreeBlock]
               ELSE entryGone
    /\ files' = files \ {path}
    /\ UNCHANGED <<dirs, nameToInum>>

doDelete ==
    /\ Attempt
    /\ IF files = {} THEN Fails ELSE \E path \in files : deleteFile(path)
    /\ StopsWhenFull

\* Mutation: the new name does not count as a reference.
createLink_NotCounted(target, parent, name) ==
    LET tinum == nameToInum[target]
        path  == Append(parent, name)
    IN
    /\ data' = [data EXCEPT ![DirAddr(parent)] = addDirEntry(@, name, tinum)]
    /\ files' = files \cup {path}
    /\ nameToInum' = [nameToInum EXCEPT ![path] = tinum]
    /\ UNCHANGED <<ibitmap, dbitmap, inodes, dirs>>

\* createLink and doLink where they succeed.
createLink(target, parent, name) ==
    LET tinum == nameToInum[target]
        path  == Append(parent, name)
    IN
    /\ inodes' = [inodes EXCEPT ![tinum].refCnt = @ + 1]
    /\ data' = [data EXCEPT ![DirAddr(parent)] = addDirEntry(@, name, tinum)]
    /\ files' = files \cup {path}
    /\ nameToInum' = [nameToInum EXCEPT ![path] = tinum]
    /\ UNCHANGED <<ibitmap, dbitmap, dirs>>

\* The directories the bound on paths leaves for new entries.
Parents == {d \in dirs : Len(d) < MaxDepth}

doLink ==
    /\ Attempt
    /\ IF files = {} THEN Fails
       ELSE \E target \in files, parent \in Parents, name \in Names :
            IF HasRoomFor(parent, name) THEN createLink(target, parent, name)
            ELSE Fails
    /\ StopsWhenFull

-----------------------------------------------------------------------------
\* createFile for a regular file, which starts without a block.
createRegular(parent, name, inum) ==
    LET path == Append(parent, name) IN
    /\ ibitmap' = Marked(ibitmap, inum)
    /\ inodes' = [inodes EXCEPT ![inum] = [ftype |-> "f", addr |-> -1, refCnt |-> 1]]
    /\ data' = [data EXCEPT ![DirAddr(parent)] = addDirEntry(@, name, inum)]
    /\ files' = files \cup {path}
    /\ nameToInum' = [nameToInum EXCEPT ![path] = inum]
    /\ UNCHANGED <<dbitmap, dirs>>

\* Mutation: the inode is not given back when there is no block for the
\* directory.
createDirectory_KeepsInode(parent, name, inum) ==
    LET path       == Append(parent, name)
        parentInum == nameToInum[parent]
        fblock     == alloc(dbitmap, numData)
    IN
    IF fblock = -1
    THEN ibitmap' = Marked(ibitmap, inum)
         /\ UNCHANGED <<dbitmap, inodes, data, files, dirs, nameToInum>>
    ELSE
    /\ ibitmap' = Marked(ibitmap, inum)
    /\ dbitmap' = Marked(dbitmap, fblock)
    /\ inodes' = [inodes EXCEPT ![inum] = [ftype |-> "d", addr |-> fblock, refCnt |-> 2],
                                ![parentInum].refCnt = @ + 1]
    /\ data' = [data EXCEPT ![fblock] = DirBlock(inum, parentInum),
                            ![DirAddr(parent)] = addDirEntry(@, name, inum)]
    /\ dirs' = dirs \cup {path}
    /\ nameToInum' = [nameToInum EXCEPT ![path] = inum]
    /\ UNCHANGED files

\* createFile for a directory: without a block for "." and ".." the inode is
\* given back; ".." is a reference to the parent.
createDirectory(parent, name, inum) ==
    LET path       == Append(parent, name)
        parentInum == nameToInum[parent]
        fblock     == alloc(dbitmap, numData)
    IN
    IF fblock = -1 THEN Fails
    ELSE
    /\ ibitmap' = Marked(ibitmap, inum)
    /\ dbitmap' = Marked(dbitmap, fblock)
    /\ inodes' = [inodes EXCEPT ![inum] = [ftype |-> "d", addr |-> fblock, refCnt |-> 2],
                                ![parentInum].refCnt = @ + 1]
    /\ data' = [data EXCEPT ![fblock] = DirBlock(inum, parentInum),
                            ![DirAddr(parent)] = addDirEntry(@, name, inum)]
    /\ dirs' = dirs \cup {path}
    /\ nameToInum' = [nameToInum EXCEPT ![path] = inum]
    /\ UNCHANGED files

doCreate(ftype) ==
    /\ Attempt
    /\ \E parent \in Parents, name \in Names :
        LET inum == alloc(ibitmap, numInodes) IN
        IF ~HasRoomFor(parent, name) \/ inum = -1 THEN Fails
        ELSE IF ftype = "d" THEN createDirectory(parent, name, inum)
        ELSE createRegular(parent, name, inum)
    /\ StopsWhenFull

-----------------------------------------------------------------------------
\* writeFile: may this file be given this block?
writeFile(inum, fblock) == inodes[inum].addr = -1 /\ fblock # -1

doAppend ==
    /\ Attempt
    /\ IF files = {} THEN Fails
       ELSE \E path \in files :
        LET inum   == nameToInum[path]
            fblock == alloc(dbitmap, numData)
        IN
        IF ~writeFile(inum, fblock) THEN Fails
        ELSE
        /\ dbitmap' = Marked(dbitmap, fblock)
        /\ data' = [data EXCEPT ![fblock] = FileBlock]
        /\ inodes' = [inodes EXCEPT ![inum].addr = fblock]
        /\ UNCHANGED <<ibitmap, files, dirs, nameToInum>>
    /\ StopsWhenFull

Next ==
    \/ doAppend
    \/ doDelete
    \/ doLink
    \/ \E ftype \in {"f", "d"} : doCreate(ftype)

Spec == Init /\ [][Next]_vars

-----------------------------------------------------------------------------
\* What fsck would ask of the two bitmaps: an inode or a block is marked if
\* and only if it is in use, the cached count is the number of marks, and
\* each block in use belongs to exactly one inode of its kind; so are the
\* entries of a directory block counted, and there are not too many of them.
\* Creating, linking, the roll-back of mkdir and the two frees of unlink touch it.
BitmapsMatchTables ==
    /\ ibitmap.used = {i \in Inums : inodes[i].ftype # "free"}
    /\ dbitmap.used = {b \in Blocks : data[b].ftype # "free"}
    /\ ibitmap.numAllocated = Cardinality(ibitmap.used)
    /\ dbitmap.numAllocated = Cardinality(dbitmap.used)
    /\ \A b \in Blocks : data[b].dirUsed = Cardinality(data[b].dirList) /\ data[b].dirUsed <= MaxUsed
    /\ \A b \in dbitmap.used : \E i \in ibitmap.used :
        /\ inodes[i].addr = b
        /\ inodes[i].ftype = data[b].ftype
        /\ \A j \in Inums \ {i} : inodes[j].addr # b

Directories == {b \in Blocks : data[b].ftype = "d"}
Entries == {<<b, e>> : b \in Directories, e \in UNION {data[d].dirList : d \in Directories}}
EntriesOf(inum) == {x \in Entries : x[2] \in data[x[1]].dirList /\ x[2][2] = inum}

\* The reference count in every inode is the number of directory entries
\* that lead to it, "." and ".." included, in all directories together: what
\* lets unlink decide from the count alone that nobody else has the file.
LinkCountsMatchEntries ==
    \A i \in ibitmap.used : inodes[i].refCnt = Cardinality(EntriesOf(i))

\* The inode a path leads to through the directories on disk, -1 for none.
Walk[p \in Paths] ==
    IF p = <<>> THEN ROOT
    ELSE LET up == Walk[getParent(p)]
         IN IF up = -1 \/ inodes[up].ftype # "d" THEN -1
            ELSE LET found == {e \in data[inodes[up].addr].dirList : e[1] = LastName(p)}
                 IN IF found = {} THEN -1 ELSE (CHOOSE e \in found : TRUE)[2]

\* The names the generator remembers are the names on disk: each listed path
\* leads to the inode the dictionary has for it, of the right kind, and no
\* other path leads anywhere.  unlink leaves its key in the dictionary, so a
\* stale number would surface when the path is created or linked again.
NamesResolve ==
    /\ files \cap dirs = {}
    /\ \A p \in Paths :
        /\ p \in files => Walk[p] = nameToInum[p] /\ inodes[Walk[p]].ftype = "f"
        /\ p \in dirs  => Walk[p] = nameToInum[p] /\ inodes[Walk[p]].ftype = "d"
        /\ p \notin files \cup dirs => Walk[p] = -1

-----------------------------------------------------------------------------
N == INSTANCE Namespace WITH
        Files <- UNION {0 .. g[1] - 1 : g \in Geometries},
        Root <- ROOT,
        Unbound <- -1,
        tree <- Walk,
        dirs <- {i \in Inums : inodes[i].ftype = "d"},
        written <- {i \in Inums : inodes[i].ftype = "f" /\ inodes[i].addr # -1}

\* The file system keeps the promise of module Namespace: a file lives until
\* its last name goes, contents are seen through every name, and a number
\* that is given out again has no name left from its former life.
ImplementsNamespace == N!NSpec
=============================================================================
