----------------------------- MODULE VsfsProofs -----------------------------
(***************************************************************************)
(* The tables of vsfs.py agree with each other after every operation, for  *)
(* every geometry, any set of names and directory blocks of any size; the  *)
(* names its generator remembers are those on disk, and the whole is a     *)
(* namespace with hard links, as module Namespace has it.                  *)
(***************************************************************************)
EXTENDS Vsfs, SequenceTheorems, WellFoundedInduction, TLAPS, FiniteSetTheorems

-----------------------------------------------------------------------------
\* What these proofs need to know of numbers.

\* A set of numbers that is not empty has a smallest one.
LEMMA SmallestNumber ==
    ASSUME NEW T, T \subseteq Nat, T # {}
    PROVE  \E x \in T : \A y \in T : x <= y
<1> DEFINE R == {r \in Nat \X Nat : r[1] < r[2]}
<1>1. IsWellFoundedOn(R, Nat)
  BY NatLessThanWellFounded DEF OpToRel
<1>2. PICK x \in T : \A y \in T : ~(<<y, x>> \in R)
  <2> HIDE DEF R
  <2> QED BY <1>1, WFMin
<1>3. ASSUME NEW y \in T PROVE ~(y < x)
  <2> DEFINE r == <<y, x>>
  <2>1. r \in Nat \X Nat
    OBVIOUS
  <2>2. r \notin R
    BY <1>2
  <2> QED BY <2>1, <2>2
<1> QED BY <1>3

\* A set with 0 and the successor of each of its numbers has all numbers.
LEMMA SetInduction ==
    ASSUME NEW P, 0 \in P, \A n \in Nat : n \in P => n + 1 \in P
    PROVE  Nat \subseteq P
<1> DEFINE T == Nat \ P
<1> SUFFICES ASSUME T # {} PROVE FALSE
  OBVIOUS
<1>1. PICK x \in T : \A y \in T : x <= y
  <2> HIDE DEF T
  <2>1. T \subseteq Nat
    BY DEF T
  <2> QED BY <2>1, SmallestNumber
<1>2. x \in Nat /\ x # 0 /\ x - 1 \in Nat /\ (x - 1) + 1 = x
  OBVIOUS
<1>3. x - 1 \notin T
  BY <1>1, <1>2
<1> QED BY <1>2, <1>3

-----------------------------------------------------------------------------
\* Paths are built and taken apart at their end.
LEMMA PathIsSeq ==
    ASSUME NEW p \in Paths
    PROVE  p \in Seq(Names) /\ Len(p) \in Nat /\ Len(p) <= MaxDepth
<1>1. PICK n \in 0 .. MaxDepth : p \in [1 .. n -> Names]
  BY DEF Paths
<1>2. n \in Nat /\ n <= MaxDepth
  BY <1>1, VsfsAssumption
<1> QED BY <1>1, <1>2

\* A longer path has one name more.
LEMMA PathAppend ==
    ASSUME NEW p \in Paths, Len(p) < MaxDepth, NEW x \in Names
    PROVE  /\ Append(p, x) \in Paths /\ Append(p, x) # <<>>
           /\ getParent(Append(p, x)) = p /\ LastName(Append(p, x)) = x
<1>1. p \in Seq(Names) /\ Len(p) \in Nat
  BY PathIsSeq
<1> DEFINE q == Append(p, x)
<1>2. /\ q \in Seq(Names) /\ q # <<>> /\ Len(q) = Len(p) + 1
      /\ \A i \in 1 .. Len(p) : q[i] = p[i]
      /\ q[Len(p) + 1] = x
  BY <1>1, AppendProperties
<1> HIDE DEF q
<1>3. q \in [1 .. Len(q) -> Names] /\ Len(q) \in 0 .. MaxDepth
  BY <1>1, <1>2, VsfsAssumption
<1>4. SubSeq(q, 1, Len(p)) = p
  <2>1. \A i \in 1 .. Len(p) : q[i] \in Names
    BY <1>1, <1>2
  <2>2. /\ SubSeq(q, 1, Len(p)) \in Seq(Names)
        /\ Len(SubSeq(q, 1, Len(p))) = Len(p)
        /\ \A i \in 1 .. Len(p) : SubSeq(q, 1, Len(p))[i] = q[i]
    BY <1>1, <2>1, SubSeqProperties
  <2> QED BY <1>1, <1>2, <2>2, SeqEqual
<1> QED BY <1>1, <1>2, <1>3, <1>4 DEF Paths, getParent, LastName, q

\* The path above another, and the name that is left.
LEMMA PathAbove ==
    ASSUME NEW p \in Paths, p # <<>>
    PROVE  /\ getParent(p) \in Paths /\ LastName(p) \in Names
           /\ Append(getParent(p), LastName(p)) = p
           /\ Len(getParent(p)) \in Nat /\ Len(p) = Len(getParent(p)) + 1
<1>1. p \in Seq(Names) /\ Len(p) \in Nat \ {0} /\ Len(p) <= MaxDepth
  BY PathIsSeq, EmptySeq
<1> DEFINE n == Len(p) - 1
           q == SubSeq(p, 1, n)
<1>2. n \in Nat /\ n + 1 = Len(p) /\ n \in 0 .. MaxDepth
  BY <1>1, VsfsAssumption
<1>3. \A i \in 1 .. n + 1 : p[i] \in Names
  <2> HIDE DEF n
  <2> QED BY <1>1, <1>2
<1>4. q \in Seq(Names) /\ Len(q) = n /\ \A i \in 1 .. n : q[i] = p[i]
  <2>1. (IF 1 <= n THEN n - 1 + 1 ELSE 0) = n /\ n - 1 + 1 = n /\ 1 \in Int /\ n \in Int
    <3> HIDE DEF n
    <3> QED BY <1>2
  <2> HIDE DEF n
  <2>2. \A i \in 1 .. n : p[i] \in Names
    BY <1>2, <1>3
  <2>3. /\ q \in Seq(Names) /\ Len(q) = n
        /\ \A i \in 1 .. n : q[i] = p[1 + i - 1]
    BY <2>1, <2>2, SubSeqProperties
  <2>4. \A i \in 1 .. n : 1 + i - 1 = i
    BY <1>2
  <2> QED BY <2>3, <2>4
<1>5. getParent(p) = q /\ LastName(p) = p[n + 1]
  <2>1. Len(p) = n + 1
    BY <1>1
  <2> QED BY <2>1 DEF getParent, LastName
<1> HIDE DEF n, q
<1>6. p[n + 1] \in Names
  BY <1>2, <1>3
<1>7. q \in Paths
  <2>1. q \in [1 .. n -> Names]
    BY <1>4
  <2> QED BY <1>2, <2>1 DEF Paths
<1>8. Append(q, p[n + 1]) = p
  <2> DEFINE r == Append(q, p[n + 1])
  <2>1. /\ r \in Seq(Names) /\ Len(r) = n + 1 /\ r[n + 1] = p[n + 1]
        /\ \A i \in 1 .. n : r[i] = q[i]
    BY <1>4, <1>6, AppendProperties
  <2> HIDE DEF r
  <2>2. \A i \in 1 .. Len(r) : r[i] = p[i]
    BY <1>2, <1>4, <2>1
  <2>3. r = p
    BY <1>1, <1>2, <2>1, <2>2, SeqEqual
  <2> QED BY <2>3 DEF r
<1> QED BY <1>2, <1>4, <1>5, <1>6, <1>7, <1>8

\* A path that is not the root is given by its parent and its last name.
LEMMA PathSplit ==
    ASSUME NEW p \in Paths, NEW q \in Paths, p # <<>>, q # <<>>,
           getParent(p) = getParent(q), LastName(p) = LastName(q)
    PROVE  p = q
BY PathAbove

\* bitmap.alloc returns a number that is not marked, or -1.
LEMMA AllocFree ==
    ASSUME NEW bitmap, NEW size \in Nat
    PROVE  \/ alloc(bitmap, size) = -1
           \/ alloc(bitmap, size) \in FreeNumbers(bitmap, size)
<1> DEFINE F == FreeNumbers(bitmap, size)
<1>1. F \subseteq Nat
  BY DEF FreeNumbers
<1>2. CASE F # {}
  <2>1. \E n \in F : \A m \in F : n <= m
    <3> HIDE DEF F
    <3> QED BY <1>1, <1>2, SmallestNumber
  <2> QED BY <1>2, <2>1 DEF alloc
<1> QED BY <1>2 DEF alloc

-----------------------------------------------------------------------------
Kinds == {"free", "f", "d"}

InodeRecords == [ftype : Kinds, addr : Blocks \cup {-1}, refCnt : Int]
BlockRecords == [ftype : Kinds, dirList : SUBSET ((Names \cup Dots) \X Inums), dirUsed : Int]

Typed ==
    /\ numInodes \in Nat \ {0} /\ numData \in Nat \ {0}
    /\ ibitmap \in [used : SUBSET Inums, numAllocated : Int]
    /\ dbitmap \in [used : SUBSET Blocks, numAllocated : Int]
    /\ inodes \in [Inums -> InodeRecords]
    /\ data \in [Blocks -> BlockRecords]
    /\ files \subseteq Paths /\ dirs \subseteq Paths /\ <<>> \in dirs
    /\ nameToInum \in [Paths -> Inums \cup {-1}]

\* The bitmaps mark what is in use, and count it.
Marks ==
    /\ ibitmap.used = {i \in Inums : inodes[i].ftype # "free"}
    /\ dbitmap.used = {b \in Blocks : data[b].ftype # "free"}
    /\ ibitmap.numAllocated = Cardinality(ibitmap.used)
    /\ dbitmap.numAllocated = Cardinality(dbitmap.used)

\* Inodes and the blocks they point to.
Owners ==
    /\ \A i \in Inums :
         /\ inodes[i].addr # -1 =>
               inodes[i].ftype # "free" /\ data[inodes[i].addr].ftype = inodes[i].ftype
         /\ inodes[i].ftype = "d" => inodes[i].addr # -1
    /\ \A i, j \in Inums : i # j /\ inodes[i].addr = inodes[j].addr => inodes[i].addr = -1
    /\ \A b \in Blocks : data[b].ftype # "free" => \E i \in Inums : inodes[i].addr = b

\* The entries of a directory have different names, lead to inodes in use and
\* are counted; only directories have entries.
Lists ==
    \A b \in Blocks :
        /\ IsFiniteSet(data[b].dirList)
        /\ data[b].dirUsed = Cardinality(data[b].dirList) /\ data[b].dirUsed <= MaxUsed
        /\ \A d, e \in data[b].dirList : d[1] = e[1] => d = e
        /\ \A e \in data[b].dirList : inodes[e[2]].ftype # "free"
        /\ data[b].ftype # "d" => data[b].dirList = {}

\* What the generator remembers: different directories, files of their kind, and
\* an entry on disk for every name but the root's.
Remembered ==
    /\ files \cap dirs = {}
    /\ \A d \in dirs : nameToInum[d] # -1 /\ inodes[nameToInum[d]].ftype = "d"
    /\ \A d, e \in dirs : d # e => nameToInum[d] # nameToInum[e]
    /\ \A f \in files : nameToInum[f] # -1 /\ inodes[nameToInum[f]].ftype = "f"
    /\ \A p \in files \cup dirs : p # <<>> =>
          /\ getParent(p) \in dirs
          /\ <<LastName(p), nameToInum[p]>> \in data[DirAddr(getParent(p))].dirList

\* LinkCountsMatchEntries, with the entries finitely many.
Links ==
    \A i \in Inums :
        /\ IsFiniteSet(EntriesOf(i))
        /\ inodes[i].ftype # "free" => inodes[i].refCnt = Cardinality(EntriesOf(i))

IInv == Typed /\ Marks /\ Owners /\ Lists /\ Remembered /\ Links

\* The entries for an inode, each with the directory block that lists it.
LEMMA EntriesAre ==
    ASSUME NEW i, NEW x
    PROVE  x \in EntriesOf(i) <=>
              \E b \in Blocks : \E e \in data[b].dirList :
                 data[b].ftype = "d" /\ x = <<b, e>> /\ e[2] = i
<1>1. ASSUME x \in EntriesOf(i)
      PROVE  \E b \in Blocks : \E e \in data[b].dirList :
                 data[b].ftype = "d" /\ x = <<b, e>> /\ e[2] = i
  <2>1. PICK b \in Directories, e \in UNION {data[d].dirList : d \in Directories} : x = <<b, e>>
    BY <1>1 DEF EntriesOf, Entries
  <2> QED BY <1>1, <2>1 DEF EntriesOf, Directories
<1>2. ASSUME NEW b \in Blocks, NEW e \in data[b].dirList,
             data[b].ftype = "d", x = <<b, e>>, e[2] = i
      PROVE  x \in EntriesOf(i)
  BY <1>2 DEF EntriesOf, Entries, Directories
<1> QED BY <1>1, <1>2

\* The same in the next state.
LEMMA EntriesAreAfter ==
    ASSUME UNCHANGED numData, NEW i, NEW x
    PROVE  x \in EntriesOf(i)' <=>
              \E b \in Blocks : \E e \in data'[b].dirList :
                 data'[b].ftype = "d" /\ x = <<b, e>> /\ e[2] = i
<1>0. Blocks' = Blocks
  BY DEF Blocks
<1>1. ASSUME x \in EntriesOf(i)'
      PROVE  \E b \in Blocks : \E e \in data'[b].dirList :
                 data'[b].ftype = "d" /\ x = <<b, e>> /\ e[2] = i
  <2>1. PICK b \in Directories', e \in (UNION {data[d].dirList : d \in Directories})' : x = <<b, e>>
    BY <1>1 DEF EntriesOf, Entries
  <2> QED BY <1>0, <1>1, <2>1 DEF EntriesOf, Directories
<1>2. ASSUME NEW b \in Blocks, NEW e \in data'[b].dirList,
             data'[b].ftype = "d", x = <<b, e>>, e[2] = i
      PROVE  x \in EntriesOf(i)'
  BY <1>0, <1>2 DEF EntriesOf, Entries, Directories
<1> QED BY <1>1, <1>2

\* The inductive invariant has what the run checks.
LEMMA InvImplies == IInv => BitmapsMatchTables /\ LinkCountsMatchEntries
<1> SUFFICES ASSUME IInv PROVE BitmapsMatchTables /\ LinkCountsMatchEntries
  OBVIOUS
<1> USE DEF IInv
<1>1. ASSUME NEW b \in dbitmap.used
      PROVE  \E i \in ibitmap.used :
                /\ inodes[i].addr = b
                /\ inodes[i].ftype = data[b].ftype
                /\ \A j \in Inums \ {i} : inodes[j].addr # b
  <2>1. b \in Blocks /\ data[b].ftype # "free" /\ b # -1
    BY DEF Marks, Typed, Blocks
  <2>2. PICK i \in Inums : inodes[i].addr = b
    BY <2>1 DEF Owners
  <2>3. inodes[i].ftype = data[b].ftype /\ i \in ibitmap.used
    BY <2>1, <2>2 DEF Owners, Marks
  <2>4. \A j \in Inums \ {i} : inodes[j].addr # b
    BY <2>1, <2>2 DEF Owners
  <2> QED BY <2>2, <2>3, <2>4
<1>2. BitmapsMatchTables
  BY <1>1 DEF Marks, Lists, BitmapsMatchTables
<1>3. LinkCountsMatchEntries
  BY DEF Marks, Links, LinkCountsMatchEntries
<1> QED BY <1>2, <1>3

\* The file system begins in the invariant.
LEMMA InitInv == Init => IInv
<1> SUFFICES ASSUME Init PROVE IInv
  OBVIOUS
<1> USE VsfsAssumption DEF ROOT, Dots
<1>1. numInodes \in Nat \ {0} /\ numData \in Nat \ {0} /\ 0 \in Inums /\ 0 \in Blocks
      /\ -1 \notin Blocks /\ -1 \notin Inums
  BY DEF Init, Inums, Blocks
<1>2. <<>> \in Paths
  <2>1. <<>> \in [1 .. 0 -> Names] /\ 0 \in 0 .. MaxDepth
    BY EmptySeq
  <2> QED BY <2>1 DEF Paths
<1>3. /\ inodes = [i \in Inums |-> IF i = 0 THEN [ftype |-> "d", addr |-> 0, refCnt |-> 2]
                                   ELSE [ftype |-> "free", addr |-> -1, refCnt |-> 1]]
      /\ data = [b \in Blocks |->
                   IF b = 0
                   THEN [ftype |-> "d", dirList |-> {<<".", 0>>, <<"..", 0>>}, dirUsed |-> 2]
                   ELSE [ftype |-> "free", dirList |-> {}, dirUsed |-> 0]]
  BY DEF Init, NewInode, DirBlock, FreeBlock
<1>4. Typed
  BY <1>1, <1>2, <1>3 DEF Init, Typed, Kinds, InodeRecords, BlockRecords
<1>5. Marks
  <2>1. Cardinality({0}) = 1
    BY FS_Singleton
  <2>2. {i \in Inums : inodes[i].ftype # "free"} = {0}
        /\ {b \in Blocks : data[b].ftype # "free"} = {0}
    BY <1>1, <1>3
  <2> QED BY <2>1, <2>2 DEF Init, Marks
<1>6. Owners
  BY <1>1, <1>3 DEF Owners
<1> DEFINE dot == <<".", 0>>
           dotdot == <<"..", 0>>
<1>7. IsFiniteSet({dot, dotdot}) /\ Cardinality({dot, dotdot}) = 2 /\ dot # dotdot
  <2>1. dot # dotdot
    OBVIOUS
  <2>2. {dot, dotdot} = {dot} \cup {dotdot}
    OBVIOUS
  <2>3. IsFiniteSet({dot}) /\ Cardinality({dot}) = 1 /\ dotdot \notin {dot}
    BY <2>1, FS_Singleton
  <2> HIDE DEF dot, dotdot
  <2> QED BY <2>1, <2>2, <2>3, FS_AddElement
<1>8. Lists
  BY <1>1, <1>3, <1>7, FS_EmptySet DEF Lists
<1>9. Remembered
  BY <1>1, <1>2, <1>3 DEF Init, Remembered
<1>10. Links
  <2>1. EntriesOf(0) = {<<0, dot>>, <<0, dotdot>>}
    <3>1. ASSUME NEW x PROVE x \in EntriesOf(0) <=> x \in {<<0, dot>>, <<0, dotdot>>}
      <4>1. data[0].dirList = {dot, dotdot} /\ data[0].ftype = "d"
            /\ \A b \in Blocks : b # 0 => data[b].ftype # "d"
        BY <1>1, <1>3
      <4> QED BY <1>1, <4>1, EntriesAre
    <3> QED BY <3>1
  <2>2. <<0, dot>> # <<0, dotdot>>
    BY <1>7
  <2>3. IsFiniteSet(EntriesOf(0)) /\ Cardinality(EntriesOf(0)) = 2
    <3> DEFINE x == <<0, dot>>
               y == <<0, dotdot>>
    <3>1. EntriesOf(0) = {x} \cup {y} /\ y \notin {x}
      BY <2>1, <2>2
    <3>2. IsFiniteSet({x}) /\ Cardinality({x}) = 1
      BY FS_Singleton
    <3> HIDE DEF x, y
    <3>3. /\ IsFiniteSet({x} \cup {y})
          /\ Cardinality({x} \cup {y}) = Cardinality({x}) + 1
      BY <3>1, <3>2, FS_AddElement
    <3> QED BY <3>1, <3>2, <3>3
  <2>4. ASSUME NEW i \in Inums, i # 0 PROVE EntriesOf(i) = {}
    <3>1. ASSUME NEW x \in EntriesOf(i) PROVE FALSE
      <4>1. PICK b \in Blocks : \E e \in data[b].dirList : data[b].ftype = "d" /\ e[2] = i
        BY <3>1, EntriesAre
      <4>2. PICK e \in data[b].dirList : data[b].ftype = "d" /\ e[2] = i
        BY <4>1
      <4>3. e = dot \/ e = dotdot
        BY <1>1, <1>3, <4>2
      <4> QED BY <2>4, <4>2, <4>3
    <3> QED BY <3>1
  <2>5. /\ \A i \in Inums : i # 0 => inodes[i].ftype = "free"
        /\ inodes[0].refCnt = 2
    BY <1>1, <1>3
  <2>6. ASSUME NEW i \in Inums
        PROVE  /\ IsFiniteSet(EntriesOf(i))
               /\ inodes[i].ftype # "free" => inodes[i].refCnt = Cardinality(EntriesOf(i))
    <3>1. CASE i = 0
      BY <2>3, <2>5, <3>1
    <3>2. CASE i # 0
      BY <2>4, <2>5, <3>2, FS_EmptySet
    <3> QED BY <3>1, <3>2
  <2> QED BY <2>6 DEF Links
<1> QED BY <1>4, <1>5, <1>6, <1>8, <1>9, <1>10 DEF IInv

-----------------------------------------------------------------------------
\* What the types say of a single inode and a single block.
LEMMA Records ==
    ASSUME IInv
    PROVE  /\ \A i \in Inums : /\ inodes[i] \in InodeRecords
                               /\ inodes[i].ftype \in Kinds
                               /\ inodes[i].addr \in Blocks \cup {-1}
                               /\ inodes[i].refCnt \in Int
           /\ \A b \in Blocks : /\ data[b] \in BlockRecords
                                /\ data[b].ftype \in Kinds /\ data[b].dirUsed \in Int
                                /\ data[b].dirList \subseteq (Names \cup Dots) \X Inums
                                /\ \A e \in data[b].dirList : e[2] \in Inums
           /\ numInodes \in Nat \ {0} /\ numData \in Nat \ {0}
           /\ -1 \notin Inums /\ -1 \notin Blocks
<1>1. /\ \A i \in Inums : inodes[i] \in InodeRecords
      /\ \A b \in Blocks : data[b] \in BlockRecords
      /\ numInodes \in Nat \ {0} /\ numData \in Nat \ {0}
  BY DEF IInv, Typed
<1>2. ASSUME NEW r \in InodeRecords
      PROVE  r.ftype \in Kinds /\ r.addr \in Blocks \cup {-1} /\ r.refCnt \in Int
  BY DEF InodeRecords
<1>3. ASSUME NEW r \in BlockRecords
      PROVE  /\ r.ftype \in Kinds /\ r.dirUsed \in Int
             /\ r.dirList \subseteq (Names \cup Dots) \X Inums
             /\ \A e \in r.dirList : e[2] \in Inums
  BY DEF BlockRecords
<1>4. -1 \notin Inums /\ -1 \notin Blocks
  BY DEF Inums, Blocks
<1> QED BY <1>1, <1>2, <1>3, <1>4

\* addDirEntry and delDirEntry make blocks of blocks.
LEMMA BlockUpdates ==
    ASSUME NEW r \in BlockRecords, NEW name \in Names \cup Dots, NEW t \in Inums
    PROVE  /\ addDirEntry(r, name, t) \in BlockRecords
           /\ addDirEntry(r, name, t).ftype = r.ftype
           /\ addDirEntry(r, name, t).dirList = r.dirList \cup {<<name, t>>}
           /\ addDirEntry(r, name, t).dirUsed = r.dirUsed + 1
           /\ delDirEntry(r, name) \in BlockRecords
           /\ delDirEntry(r, name).ftype = r.ftype
           /\ delDirEntry(r, name).dirList = {e \in r.dirList : e[1] # name}
           /\ delDirEntry(r, name).dirUsed = r.dirUsed - 1
<1>1. r.dirList \cup {<<name, t>>} \in SUBSET ((Names \cup Dots) \X Inums)
  BY DEF BlockRecords
<1> QED BY <1>1 DEF BlockRecords, addDirEntry, delDirEntry

\* So do the changes to an inode.
LEMMA InodeUpdates ==
    ASSUME NEW r \in InodeRecords
    PROVE  /\ [r EXCEPT !.refCnt = @ + 1] \in InodeRecords
           /\ [r EXCEPT !.refCnt = @ + 1].ftype = r.ftype
           /\ [r EXCEPT !.refCnt = @ + 1].addr = r.addr
           /\ [r EXCEPT !.refCnt = @ + 1].refCnt = r.refCnt + 1
           /\ decRefCnt(r) \in InodeRecords
           /\ decRefCnt(r).ftype = r.ftype
           /\ decRefCnt(r).addr = r.addr
           /\ decRefCnt(r).refCnt = r.refCnt - 1
           /\ FreedInode(r) \in InodeRecords
           /\ FreedInode(r).ftype = "free" /\ FreedInode(r).addr = -1
           /\ FreedInode(r).refCnt = r.refCnt
           /\ \A b \in Blocks : /\ [r EXCEPT !.addr = b] \in InodeRecords
                                /\ [r EXCEPT !.addr = b].ftype = r.ftype
                                /\ [r EXCEPT !.addr = b].addr = b
                                /\ [r EXCEPT !.addr = b].refCnt = r.refCnt
<1>1. /\ [r EXCEPT !.refCnt = @ + 1] =
            [ftype |-> r.ftype, addr |-> r.addr, refCnt |-> r.refCnt + 1]
      /\ decRefCnt(r) =
            [ftype |-> r.ftype, addr |-> r.addr, refCnt |-> r.refCnt - 1]
      /\ \A b \in Blocks : [r EXCEPT !.addr = b] =
            [ftype |-> r.ftype, addr |-> b, refCnt |-> r.refCnt]
  BY DEF InodeRecords, decRefCnt
<1>2. r.ftype \in Kinds /\ r.addr \in Blocks \cup {-1} /\ r.refCnt \in Int
  BY DEF InodeRecords
<1> QED BY <1>1, <1>2 DEF InodeRecords, FreedInode, Kinds

\* A directory of the generator has a block of its own.
LEMMA DirectoryBlock ==
    ASSUME IInv, NEW d \in dirs
    PROVE  /\ nameToInum[d] \in Inums /\ DirAddr(d) \in Blocks /\ DirAddr(d) # -1
           /\ data[DirAddr(d)].ftype = "d"
           /\ \A e \in dirs : e # d => DirAddr(e) # DirAddr(d)
<1>1. ASSUME NEW e \in dirs
      PROVE  /\ nameToInum[e] \in Inums /\ inodes[nameToInum[e]].ftype = "d"
             /\ DirAddr(e) # -1 /\ DirAddr(e) \in Blocks /\ data[DirAddr(e)].ftype = "d"
  <2>1. nameToInum[e] \in Inums /\ inodes[nameToInum[e]].ftype = "d"
    BY <1>1 DEF IInv, Typed, Remembered
  <2> QED BY <2>1, Records DEF IInv, Owners, DirAddr
<1>2. ASSUME NEW e \in dirs, e # d PROVE DirAddr(e) # DirAddr(d)
  BY <1>1, <1>2 DEF IInv, Remembered, Owners, DirAddr
<1> QED BY <1>1, <1>2

\* A name that is free in the directory's block is no path the generator knows.
LEMMA NewName ==
    ASSUME IInv, NEW parent \in Parents, NEW name \in Names, HasRoomFor(parent, name)
    PROVE  LET path == Append(parent, name) IN
           /\ parent \in dirs /\ path \in Paths /\ path # <<>>
           /\ getParent(path) = parent /\ LastName(path) = name
           /\ path \notin files \cup dirs
<1>1. parent \in dirs /\ parent \in Paths /\ Len(parent) < MaxDepth
  BY DEF Parents, IInv, Typed
<1> DEFINE path == Append(parent, name)
<1>2. path \in Paths /\ path # <<>> /\ getParent(path) = parent /\ LastName(path) = name
  BY <1>1, PathAppend
<1> HIDE DEF path
<1>3. ASSUME path \in files \cup dirs PROVE FALSE
  <2> DEFINE e == <<name, nameToInum[path]>>
  <2>1. e \in data[DirAddr(parent)].dirList
    BY <1>2, <1>3 DEF IInv, Remembered
  <2>2. e[1] = name
    OBVIOUS
  <2> QED BY <2>1, <2>2 DEF HasRoomFor, dirEntryExists
<1> QED BY <1>1, <1>2, <1>3 DEF path

\* Nothing changes but whether the program goes on.
LEMMA FailsKeeps == ASSUME IInv, Fails, UNCHANGED <<numInodes, numData>> PROVE IInv'
<1> USE DEF Fails, disk
<1>1. Inums' = Inums /\ Blocks' = Blocks
  BY DEF Inums, Blocks
<1>2. \A i : EntriesOf(i)' = EntriesOf(i)
  BY <1>1 DEF EntriesOf, Entries, Directories
<1>3. Typed' /\ Marks' /\ Owners'
  BY <1>1 DEF IInv, Typed, Marks, Owners, InodeRecords, BlockRecords
<1>4. Lists' /\ Remembered'
  BY <1>1 DEF IInv, Lists, Remembered, DirAddr
<1>5. Links'
  BY <1>1, <1>2 DEF IInv, Links
<1> QED BY <1>3, <1>4, <1>5 DEF IInv

\* What a new entry in a directory's block does to the block.
LEMMA RoomForEntry ==
    ASSUME IInv, NEW parent \in dirs, NEW name \in Names, HasRoomFor(parent, name), NEW t
    PROVE  LET list == data[DirAddr(parent)].dirList
               new  == list \cup {<<name, t>>} IN
           /\ <<name, t>> \notin list
           /\ IsFiniteSet(new)
           /\ Cardinality(new) = data[DirAddr(parent)].dirUsed + 1
           /\ data[DirAddr(parent)].dirUsed + 1 <= MaxUsed
           /\ \A d, e \in new : d[1] = e[1] => d = e
<1> DEFINE b == DirAddr(parent)
           list == data[b].dirList
           x == <<name, t>>
<1>1. b \in Blocks /\ data[b].dirUsed \in Int /\ MaxUsed \in Nat
  BY DirectoryBlock, VsfsAssumption, Records
<1>2. /\ IsFiniteSet(list) /\ data[b].dirUsed = Cardinality(list)
      /\ \A d, e \in list : d[1] = e[1] => d = e
  BY <1>1 DEF IInv, Lists
<1>3. x[1] = name /\ \A e \in list : e[1] # name
  BY DEF HasRoomFor, dirEntryExists
<1>4. data[b].dirUsed + 1 <= MaxUsed
  BY <1>1 DEF HasRoomFor, getFreeEntries
<1> HIDE DEF x, list
<1>5. x \notin list
  BY <1>3
<1>6. IsFiniteSet(list \cup {x}) /\ Cardinality(list \cup {x}) = Cardinality(list) + 1
  BY <1>2, <1>5, FS_AddElement
<1>7. \A d, e \in list \cup {x} : d[1] = e[1] => d = e
  BY <1>2, <1>3
<1> QED BY <1>2, <1>4, <1>5, <1>6, <1>7 DEF x, list

\* One entry more in the directories.
LEMMA EntryAdded ==
    ASSUME UNCHANGED numData, NEW pb \in Blocks, data[pb].ftype = "d", NEW e,
           e \notin data[pb].dirList,
           \A b \in Blocks :
              /\ data'[b].ftype = data[b].ftype
              /\ data'[b].dirList = IF b = pb THEN data[b].dirList \cup {e} ELSE data[b].dirList
    PROVE  /\ <<pb, e>> \notin EntriesOf(e[2])
           /\ \A i : EntriesOf(i)' =
                 IF i = e[2] THEN EntriesOf(i) \cup {<<pb, e>>} ELSE EntriesOf(i)
<1>1. ASSUME NEW i, NEW x
      PROVE  x \in EntriesOf(i)' <=> x \in EntriesOf(i) \/ (i = e[2] /\ x = <<pb, e>>)
  <2>1. x \in EntriesOf(i) <=>
          \E b \in Blocks : \E d \in data[b].dirList :
             data[b].ftype = "d" /\ x = <<b, d>> /\ d[2] = i
    BY EntriesAre
  <2>2. x \in EntriesOf(i)' <=>
          \E b \in Blocks : \E d \in data'[b].dirList :
             data'[b].ftype = "d" /\ x = <<b, d>> /\ d[2] = i
    BY EntriesAreAfter
  <2>3. ASSUME NEW b \in Blocks, NEW d \in data'[b].dirList,
               data'[b].ftype = "d", x = <<b, d>>, d[2] = i
        PROVE  x \in EntriesOf(i) \/ (i = e[2] /\ x = <<pb, e>>)
    BY <2>1, <2>3
  <2>4. ASSUME NEW b \in Blocks, NEW d \in data[b].dirList,
               data[b].ftype = "d", x = <<b, d>>, d[2] = i
        PROVE  x \in EntriesOf(i)'
    BY <2>2, <2>4
  <2>5. ASSUME i = e[2], x = <<pb, e>> PROVE x \in EntriesOf(i)'
    BY <2>2, <2>5
  <2> QED BY <2>1, <2>2, <2>3, <2>4, <2>5
<1>2. <<pb, e>> \notin EntriesOf(e[2])
  BY EntriesAre
<1> QED BY <1>1, <1>2

\* One name more, for a file or for a new directory.
LEMMA NameAdded ==
    ASSUME IInv, UNCHANGED <<numInodes, numData>>,
           NEW parent \in dirs, NEW path \in Paths, path # <<>>, path \notin files \cup dirs,
           getParent(path) = parent, NEW t \in Inums,
           \A p \in Paths : nameToInum'[p] = IF p = path THEN t ELSE nameToInum[p],
           \A i \in Inums : inodes[i].ftype # "free" =>
              inodes'[i].ftype = inodes[i].ftype /\ inodes'[i].addr = inodes[i].addr,
           \A b \in Blocks : data[b].ftype = "d" => data[b].dirList \subseteq data'[b].dirList,
           <<LastName(path), t>> \in data'[DirAddr(parent)].dirList,
           \/ files' = files \cup {path} /\ dirs' = dirs /\ inodes'[t].ftype = "f"
           \/ /\ dirs' = dirs \cup {path} /\ files' = files
              /\ inodes'[t].ftype = "d" /\ inodes[t].ftype = "free"
    PROVE  Remembered'
<1>1. \A p \in files \cup dirs : p \in Paths /\ (p # path) /\ nameToInum'[p] = nameToInum[p]
  BY DEF IInv, Typed
<1>2. nameToInum'[path] = t /\ t # -1
  BY Records
<1>3. ASSUME NEW d \in dirs
      PROVE  /\ nameToInum[d] \in Inums /\ nameToInum'[d] = nameToInum[d] /\ nameToInum[d] # -1
             /\ inodes[nameToInum[d]].ftype = "d" /\ inodes'[nameToInum[d]].ftype = "d"
             /\ DirAddr(d)' = DirAddr(d)
             /\ DirAddr(d) \in Blocks /\ data[DirAddr(d)].ftype = "d"
  <2>1. nameToInum[d] \in Inums /\ DirAddr(d) \in Blocks /\ data[DirAddr(d)].ftype = "d"
    BY DirectoryBlock
  <2>2. nameToInum'[d] = nameToInum[d]
    BY <1>1
  <2>3. nameToInum[d] # -1 /\ inodes[nameToInum[d]].ftype = "d"
    BY DEF IInv, Remembered
  <2> QED BY <2>1, <2>2, <2>3 DEF DirAddr
<1>4. ASSUME NEW f \in files
      PROVE  nameToInum'[f] # -1 /\ inodes'[nameToInum'[f]].ftype = "f"
  <2>1. nameToInum[f] \in Inums /\ nameToInum[f] # -1 /\ inodes[nameToInum[f]].ftype = "f"
    BY DEF IInv, Typed, Remembered
  <2> QED BY <1>1, <2>1
<1>5. \A p \in files \cup dirs : p # <<>> =>
         /\ getParent(p) \in dirs
         /\ <<LastName(p), nameToInum'[p]>> \in data'[DirAddr(getParent(p))'].dirList
  <2>1. ASSUME NEW p \in files \cup dirs, p # <<>>
        PROVE  /\ getParent(p) \in dirs
               /\ <<LastName(p), nameToInum'[p]>> \in data'[DirAddr(getParent(p))'].dirList
    <3>1. /\ getParent(p) \in dirs
          /\ <<LastName(p), nameToInum[p]>> \in data[DirAddr(getParent(p))].dirList
      BY <2>1 DEF IInv, Remembered
    <3>2. DirAddr(getParent(p))' = DirAddr(getParent(p))
      BY <1>3, <3>1 DEF DirAddr
    <3> QED BY <1>1, <1>3, <3>1, <3>2
  <2> QED BY <2>1
<1>6. <<LastName(path), nameToInum'[path]>> \in data'[DirAddr(getParent(path))'].dirList
  BY <1>2, <1>3 DEF DirAddr
<1>7. files' \cap dirs' = {}
  BY DEF IInv, Remembered
<1>8. \A d \in dirs' : nameToInum'[d] # -1 /\ inodes'[nameToInum'[d]].ftype = "d"
  BY <1>2, <1>3
<1>9. \A c, d \in dirs' : c # d => nameToInum'[c] # nameToInum'[d]
  <2>1. \A c, d \in dirs : c # d => nameToInum'[c] # nameToInum'[d]
    BY <1>3 DEF IInv, Remembered
  <2>2. dirs' # dirs => \A d \in dirs : nameToInum'[d] # t
    BY <1>3
  <2> QED BY <1>2, <2>1, <2>2
<1>10. \A f \in files' : nameToInum'[f] # -1 /\ inodes'[nameToInum'[f]].ftype = "f"
  BY <1>2, <1>4
<1>11. \A p \in files' \cup dirs' : p # <<>> =>
          /\ getParent(p) \in dirs'
          /\ <<LastName(p), nameToInum'[p]>> \in data'[DirAddr(getParent(p))'].dirList
  BY <1>5, <1>6
<1> QED BY <1>7, <1>8, <1>9, <1>10, <1>11 DEF Remembered, DirAddr

\* What a step does to names, inodes and directories, whatever the operation that
\* does it: one name more, for an inode that had none or for a regular file; one name
\* fewer; a first block for a file.
AddsName(parent, name, t, kind, addr) ==
    LET path == Append(parent, name) IN
    /\ parent \in dirs /\ t \in Inums /\ kind \in {"f", "d"}
    /\ path \in Paths \ (files \cup dirs) /\ path # <<>>
    /\ getParent(path) = parent /\ LastName(path) = name
    /\ \/ inodes[t].ftype = "free" /\ addr = -1 /\ kind = "f"
       \/ inodes[t].ftype = "free" /\ addr \in Blocks /\ data[addr].ftype = "free" /\ kind = "d"
       \/ inodes[t].ftype = "f" /\ addr = inodes[t].addr /\ kind = "f"
    /\ files' = (IF kind = "f" THEN files \cup {path} ELSE files)
    /\ dirs' = (IF kind = "d" THEN dirs \cup {path} ELSE dirs)
    /\ \A p \in Paths : nameToInum'[p] = IF p = path THEN t ELSE nameToInum[p]
    /\ \A i \in Inums : /\ inodes'[i].ftype = IF i = t THEN kind ELSE inodes[i].ftype
                        /\ inodes'[i].addr = IF i = t THEN addr ELSE inodes[i].addr
    /\ \A b \in Blocks :
          data'[b].dirList = IF b = DirAddr(parent) THEN data[b].dirList \cup {<<name, t>>}
                             ELSE IF kind = "d" /\ b = addr
                                  THEN {<<".", t>>, <<"..", nameToInum[parent]>>}
                             ELSE data[b].dirList

DropsName(path) ==
    LET inum == nameToInum[path]
        last == LastReference(inum)
        pb   == DirAddr(getParent(path))
    IN
    /\ files' = files \ {path} /\ UNCHANGED <<dirs, nameToInum>>
    /\ \A i \in Inums :
          /\ inodes'[i].ftype = IF last /\ i = inum THEN "free" ELSE inodes[i].ftype
          /\ inodes'[i].addr = IF last /\ i = inum THEN -1 ELSE inodes[i].addr
    /\ \A b \in Blocks :
          data'[b].dirList = IF b = pb THEN data[b].dirList \ {<<LastName(path), inum>>}
                             ELSE data[b].dirList

WritesFile(path, fblock) ==
    /\ inodes[nameToInum[path]].addr = -1 /\ fblock \in Blocks
    /\ UNCHANGED <<files, dirs, nameToInum>>
    /\ \A i \in Inums : /\ inodes'[i].ftype = inodes[i].ftype
                        /\ inodes'[i].addr = IF i = nameToInum[path] THEN fblock
                                             ELSE inodes[i].addr
    /\ \A b \in Blocks : data'[b].dirList = data[b].dirList

\* createLink keeps the invariant.
LEMMA LinkKeeps ==
    ASSUME IInv, NEW target \in files, NEW parent \in Parents, NEW name \in Names,
           HasRoomFor(parent, name), createLink(target, parent, name),
           UNCHANGED <<numInodes, numData>>
    PROVE  IInv' /\ AddsName(parent, name, nameToInum[target], "f", inodes[nameToInum[target]].addr)
<1> DEFINE t == nameToInum[target]
           pb == DirAddr(parent)
           path == Append(parent, name)
           e == <<name, t>>
<1>1. /\ t \in Inums /\ inodes[t].ftype = "f" /\ inodes[t].refCnt \in Int
      /\ parent \in dirs /\ path \in Paths /\ path # <<>> /\ path \notin files \cup dirs
      /\ getParent(path) = parent /\ LastName(path) = name
  BY NewName, Records DEF IInv, Typed, Remembered
<1>2. /\ pb \in Blocks /\ data[pb].ftype = "d"
      /\ Inums' = Inums /\ Blocks' = Blocks
  BY <1>1, DirectoryBlock DEF Inums, Blocks
<1> DEFINE node == [inodes[t] EXCEPT !.refCnt = @ + 1]
           block == addDirEntry(data[pb], name, t)
<1>13. /\ node \in InodeRecords /\ node.ftype = inodes[t].ftype
       /\ node.addr = inodes[t].addr /\ node.refCnt = inodes[t].refCnt + 1
       /\ block \in BlockRecords /\ block.ftype = data[pb].ftype
       /\ block.dirList = data[pb].dirList \cup {e} /\ block.dirUsed = data[pb].dirUsed + 1
  <2>1. /\ inodes[t] \in InodeRecords /\ data[pb] \in BlockRecords
        /\ name \in Names \cup Dots
    BY <1>1, <1>2, Records
  <2>2. /\ node \in InodeRecords /\ node.ftype = inodes[t].ftype
        /\ node.addr = inodes[t].addr /\ node.refCnt = inodes[t].refCnt + 1
    BY <2>1, InodeUpdates
  <2>3. /\ block \in BlockRecords /\ block.ftype = data[pb].ftype
        /\ block.dirList = data[pb].dirList \cup {e} /\ block.dirUsed = data[pb].dirUsed + 1
    BY <1>1, <2>1, BlockUpdates
  <2> QED BY <2>2, <2>3
<1>14. inodes' = [inodes EXCEPT ![t] = node] /\ data' = [data EXCEPT ![pb] = block]
  BY DEF createLink
<1>15. /\ inodes \in [Inums -> InodeRecords] /\ data \in [Blocks -> BlockRecords]
       /\ nameToInum \in [Paths -> Inums \cup {-1}] /\ files \subseteq Paths
  BY DEF IInv, Typed
<1>5. /\ UNCHANGED <<ibitmap, dbitmap, dirs>> /\ files' = files \cup {path}
      /\ \A p \in Paths : nameToInum'[p] = IF p = path THEN t ELSE nameToInum[p]
  BY <1>1, <1>15 DEF createLink
<1> HIDE DEF node, block
<1>3. \A i \in Inums :
         /\ inodes'[i].ftype = inodes[i].ftype /\ inodes'[i].addr = inodes[i].addr
         /\ inodes'[i].refCnt = IF i = t THEN inodes[i].refCnt + 1 ELSE inodes[i].refCnt
  BY <1>1, <1>13, <1>14, <1>15
<1>4. \A b \in Blocks :
         /\ data'[b].ftype = data[b].ftype
         /\ data'[b].dirList = IF b = pb THEN data[b].dirList \cup {e} ELSE data[b].dirList
         /\ data'[b].dirUsed = IF b = pb THEN data[b].dirUsed + 1 ELSE data[b].dirUsed
  BY <1>2, <1>13, <1>14, <1>15
<1>6. Typed'
  <2>1. inodes' \in [Inums -> InodeRecords] /\ data' \in [Blocks -> BlockRecords]
    BY <1>1, <1>2, <1>13, <1>14, <1>15
  <2>2. nameToInum' \in [Paths -> Inums \cup {-1}]
    BY <1>1, <1>15 DEF createLink
  <2>3. InodeRecords' = InodeRecords /\ BlockRecords' = BlockRecords
    BY <1>2 DEF InodeRecords, BlockRecords
  <2> QED BY <1>1, <1>2, <1>5, <2>1, <2>2, <2>3 DEF IInv, Typed
<1>7. Marks'
  <2>1. {i \in Inums : inodes'[i].ftype # "free"} = {i \in Inums : inodes[i].ftype # "free"}
    BY <1>3
  <2>2. {b \in Blocks : data'[b].ftype # "free"} = {b \in Blocks : data[b].ftype # "free"}
    BY <1>4
  <2> QED BY <1>2, <1>5, <2>1, <2>2 DEF IInv, Marks
<1>8. Owners'
  <2>1. \A i \in Inums : inodes[i].addr # -1 => data'[inodes[i].addr].ftype = data[inodes[i].addr].ftype
    BY <1>4, Records
  <2>2. \A i \in Inums :
           /\ inodes'[i].addr # -1 =>
                 /\ inodes'[i].ftype # "free"
                 /\ data'[inodes'[i].addr].ftype = inodes'[i].ftype
           /\ inodes'[i].ftype = "d" => inodes'[i].addr # -1
    BY <1>3, <2>1 DEF IInv, Owners
  <2>3. \A i, j \in Inums : i # j /\ inodes'[i].addr = inodes'[j].addr => inodes'[i].addr = -1
    BY <1>3 DEF IInv, Owners
  <2>4. ASSUME NEW b \in Blocks, data'[b].ftype # "free" PROVE \E i \in Inums : inodes'[i].addr = b
    <3>1. PICK i \in Inums : inodes[i].addr = b
      BY <1>4, <2>4 DEF IInv, Owners
    <3> QED BY <1>3, <3>1
  <2> QED BY <1>2, <2>2, <2>3, <2>4 DEF Owners
<1>9. Lists'
  <2>1. e[2] = t /\ \A b \in Blocks : \A d \in data[b].dirList : d[2] \in Inums
    BY Records
  <2>2. ASSUME NEW b \in Blocks
        PROVE  /\ IsFiniteSet(data'[b].dirList)
               /\ data'[b].dirUsed = Cardinality(data'[b].dirList) /\ data'[b].dirUsed <= MaxUsed
               /\ \A c, d \in data'[b].dirList : c[1] = d[1] => c = d
               /\ \A d \in data'[b].dirList : inodes'[d[2]].ftype # "free"
               /\ data'[b].ftype # "d" => data'[b].dirList = {}
    <3>1. CASE b = pb
      <4>1. \A d \in data'[b].dirList : inodes'[d[2]].ftype # "free"
        <5> HIDE DEF e
        <5>1. inodes'[t].ftype # "free"
          BY <1>1, <1>3
        <5>2. \A d \in data[pb].dirList : inodes'[d[2]].ftype # "free"
          BY <1>2, <1>3, <2>1 DEF IInv, Lists
        <5> QED BY <1>4, <2>1, <3>1, <5>1, <5>2
      <4>2. LET new == data[pb].dirList \cup {e} IN
               /\ IsFiniteSet(new) /\ Cardinality(new) = data[pb].dirUsed + 1
               /\ data[pb].dirUsed + 1 <= MaxUsed
               /\ \A c, d \in new : c[1] = d[1] => c = d
        BY <1>1, RoomForEntry, ZenonT(40)
      <4> QED BY <1>2, <1>4, <3>1, <4>1, <4>2
    <3>2. CASE b # pb
      BY <1>3, <1>4, <2>1, <3>2, ZenonT(40) DEF IInv, Lists
    <3> QED BY <3>1, <3>2
  <2> QED BY <1>2, <2>2 DEF Lists
<1>10. Remembered'
  <2>1. \A b \in Blocks : data[b].dirList \subseteq data'[b].dirList
    BY <1>4
  <2>2. <<LastName(path), t>> \in data'[DirAddr(parent)].dirList
    BY <1>1, <1>2, <1>4
  <2>3. \A i \in Inums : inodes[i].ftype # "free" =>
              inodes'[i].ftype = inodes[i].ftype /\ inodes'[i].addr = inodes[i].addr
    BY <1>3
  <2>4. files' = files \cup {path} /\ dirs' = dirs /\ inodes'[t].ftype = "f"
    BY <1>1, <1>3, <1>5
  <2> HIDE DEF path, t
  <2> QED BY <1>1, <1>5, <2>1, <2>2, <2>3, <2>4, NameAdded
<1>11. Links'
  <2>1. e \notin data[pb].dirList /\ e[2] = t
    BY <1>1, RoomForEntry
  <2> HIDE DEF e
  <2>2. /\ <<pb, e>> \notin EntriesOf(t)
        /\ \A i : EntriesOf(i)' = IF i = t THEN EntriesOf(i) \cup {<<pb, e>>} ELSE EntriesOf(i)
    BY <1>2, <1>4, <2>1, EntryAdded
  <2>3. ASSUME NEW i \in Inums
        PROVE  /\ IsFiniteSet(EntriesOf(i)')
               /\ inodes'[i].ftype # "free" => inodes'[i].refCnt = Cardinality(EntriesOf(i)')
    <3>1. IsFiniteSet(EntriesOf(i))
          /\ (inodes[i].ftype # "free" => inodes[i].refCnt = Cardinality(EntriesOf(i)))
      BY DEF IInv, Links
    <3>2. CASE i = t
      <4>1. IsFiniteSet(EntriesOf(i)') /\ Cardinality(EntriesOf(i)') = Cardinality(EntriesOf(i)) + 1
        BY <2>2, <3>1, <3>2, FS_AddElement
      <4> QED BY <1>3, <3>1, <3>2, <4>1
    <3>3. CASE i # t
      BY <1>3, <2>2, <3>1, <3>3
    <3> QED BY <3>2, <3>3
  <2> QED BY <1>2, <2>3 DEF Links
<1>16. AddsName(parent, name, t, "f", inodes[t].addr)
  <2> HIDE DEF path, e
  <2> QED BY <1>1, <1>3, <1>4, <1>5 DEF AddsName, path, e
<1> QED BY <1>6, <1>7, <1>8, <1>9, <1>10, <1>11, <1>16 DEF IInv

-----------------------------------------------------------------------------
\* A bitmap counts its marks when one is set or cleared.
LEMMA BitmapUpdates ==
    ASSUME NEW size \in Nat, NEW bitmap \in [used : SUBSET (0 .. size - 1), numAllocated : Int],
           bitmap.numAllocated = Cardinality(bitmap.used), NEW n \in 0 .. size - 1
    PROVE  /\ n \notin bitmap.used =>
                /\ Marked(bitmap, n) \in [used : SUBSET (0 .. size - 1), numAllocated : Int]
                /\ Marked(bitmap, n).used = bitmap.used \cup {n}
                /\ Marked(bitmap, n).numAllocated = Cardinality(Marked(bitmap, n).used)
           /\ n \in bitmap.used =>
                /\ Cleared(bitmap, n) \in [used : SUBSET (0 .. size - 1), numAllocated : Int]
                /\ Cleared(bitmap, n).used = bitmap.used \ {n}
                /\ Cleared(bitmap, n).numAllocated = Cardinality(Cleared(bitmap, n).used)
<1>1. IsFiniteSet(bitmap.used) /\ bitmap.used \subseteq 0 .. size - 1
  <2>1. IsFiniteSet(0 .. size - 1)
    BY FS_Interval
  <2> QED BY <2>1, FS_Subset
<1>2. ASSUME n \notin bitmap.used
      PROVE  Cardinality(bitmap.used \cup {n}) = bitmap.numAllocated + 1
  BY <1>1, <1>2, FS_AddElement
<1>3. ASSUME n \in bitmap.used
      PROVE  Cardinality(bitmap.used \ {n}) = bitmap.numAllocated - 1
  BY <1>1, <1>3, FS_RemoveElement
<1>4. bitmap.numAllocated \in Int
  OBVIOUS
<1> QED BY <1>1, <1>2, <1>3, <1>4 DEF Marked, Cleared

\* The same of the two bitmaps.
LEMMA InodeBitmapUpdates ==
    ASSUME IInv, NEW n \in Inums
    PROVE  /\ n \notin ibitmap.used =>
                /\ Marked(ibitmap, n) \in [used : SUBSET Inums, numAllocated : Int]
                /\ Marked(ibitmap, n).used = ibitmap.used \cup {n}
                /\ Marked(ibitmap, n).numAllocated = Cardinality(Marked(ibitmap, n).used)
           /\ n \in ibitmap.used =>
                /\ Cleared(ibitmap, n) \in [used : SUBSET Inums, numAllocated : Int]
                /\ Cleared(ibitmap, n).used = ibitmap.used \ {n}
                /\ Cleared(ibitmap, n).numAllocated = Cardinality(Cleared(ibitmap, n).used)
<1>1. numInodes \in Nat /\ Inums = 0 .. numInodes - 1
  BY DEF IInv, Typed, Inums
<1>2. ibitmap \in [used : SUBSET Inums, numAllocated : Int]
  BY DEF IInv, Typed
<1>3. ibitmap.numAllocated = Cardinality(ibitmap.used)
  BY DEF IInv, Marks
<1> QED BY <1>1, <1>2, <1>3, BitmapUpdates

\* A data block taken or given back: the bitmap still agrees.
LEMMA BlockBitmapUpdates ==
    ASSUME IInv, NEW n \in Blocks
    PROVE  /\ n \notin dbitmap.used =>
                /\ Marked(dbitmap, n) \in [used : SUBSET Blocks, numAllocated : Int]
                /\ Marked(dbitmap, n).used = dbitmap.used \cup {n}
                /\ Marked(dbitmap, n).numAllocated = Cardinality(Marked(dbitmap, n).used)
           /\ n \in dbitmap.used =>
                /\ Cleared(dbitmap, n) \in [used : SUBSET Blocks, numAllocated : Int]
                /\ Cleared(dbitmap, n).used = dbitmap.used \ {n}
                /\ Cleared(dbitmap, n).numAllocated = Cardinality(Cleared(dbitmap, n).used)
<1>1. numData \in Nat /\ Blocks = 0 .. numData - 1
  BY DEF IInv, Typed, Blocks
<1>2. dbitmap \in [used : SUBSET Blocks, numAllocated : Int]
  BY DEF IInv, Typed
<1>3. dbitmap.numAllocated = Cardinality(dbitmap.used)
  BY DEF IInv, Marks
<1> QED BY <1>1, <1>2, <1>3, BitmapUpdates

\* An inode number that alloc returns belongs to nothing.
LEMMA NewInum ==
    ASSUME IInv, NEW n, n = alloc(ibitmap, numInodes), n # -1
    PROVE  /\ n \in Inums /\ n \notin ibitmap.used
           /\ inodes[n].ftype = "free" /\ inodes[n].addr = -1 /\ EntriesOf(n) = {}
<1>1. n \in FreeNumbers(ibitmap, numInodes)
  BY AllocFree, Records
<1>2. n \in Inums /\ n \notin ibitmap.used /\ inodes[n].ftype = "free"
  BY <1>1 DEF FreeNumbers, Inums, IInv, Marks
<1>3. inodes[n].addr = -1
  BY <1>2 DEF IInv, Owners
<1>4. EntriesOf(n) = {}
  <2>1. ASSUME NEW x \in EntriesOf(n) PROVE FALSE
    <3>1. PICK b \in Blocks : \E e \in data[b].dirList : e[2] = n
      BY <2>1, EntriesAre
    <3> QED BY <1>2, <3>1 DEF IInv, Lists
  <2> QED BY <2>1
<1> QED BY <1>2, <1>3, <1>4

\* A block number that alloc returns belongs to nothing.
LEMMA NewBlock ==
    ASSUME IInv, NEW b, b = alloc(dbitmap, numData), b # -1
    PROVE  /\ b \in Blocks /\ b \notin dbitmap.used
           /\ data[b].ftype = "free" /\ data[b].dirList = {}
           /\ \A i \in Inums : inodes[i].addr # b
<1>1. b \in FreeNumbers(dbitmap, numData)
  BY AllocFree, Records
<1>2. b \in Blocks /\ b \notin dbitmap.used /\ data[b].ftype = "free"
  BY <1>1 DEF FreeNumbers, Blocks, IInv, Marks
<1>3. data[b].dirList = {}
  BY <1>2 DEF IInv, Lists
<1>4. \A i \in Inums : inodes[i].addr # b
  BY <1>2, Records DEF IInv, Owners
<1> QED BY <1>2, <1>3, <1>4

\* createFile of a regular file keeps the invariant.
LEMMA RegularKeeps ==
    ASSUME IInv, NEW parent \in Parents, NEW name \in Names, HasRoomFor(parent, name),
           NEW inum, inum = alloc(ibitmap, numInodes), inum # -1,
           createRegular(parent, name, inum), UNCHANGED <<numInodes, numData>>
    PROVE  IInv' /\ AddsName(parent, name, inum, "f", -1)
<1> DEFINE pb == DirAddr(parent)
           path == Append(parent, name)
           e == <<name, inum>>
           block == addDirEntry(data[pb], name, inum)
           node == [ftype |-> "f", addr |-> -1, refCnt |-> 1]
<1>1. /\ inum \in Inums /\ inum \notin ibitmap.used
      /\ inodes[inum].ftype = "free" /\ inodes[inum].addr = -1 /\ EntriesOf(inum) = {}
      /\ parent \in dirs /\ path \in Paths /\ path # <<>> /\ path \notin files \cup dirs
      /\ getParent(path) = parent /\ LastName(path) = name
  BY NewName, NewInum
<1>2. /\ pb \in Blocks /\ data[pb].ftype = "d"
      /\ Inums' = Inums /\ Blocks' = Blocks
  BY <1>1, DirectoryBlock DEF Inums, Blocks
<1>3. /\ block \in BlockRecords /\ block.ftype = data[pb].ftype
      /\ block.dirList = data[pb].dirList \cup {e} /\ block.dirUsed = data[pb].dirUsed + 1
  <2>1. data[pb] \in BlockRecords /\ name \in Names \cup Dots
    BY <1>2, Records
  <2> QED BY <1>1, <2>1, BlockUpdates
<1>4. node \in InodeRecords /\ node.ftype = "f" /\ node.addr = -1 /\ node.refCnt = 1
  BY DEF InodeRecords, Kinds
<1>5. inodes' = [inodes EXCEPT ![inum] = node] /\ data' = [data EXCEPT ![pb] = block]
  BY DEF createRegular
<1>6. /\ inodes \in [Inums -> InodeRecords] /\ data \in [Blocks -> BlockRecords]
      /\ nameToInum \in [Paths -> Inums \cup {-1}] /\ files \subseteq Paths
  BY DEF IInv, Typed
<1>7. /\ UNCHANGED <<dbitmap, dirs>> /\ files' = files \cup {path}
      /\ \A p \in Paths : nameToInum'[p] = IF p = path THEN inum ELSE nameToInum[p]
  BY <1>1, <1>6 DEF createRegular
<1> HIDE DEF node, block
<1>8. \A i \in Inums :
         /\ inodes'[i].ftype = IF i = inum THEN "f" ELSE inodes[i].ftype
         /\ inodes'[i].addr = inodes[i].addr
         /\ inodes'[i].refCnt = IF i = inum THEN 1 ELSE inodes[i].refCnt
  BY <1>1, <1>4, <1>5, <1>6
<1>9. \A b \in Blocks :
         /\ data'[b].ftype = data[b].ftype
         /\ data'[b].dirList = IF b = pb THEN data[b].dirList \cup {e} ELSE data[b].dirList
         /\ data'[b].dirUsed = IF b = pb THEN data[b].dirUsed + 1 ELSE data[b].dirUsed
  BY <1>2, <1>3, <1>5, <1>6
<1>10. /\ ibitmap' \in [used : SUBSET Inums, numAllocated : Int]
       /\ ibitmap'.used = ibitmap.used \cup {inum}
       /\ ibitmap'.numAllocated = Cardinality(ibitmap'.used)
  <2>1. /\ ibitmap \in [used : SUBSET Inums, numAllocated : Int]
        /\ ibitmap.numAllocated = Cardinality(ibitmap.used) /\ numInodes \in Nat
    BY Records DEF IInv, Typed, Marks
  <2>2. ibitmap' = Marked(ibitmap, inum)
    BY DEF createRegular
  <2> QED BY <1>1, <2>1, <2>2, InodeBitmapUpdates
<1>11. Typed'
  <2>1. inodes' \in [Inums -> InodeRecords] /\ data' \in [Blocks -> BlockRecords]
    BY <1>1, <1>2, <1>3, <1>4, <1>5, <1>6
  <2>2. nameToInum' \in [Paths -> Inums \cup {-1}]
    BY <1>1, <1>6 DEF createRegular
  <2>3. InodeRecords' = InodeRecords /\ BlockRecords' = BlockRecords
    BY <1>2 DEF InodeRecords, BlockRecords
  <2> QED BY <1>1, <1>2, <1>7, <1>10, <2>1, <2>2, <2>3 DEF IInv, Typed
<1>12. Marks'
  <2>1. {i \in Inums : inodes'[i].ftype # "free"}
           = {i \in Inums : inodes[i].ftype # "free"} \cup {inum}
    BY <1>1, <1>8
  <2>2. {b \in Blocks : data'[b].ftype # "free"} = {b \in Blocks : data[b].ftype # "free"}
    BY <1>9
  <2> QED BY <1>2, <1>7, <1>10, <2>1, <2>2 DEF IInv, Marks
<1>13. Owners'
  <2>1. \A i \in Inums : inodes[i].addr # -1 =>
           i # inum /\ data'[inodes[i].addr].ftype = data[inodes[i].addr].ftype
    BY <1>1, <1>9, Records
  <2>2. \A i \in Inums :
           /\ inodes'[i].addr # -1 =>
                 /\ inodes'[i].ftype # "free"
                 /\ data'[inodes'[i].addr].ftype = inodes'[i].ftype
           /\ inodes'[i].ftype = "d" => inodes'[i].addr # -1
    BY <1>8, <2>1 DEF IInv, Owners
  <2>3. \A i, j \in Inums : i # j /\ inodes'[i].addr = inodes'[j].addr => inodes'[i].addr = -1
    BY <1>8 DEF IInv, Owners
  <2>4. ASSUME NEW b \in Blocks, data'[b].ftype # "free" PROVE \E i \in Inums : inodes'[i].addr = b
    <3>1. PICK i \in Inums : inodes[i].addr = b
      BY <1>9, <2>4 DEF IInv, Owners
    <3> QED BY <1>8, <3>1
  <2> QED BY <1>2, <2>2, <2>3, <2>4 DEF Owners
<1>14. Lists'
  <2>1. e[2] = inum /\ \A b \in Blocks : \A d \in data[b].dirList : d[2] \in Inums
    BY Records
  <2>2. ASSUME NEW b \in Blocks, NEW d \in data[b].dirList PROVE inodes'[d[2]].ftype # "free"
    <3>1. d[2] \in Inums /\ inodes[d[2]].ftype # "free"
      BY <2>1 DEF IInv, Lists
    <3> QED BY <1>8, <3>1
  <2>3. inodes'[e[2]].ftype # "free"
    BY <1>1, <1>8, <2>1
  <2>4. ASSUME NEW b \in Blocks
        PROVE  /\ IsFiniteSet(data'[b].dirList)
               /\ data'[b].dirUsed = Cardinality(data'[b].dirList) /\ data'[b].dirUsed <= MaxUsed
               /\ \A c, d \in data'[b].dirList : c[1] = d[1] => c = d
               /\ \A d \in data'[b].dirList : inodes'[d[2]].ftype # "free"
               /\ data'[b].ftype # "d" => data'[b].dirList = {}
    <3>1. CASE b = pb
      <4>1. LET new == data[pb].dirList \cup {e} IN
               /\ IsFiniteSet(new) /\ Cardinality(new) = data[pb].dirUsed + 1
               /\ data[pb].dirUsed + 1 <= MaxUsed
               /\ \A c, d \in new : c[1] = d[1] => c = d
        BY <1>1, RoomForEntry, ZenonT(40)
      <4> HIDE DEF e
      <4> QED BY <1>2, <1>9, <2>2, <2>3, <3>1, <4>1
    <3>2. CASE b # pb
      BY <1>9, <2>2, <3>2 DEF IInv, Lists
    <3> QED BY <3>1, <3>2
  <2> QED BY <1>2, <2>4 DEF Lists
<1>15. Remembered'
  <2>1. \A b \in Blocks : data[b].dirList \subseteq data'[b].dirList
    BY <1>9
  <2>2. <<LastName(path), inum>> \in data'[DirAddr(parent)].dirList
    BY <1>1, <1>2, <1>9
  <2>3. \A i \in Inums : inodes[i].ftype # "free" =>
              inodes'[i].ftype = inodes[i].ftype /\ inodes'[i].addr = inodes[i].addr
    BY <1>1, <1>8
  <2>4. files' = files \cup {path} /\ dirs' = dirs /\ inodes'[inum].ftype = "f"
    BY <1>1, <1>7, <1>8
  <2> HIDE DEF path
  <2> QED BY <1>1, <1>7, <2>1, <2>2, <2>3, <2>4, NameAdded
<1>16. Links'
  <2>1. e \notin data[pb].dirList /\ e[2] = inum
    BY <1>1, RoomForEntry
  <2> HIDE DEF e
  <2>2. /\ <<pb, e>> \notin EntriesOf(inum)
        /\ \A i : EntriesOf(i)' = IF i = inum THEN EntriesOf(i) \cup {<<pb, e>>} ELSE EntriesOf(i)
    BY <1>2, <1>9, <2>1, EntryAdded
  <2>3. ASSUME NEW i \in Inums
        PROVE  /\ IsFiniteSet(EntriesOf(i)')
               /\ inodes'[i].ftype # "free" => inodes'[i].refCnt = Cardinality(EntriesOf(i)')
    <3>1. CASE i = inum
      <4>1. EntriesOf(i)' = {<<pb, e>>}
        BY <1>1, <2>2, <3>1
      <4> QED BY <1>8, <3>1, <4>1, FS_Singleton
    <3>2. CASE i # inum
      BY <1>8, <2>2, <3>2 DEF IInv, Links
    <3> QED BY <3>1, <3>2
  <2> QED BY <1>2, <2>3 DEF Links
<1>17. AddsName(parent, name, inum, "f", -1)
  BY <1>1, <1>7, <1>8, <1>9 DEF AddsName
<1> QED BY <1>11, <1>12, <1>13, <1>14, <1>15, <1>16, <1>17 DEF IInv

\* writeFile keeps the invariant.
LEMMA AppendKeeps ==
    ASSUME IInv, NEW path \in files, NEW fblock, fblock = alloc(dbitmap, numData),
           writeFile(nameToInum[path], fblock),
           dbitmap' = Marked(dbitmap, fblock),
           data' = [data EXCEPT ![fblock] = FileBlock],
           inodes' = [inodes EXCEPT ![nameToInum[path]].addr = fblock],
           UNCHANGED <<ibitmap, files, dirs, nameToInum, numInodes, numData>>
    PROVE  IInv' /\ WritesFile(path, fblock)
<1> DEFINE inum == nameToInum[path]
           node == [inodes[inum] EXCEPT !.addr = fblock]
<1>1. inum \in Inums /\ inodes[inum].ftype = "f" /\ inodes[inum].addr = -1
  BY Records DEF IInv, Typed, Remembered, writeFile
<1>2. /\ fblock \in Blocks /\ fblock # -1 /\ fblock \notin dbitmap.used
      /\ data[fblock].ftype = "free" /\ data[fblock].dirList = {}
      /\ \A i \in Inums : inodes[i].addr # fblock
      /\ Inums' = Inums /\ Blocks' = Blocks
  BY NewBlock DEF writeFile, Inums, Blocks
<1>3. /\ node \in InodeRecords /\ node.ftype = "f"
      /\ node.addr = fblock /\ node.refCnt = inodes[inum].refCnt
  <2>1. inodes[inum] \in InodeRecords
    BY <1>1, Records
  <2> QED BY <1>1, <1>2, <2>1, InodeUpdates
<1>4. /\ FileBlock \in BlockRecords /\ FileBlock.ftype = "f"
      /\ FileBlock.dirList = {} /\ FileBlock.dirUsed = 0
  <2>1. FileBlock = [ftype |-> "f", dirList |-> {}, dirUsed |-> 0]
    BY DEF FileBlock, FreeBlock
  <2> QED BY <2>1 DEF BlockRecords, Kinds
<1>5. inodes \in [Inums -> InodeRecords] /\ data \in [Blocks -> BlockRecords]
  BY DEF IInv, Typed
<1>6. inodes' = [inodes EXCEPT ![inum] = node]
  OBVIOUS
<1> HIDE DEF node
<1>7. \A i \in Inums :
         /\ inodes'[i].ftype = inodes[i].ftype
         /\ inodes'[i].addr = IF i = inum THEN fblock ELSE inodes[i].addr
         /\ inodes'[i].refCnt = inodes[i].refCnt
  BY <1>1, <1>3, <1>5, <1>6
<1>8. \A b \in Blocks :
         /\ data'[b].ftype = IF b = fblock THEN "f" ELSE data[b].ftype
         /\ data'[b].dirList = data[b].dirList
         /\ data'[b].dirUsed = IF b = fblock THEN 0 ELSE data[b].dirUsed
  BY <1>2, <1>4, <1>5
<1>9. /\ dbitmap' \in [used : SUBSET Blocks, numAllocated : Int]
      /\ dbitmap'.used = dbitmap.used \cup {fblock}
      /\ dbitmap'.numAllocated = Cardinality(dbitmap'.used)
  <2>1. /\ dbitmap \in [used : SUBSET Blocks, numAllocated : Int]
        /\ dbitmap.numAllocated = Cardinality(dbitmap.used) /\ numData \in Nat
    BY Records DEF IInv, Typed, Marks
  <2> QED BY <1>2, <2>1, BlockBitmapUpdates
<1>10. Typed'
  <2>1. inodes' \in [Inums -> InodeRecords] /\ data' \in [Blocks -> BlockRecords]
    BY <1>1, <1>2, <1>3, <1>4, <1>5, <1>6
  <2>2. InodeRecords' = InodeRecords /\ BlockRecords' = BlockRecords
    BY <1>2 DEF InodeRecords, BlockRecords
  <2> QED BY <1>2, <1>9, <2>1, <2>2 DEF IInv, Typed
<1>11. Marks'
  <2>1. {i \in Inums : inodes'[i].ftype # "free"} = {i \in Inums : inodes[i].ftype # "free"}
    BY <1>7
  <2>2. {b \in Blocks : data'[b].ftype # "free"}
           = {b \in Blocks : data[b].ftype # "free"} \cup {fblock}
    BY <1>2, <1>8
  <2> QED BY <1>2, <1>9, <2>1, <2>2 DEF IInv, Marks
<1>12. Owners'
  <2>1. \A i \in Inums : i # inum /\ inodes[i].addr # -1 =>
           data'[inodes[i].addr].ftype = data[inodes[i].addr].ftype
    BY <1>2, <1>8, Records
  <2>2. ASSUME NEW i \in Inums
        PROVE  /\ inodes'[i].addr # -1 =>
                     /\ inodes'[i].ftype # "free"
                     /\ data'[inodes'[i].addr].ftype = inodes'[i].ftype
               /\ inodes'[i].ftype = "d" => inodes'[i].addr # -1
    <3>1. CASE i = inum
      BY <1>1, <1>2, <1>7, <1>8, <3>1
    <3>2. CASE i # inum
      BY <1>7, <2>1, <3>2 DEF IInv, Owners
    <3> QED BY <3>1, <3>2
  <2>3. \A i, j \in Inums : i # j /\ inodes'[i].addr = inodes'[j].addr => inodes'[i].addr = -1
    BY <1>2, <1>7 DEF IInv, Owners
  <2>4. ASSUME NEW b \in Blocks, data'[b].ftype # "free" PROVE \E i \in Inums : inodes'[i].addr = b
    <3>1. CASE b = fblock
      BY <1>1, <1>7, <3>1
    <3>2. CASE b # fblock
      <4>1. PICK i \in Inums : inodes[i].addr = b
        BY <1>8, <2>4, <3>2 DEF IInv, Owners
      <4>2. i # inum
        BY <1>1, <4>1, Records
      <4> QED BY <1>7, <4>1, <4>2
    <3> QED BY <3>1, <3>2
  <2> QED BY <1>2, <2>2, <2>3, <2>4 DEF Owners
<1>13. Lists'
  <2>1. \A b \in Blocks : \A d \in data[b].dirList :
           d[2] \in Inums /\ inodes'[d[2]].ftype = inodes[d[2]].ftype
    BY <1>7, Records
  <2>2. ASSUME NEW b \in Blocks
        PROVE  /\ IsFiniteSet(data'[b].dirList)
               /\ data'[b].dirUsed = Cardinality(data'[b].dirList) /\ data'[b].dirUsed <= MaxUsed
               /\ \A c, d \in data'[b].dirList : c[1] = d[1] => c = d
               /\ \A d \in data'[b].dirList : inodes'[d[2]].ftype # "free"
               /\ data'[b].ftype # "d" => data'[b].dirList = {}
    <3>1. CASE b = fblock
      <4>1. data'[b].dirList = {} /\ data'[b].dirUsed = 0 /\ 0 <= MaxUsed
        BY <1>2, <1>8, <3>1, VsfsAssumption
      <4> QED BY <4>1, FS_EmptySet
    <3>2. CASE b # fblock
      BY <1>8, <2>1, <3>2 DEF IInv, Lists
    <3> QED BY <3>1, <3>2
  <2> QED BY <1>2, <2>2 DEF Lists
<1>14. Remembered'
  <2>1. ASSUME NEW d \in dirs
        PROVE  /\ nameToInum[d] \in Inums /\ nameToInum[d] # -1
               /\ inodes'[nameToInum[d]].ftype = "d" /\ DirAddr(d)' = DirAddr(d)
               /\ data'[DirAddr(d)].dirList = data[DirAddr(d)].dirList
    <3>1. /\ nameToInum[d] \in Inums /\ nameToInum[d] # -1 /\ inodes[nameToInum[d]].ftype = "d"
          /\ DirAddr(d) \in Blocks
      BY DirectoryBlock, Records DEF IInv, Remembered
    <3>2. nameToInum[d] # inum
      BY <1>1, <3>1
    <3> QED BY <1>7, <1>8, <3>1, <3>2 DEF DirAddr
  <2>2. \A f \in files : nameToInum[f] # -1 /\ inodes'[nameToInum[f]].ftype = "f"
    BY <1>7 DEF IInv, Typed, Remembered
  <2>3. \A p \in files \cup dirs : p # <<>> =>
          /\ getParent(p) \in dirs
          /\ <<LastName(p), nameToInum[p]>> \in data'[DirAddr(getParent(p))'].dirList
    BY <2>1 DEF IInv, Remembered
  <2>4. \A d, e \in dirs : d # e => nameToInum[d] # nameToInum[e]
    BY DEF IInv, Remembered
  <2>5. files \cap dirs = {}
    BY DEF IInv, Remembered
  <2> QED BY <2>1, <2>2, <2>3, <2>4, <2>5 DEF Remembered, DirAddr
<1>15. Links'
  <2>1. ASSUME NEW i, NEW x PROVE x \in EntriesOf(i)' <=> x \in EntriesOf(i)
    <3>1. \A b \in Blocks : data[b].dirList # {} => data'[b].ftype = data[b].ftype
      BY <1>2, <1>8
    <3> QED BY <1>8, <3>1, EntriesAre, EntriesAreAfter
  <2>2. ASSUME NEW i PROVE EntriesOf(i)' = EntriesOf(i)
    <3>1. EntriesOf(i)' \subseteq EntriesOf(i) /\ EntriesOf(i) \subseteq EntriesOf(i)'
      BY <2>1
    <3> QED BY <3>1
  <2> QED BY <1>2, <1>7, <2>2 DEF IInv, Links
<1>16. WritesFile(path, fblock)
  BY <1>1, <1>2, <1>7, <1>8 DEF WritesFile
<1> QED BY <1>10, <1>11, <1>12, <1>13, <1>14, <1>15, <1>16 DEF IInv

-----------------------------------------------------------------------------
\* One entry fewer.  Blocks may change their kind if they hold no entries.
LEMMA EntryRemoved ==
    ASSUME UNCHANGED numData, NEW pb \in Blocks, data[pb].ftype = "d",
           NEW e \in data[pb].dirList,
           \A b \in Blocks :
              /\ data'[b].ftype = "d" <=> data[b].ftype = "d"
              /\ data'[b].dirList = IF b = pb THEN data[b].dirList \ {e} ELSE data[b].dirList
    PROVE  /\ <<pb, e>> \in EntriesOf(e[2])
           /\ \A i : EntriesOf(i)' =
                 IF i = e[2] THEN EntriesOf(i) \ {<<pb, e>>} ELSE EntriesOf(i)
<1>1. ASSUME NEW i, NEW x
      PROVE  x \in EntriesOf(i)' <=> x \in EntriesOf(i) /\ ~(i = e[2] /\ x = <<pb, e>>)
  <2>1. x \in EntriesOf(i) <=>
          \E b \in Blocks : \E d \in data[b].dirList :
             data[b].ftype = "d" /\ x = <<b, d>> /\ d[2] = i
    BY EntriesAre
  <2>2. x \in EntriesOf(i)' <=>
          \E b \in Blocks : \E d \in data'[b].dirList :
             data'[b].ftype = "d" /\ x = <<b, d>> /\ d[2] = i
    BY EntriesAreAfter
  <2>3. ASSUME NEW b \in Blocks, NEW d \in data'[b].dirList,
               data'[b].ftype = "d", x = <<b, d>>, d[2] = i
        PROVE  x \in EntriesOf(i) /\ ~(i = e[2] /\ x = <<pb, e>>)
    <3>1. d \in data[b].dirList /\ data[b].ftype = "d" /\ (b = pb => d # e)
      BY <2>3
    <3>2. x # <<pb, e>>
      BY <2>3, <3>1
    <3> QED BY <2>1, <2>3, <3>1, <3>2
  <2>4. ASSUME NEW b \in Blocks, NEW d \in data[b].dirList,
               data[b].ftype = "d", x = <<b, d>>, d[2] = i, ~(i = e[2] /\ x = <<pb, e>>)
        PROVE  x \in EntriesOf(i)'
    <3>1. ~(b = pb /\ d = e)
      BY <2>4
    <3>2. d \in data'[b].dirList /\ data'[b].ftype = "d"
      BY <2>4, <3>1
    <3> QED BY <2>2, <2>4, <3>2
  <2> QED BY <2>1, <2>2, <2>3, <2>4
<1>2. <<pb, e>> \in EntriesOf(e[2])
  BY EntriesAre
<1>3. ASSUME NEW i, i = e[2] PROVE EntriesOf(i)' = EntriesOf(i) \ {<<pb, e>>}
  <2>1. \A x : x \in EntriesOf(i)' <=> x \in EntriesOf(i) \ {<<pb, e>>}
    BY <1>1, <1>3
  <2> QED BY <2>1
<1>4. ASSUME NEW i, i # e[2] PROVE EntriesOf(i)' = EntriesOf(i)
  <2>1. EntriesOf(i)' \subseteq EntriesOf(i) /\ EntriesOf(i) \subseteq EntriesOf(i)'
    BY <1>1, <1>4
  <2> QED BY <2>1
<1> QED BY <1>2, <1>3, <1>4

\* deleteFile keeps the invariant.
LEMMA DeleteKeeps ==
    ASSUME IInv, NEW path \in files, deleteFile(path), UNCHANGED <<numInodes, numData>>
    PROVE  IInv' /\ DropsName(path)
<1> DEFINE inum == nameToInum[path]
           addr == inodes[inum].addr
           pb == DirAddr(getParent(path))
           name == LastName(path)
           e == <<name, inum>>
           last == LastReference(inum)
           node == IF last THEN FreedInode(inodes[inum])
                   ELSE decRefCnt(inodes[inum])
           block == delDirEntry(data[pb], name)
           entryGone == [data EXCEPT ![pb] = block]
<1>1. /\ inum \in Inums /\ inodes[inum].ftype = "f" /\ inodes[inum].refCnt \in Int
      /\ path \in Paths /\ path # <<>> /\ getParent(path) \in dirs
      /\ e \in data[pb].dirList /\ e[2] = inum /\ e[1] = name
  BY Records DEF IInv, Typed, Remembered
<1>2. /\ pb \in Blocks /\ data[pb].ftype = "d"
      /\ Inums' = Inums /\ Blocks' = Blocks
  BY <1>1, DirectoryBlock DEF Inums, Blocks
<1>3. addr # -1 =>
         /\ addr \in Blocks /\ addr # pb /\ data[addr].ftype = "f"
         /\ data[addr].dirList = {} /\ data[addr].dirUsed = 0
  <2>1. addr \in Blocks \cup {-1} /\ (addr # -1 => data[addr].ftype = "f")
    BY <1>1, Records DEF IInv, Owners
  <2>2. addr # -1 => data[addr].dirList = {} /\ data[addr].dirUsed = Cardinality({})
    BY <2>1 DEF IInv, Lists
  <2> QED BY <1>2, <2>1, <2>2, FS_EmptySet
<1>4. {c \in data[pb].dirList : c[1] # name} = data[pb].dirList \ {e}
  <2>1. \A c \in data[pb].dirList : c[1] = name => c = e
    BY <1>1, <1>2 DEF IInv, Lists
  <2> HIDE DEF e
  <2> QED BY <1>1, <2>1
<1>5. /\ node \in InodeRecords
      /\ node.ftype = (IF last THEN "free" ELSE "f")
      /\ node.addr = (IF last THEN -1 ELSE addr)
      /\ ~last => node.refCnt = inodes[inum].refCnt - 1
  <2>1. inodes[inum] \in InodeRecords
    BY <1>1, Records
  <2>2. CASE last
    BY <2>1, <2>2, InodeUpdates
  <2>3. CASE ~last
    BY <1>1, <2>1, <2>3, InodeUpdates
  <2> QED BY <2>2, <2>3
<1>6. /\ block \in BlockRecords /\ block.ftype = "d"
      /\ block.dirList = data[pb].dirList \ {e} /\ block.dirUsed = data[pb].dirUsed - 1
  <2>1. data[pb] \in BlockRecords /\ name \in Names \cup Dots
    BY <1>1, <1>2, Records
  <2> QED BY <1>1, <1>2, <1>4, <2>1, BlockUpdates
<1>7. FreeBlock \in BlockRecords /\ FreeBlock.ftype = "free"
      /\ FreeBlock.dirList = {} /\ FreeBlock.dirUsed = 0
  BY DEF FreeBlock, BlockRecords, Kinds
<1>8. /\ inodes \in [Inums -> InodeRecords] /\ data \in [Blocks -> BlockRecords]
      /\ files \subseteq Paths
  BY DEF IInv, Typed
<1>9. /\ inodes' = [inodes EXCEPT ![inum] = node]
      /\ data' = IF last /\ addr # -1 THEN [entryGone EXCEPT ![addr] = FreeBlock] ELSE entryGone
      /\ ibitmap' = IF last THEN Cleared(ibitmap, inum) ELSE ibitmap
      /\ dbitmap' = IF last /\ addr # -1 THEN Cleared(dbitmap, addr) ELSE dbitmap
      /\ files' = files \ {path} /\ UNCHANGED <<dirs, nameToInum>>
  <2>1. inodes' = [inodes EXCEPT ![inum] = node]
    BY DEF deleteFile
  <2>2. data' = IF last /\ addr # -1 THEN [entryGone EXCEPT ![addr] = FreeBlock] ELSE entryGone
    BY DEF deleteFile
  <2>3. /\ ibitmap' = IF last THEN Cleared(ibitmap, inum) ELSE ibitmap
        /\ dbitmap' = IF last /\ addr # -1 THEN Cleared(dbitmap, addr) ELSE dbitmap
        /\ files' = files \ {path} /\ UNCHANGED <<dirs, nameToInum>>
    BY DEF deleteFile
  <2> QED BY <2>1, <2>2, <2>3
<1>10. last <=> inodes[inum].refCnt = 1
  BY DEF LastReference
<1> HIDE DEF node, block, last
<1>11. entryGone \in [Blocks -> BlockRecords]
       /\ \A b \in Blocks : entryGone[b] = IF b = pb THEN block ELSE data[b]
  BY <1>2, <1>6, <1>8
<1> HIDE DEF entryGone
<1>12. /\ data' \in [Blocks -> BlockRecords]
       /\ \A b \in Blocks : data'[b] = IF last /\ addr # -1 /\ b = addr THEN FreeBlock
                                        ELSE entryGone[b]
  BY <1>3, <1>7, <1>9, <1>11
<1>13. \A i \in Inums :
         /\ inodes'[i].ftype = IF last /\ i = inum THEN "free" ELSE inodes[i].ftype
         /\ inodes'[i].addr = IF last /\ i = inum THEN -1 ELSE inodes[i].addr
         /\ ~(last /\ i = inum) => inodes'[i].refCnt =
                IF i = inum THEN inodes[i].refCnt - 1 ELSE inodes[i].refCnt
  BY <1>1, <1>5, <1>8, <1>9
<1>14. \A b \in Blocks :
         /\ data'[b].ftype = IF last /\ addr # -1 /\ b = addr THEN "free" ELSE data[b].ftype
         /\ data'[b].dirList = IF b = pb THEN data[b].dirList \ {e} ELSE data[b].dirList
         /\ data'[b].dirUsed = IF b = pb THEN data[b].dirUsed - 1 ELSE data[b].dirUsed
  BY <1>2, <1>3, <1>6, <1>7, <1>11, <1>12, ZenonT(40)
<1>15. /\ <<pb, e>> \in EntriesOf(inum)
       /\ \A i : EntriesOf(i)' = IF i = inum THEN EntriesOf(i) \ {<<pb, e>>} ELSE EntriesOf(i)
  <2>1. \A b \in Blocks :
           /\ data'[b].ftype = "d" <=> data[b].ftype = "d"
           /\ data'[b].dirList = IF b = pb THEN data[b].dirList \ {e} ELSE data[b].dirList
    BY <1>3, <1>14
  <2> HIDE DEF e, pb
  <2>2. UNCHANGED numData
    OBVIOUS
  <2>3. /\ <<pb, e>> \in EntriesOf(e[2])
        /\ \A i : EntriesOf(i)' = IF i = e[2] THEN EntriesOf(i) \ {<<pb, e>>} ELSE EntriesOf(i)
    BY <1>1, <1>2, <2>1, <2>2, EntryRemoved
  <2> QED BY <1>1, <2>3
<1>16. /\ IsFiniteSet(EntriesOf(inum))
       /\ Cardinality(EntriesOf(inum)) = inodes[inum].refCnt
       /\ last => EntriesOf(inum) = {<<pb, e>>}
  <2>1. IsFiniteSet(EntriesOf(inum)) /\ Cardinality(EntriesOf(inum)) = inodes[inum].refCnt
    BY <1>1 DEF IInv, Links
  <2>2. ASSUME last PROVE EntriesOf(inum) = {<<pb, e>>}
    <3>1. PICK x : EntriesOf(inum) = {x}
      BY <1>10, <2>1, <2>2, FS_Singleton
    <3> QED BY <1>15, <3>1
  <2> QED BY <2>1, <2>2
<1>17. last => \A b \in Blocks : \A d \in data'[b].dirList : d[2] # inum
  <2>1. ASSUME last, NEW b \in Blocks, NEW d \in data'[b].dirList, d[2] = inum PROVE FALSE
    <3>1. d \in data[b].dirList /\ (b = pb => d # e)
      BY <1>14, <2>1
    <3>2. data[b].ftype = "d"
      BY <3>1 DEF IInv, Lists
    <3>3. <<b, d>> \in EntriesOf(inum)
      BY <2>1, <3>1, <3>2, EntriesAre
    <3>4. <<b, d>> = <<pb, e>>
      BY <1>16, <2>1, <3>3
    <3> QED BY <3>1, <3>4
  <2> QED BY <2>1
<1>18. /\ ibitmap' \in [used : SUBSET Inums, numAllocated : Int]
       /\ ibitmap'.used = IF last THEN ibitmap.used \ {inum} ELSE ibitmap.used
       /\ ibitmap'.numAllocated = Cardinality(ibitmap'.used)
  <2>1. /\ ibitmap \in [used : SUBSET Inums, numAllocated : Int]
        /\ ibitmap.numAllocated = Cardinality(ibitmap.used) /\ numInodes \in Nat
        /\ inum \in ibitmap.used
    BY <1>1, Records DEF IInv, Typed, Marks
  <2>2. CASE last
    <3>1. ibitmap' = Cleared(ibitmap, inum)
      BY <1>9, <2>2
    <3> QED BY <1>1, <2>1, <2>2, <3>1, InodeBitmapUpdates
  <2>3. CASE ~last
    BY <1>9, <2>1, <2>3
  <2> QED BY <2>2, <2>3
<1>19. /\ dbitmap' \in [used : SUBSET Blocks, numAllocated : Int]
       /\ dbitmap'.used = IF last /\ addr # -1 THEN dbitmap.used \ {addr} ELSE dbitmap.used
       /\ dbitmap'.numAllocated = Cardinality(dbitmap'.used)
  <2>1. /\ dbitmap \in [used : SUBSET Blocks, numAllocated : Int]
        /\ dbitmap.numAllocated = Cardinality(dbitmap.used) /\ numData \in Nat
        /\ addr # -1 => addr \in dbitmap.used
    BY <1>3, Records DEF IInv, Typed, Marks
  <2>2. CASE last /\ addr # -1
    <3>1. dbitmap' = Cleared(dbitmap, addr) /\ addr \in Blocks
      BY <1>3, <1>9, <2>2
    <3> QED BY <2>1, <2>2, <3>1, BlockBitmapUpdates
  <2>3. CASE ~(last /\ addr # -1)
    BY <1>9, <2>1, <2>3
  <2> QED BY <2>2, <2>3
<1>20. Typed'
  <2>1. inodes' \in [Inums -> InodeRecords]
    BY <1>1, <1>5, <1>8, <1>9
  <2>2. InodeRecords' = InodeRecords /\ BlockRecords' = BlockRecords
    BY <1>2 DEF InodeRecords, BlockRecords
  <2> QED BY <1>2, <1>9, <1>12, <1>18, <1>19, <2>1, <2>2 DEF IInv, Typed
<1>21. Marks'
  <2>1. {i \in Inums : inodes'[i].ftype # "free"}
           = {i \in Inums : inodes[i].ftype # "free"} \ (IF last THEN {inum} ELSE {})
    BY <1>13
  <2>2. {b \in Blocks : data'[b].ftype # "free"}
           = {b \in Blocks : data[b].ftype # "free"} \ (IF last /\ addr # -1 THEN {addr} ELSE {})
    <3>1. CASE last /\ addr # -1
      <4>1. \A b \in Blocks : data'[b].ftype = IF b = addr THEN "free" ELSE data[b].ftype
        BY <1>14, <3>1
      <4> QED BY <3>1, <4>1
    <3>2. CASE ~(last /\ addr # -1)
      <4>1. \A b \in Blocks : data'[b].ftype = data[b].ftype
        BY <1>14, <3>2
      <4> QED BY <3>2, <4>1
    <3> QED BY <3>1, <3>2
  <2> QED BY <1>2, <1>18, <1>19, <2>1, <2>2 DEF IInv, Marks
<1>22. Owners'
  <2>1. \A i \in Inums : i # inum /\ inodes[i].addr # -1 =>
           inodes[i].addr # addr /\ data'[inodes[i].addr].ftype = data[inodes[i].addr].ftype
    BY <1>1, <1>14, Records DEF IInv, Owners
  <2>2. ASSUME NEW i \in Inums
        PROVE  /\ inodes'[i].addr # -1 =>
                     /\ inodes'[i].ftype # "free"
                     /\ data'[inodes'[i].addr].ftype = inodes'[i].ftype
               /\ inodes'[i].ftype = "d" => inodes'[i].addr # -1
    <3>1. CASE i = inum
      BY <1>1, <1>3, <1>13, <1>14, <3>1
    <3>2. CASE i # inum
      BY <1>13, <2>1, <3>2 DEF IInv, Owners
    <3> QED BY <3>1, <3>2
  <2>3. \A i, j \in Inums : i # j /\ inodes'[i].addr = inodes'[j].addr => inodes'[i].addr = -1
    BY <1>13 DEF IInv, Owners
  <2>4. ASSUME NEW b \in Blocks, data'[b].ftype # "free" PROVE \E i \in Inums : inodes'[i].addr = b
    <3>1. data[b].ftype # "free" /\ ~(last /\ addr # -1 /\ b = addr) /\ b # -1
      BY <1>14, <2>4, Records
    <3>2. PICK i \in Inums : inodes[i].addr = b
      BY <3>1 DEF IInv, Owners
    <3>3. ~(last /\ i = inum)
      BY <3>1, <3>2
    <3> QED BY <1>13, <3>2, <3>3
  <2> QED BY <1>2, <2>2, <2>3, <2>4 DEF Owners
<1>23. Lists'
  <2>1. ASSUME NEW b \in Blocks, NEW d \in data'[b].dirList PROVE inodes'[d[2]].ftype # "free"
    <3>1. d \in data[b].dirList
      BY <1>14, <2>1
    <3>2. d[2] \in Inums /\ inodes[d[2]].ftype # "free"
      BY <3>1, Records DEF IInv, Lists
    <3> QED BY <1>13, <1>17, <3>2
  <2>2. /\ IsFiniteSet(data[pb].dirList \ {e})
        /\ Cardinality(data[pb].dirList \ {e}) = data[pb].dirUsed - 1
        /\ data[pb].dirUsed - 1 <= MaxUsed
    <3>1. /\ IsFiniteSet(data[pb].dirList) /\ data[pb].dirUsed = Cardinality(data[pb].dirList)
          /\ data[pb].dirUsed <= MaxUsed /\ data[pb].dirUsed \in Int
      BY <1>2, Records DEF IInv, Lists
    <3>2. data[pb].dirUsed - 1 <= MaxUsed
      BY <3>1, VsfsAssumption
    <3> HIDE DEF e
    <3>3. /\ IsFiniteSet(data[pb].dirList \ {e})
          /\ Cardinality(data[pb].dirList \ {e}) = Cardinality(data[pb].dirList) - 1
      BY <1>1, <3>1, FS_RemoveElement
    <3> QED BY <3>1, <3>2, <3>3
  <2>3. ASSUME NEW b \in Blocks
        PROVE  /\ IsFiniteSet(data'[b].dirList)
               /\ data'[b].dirUsed = Cardinality(data'[b].dirList) /\ data'[b].dirUsed <= MaxUsed
               /\ \A c, d \in data'[b].dirList : c[1] = d[1] => c = d
               /\ data'[b].ftype # "d" => data'[b].dirList = {}
    <3>1. /\ \A c, d \in data[b].dirList : c[1] = d[1] => c = d
          /\ data[b].ftype # "d" => data[b].dirList = {}
          /\ IsFiniteSet(data[b].dirList)
          /\ data[b].dirUsed = Cardinality(data[b].dirList) /\ data[b].dirUsed <= MaxUsed
      BY DEF IInv, Lists
    <3> HIDE DEF e
    <3>2. CASE b = pb
      BY <1>2, <1>3, <1>14, <2>2, <3>1, <3>2
    <3>3. CASE b # pb
      <4>1. data'[b].dirList = data[b].dirList /\ data'[b].dirUsed = data[b].dirUsed
        BY <1>14, <3>3
      <4>2. data'[b].ftype # "d" => data[b].ftype # "d"
        BY <1>3, <1>14
      <4> QED BY <3>1, <4>1, <4>2
    <3> QED BY <3>2, <3>3
  <2> QED BY <1>2, <2>1, <2>3 DEF Lists
<1>24. ASSUME NEW p \in files \cup dirs, p # path, p # <<>>
       PROVE  /\ getParent(p) \in dirs
              /\ <<LastName(p), nameToInum[p]>> \in data'[DirAddr(getParent(p))].dirList
  <2> DEFINE x == <<LastName(p), nameToInum[p]>>
             b == DirAddr(getParent(p))
  <2>1. getParent(p) \in dirs /\ x \in data[b].dirList /\ x[1] = LastName(p)
    BY <1>24 DEF IInv, Remembered
  <2>2. b \in Blocks
    BY <2>1, DirectoryBlock
  <2>3. ASSUME b = pb PROVE x # e
    <3>1. getParent(p) = getParent(path)
      BY <1>1, <2>1, <2>3, DirectoryBlock
    <3>2. p \in Paths
      BY DEF IInv, Typed
    <3>3. LastName(p) # name
      BY <1>1, <1>24, <3>1, <3>2, PathSplit
    <3> QED BY <3>3
  <2> HIDE DEF x, b
  <2>4. x \in data'[b].dirList
    BY <1>14, <2>1, <2>2, <2>3
  <2> QED BY <2>1, <2>4 DEF x, b
<1>25. Remembered'
  <2>1. ASSUME NEW d \in dirs
        PROVE  /\ nameToInum[d] \in Inums /\ nameToInum[d] # -1
               /\ inodes'[nameToInum[d]].ftype = "d" /\ DirAddr(d)' = DirAddr(d)
               /\ d # path
    <3>1. nameToInum[d] \in Inums /\ nameToInum[d] # -1 /\ inodes[nameToInum[d]].ftype = "d"
      BY DirectoryBlock, Records DEF IInv, Remembered
    <3>2. nameToInum[d] # inum /\ d # path
      BY <1>1, <3>1
    <3> QED BY <1>9, <1>13, <3>1, <3>2 DEF DirAddr
  <2>2. ASSUME NEW f \in files, f # path
        PROVE  nameToInum[f] # -1 /\ inodes'[nameToInum[f]].ftype = "f"
    <3>1. nameToInum[f] \in Inums /\ nameToInum[f] # -1 /\ inodes[nameToInum[f]].ftype = "f"
          /\ f # <<>>
      BY DEF IInv, Typed, Remembered
    <3>2. ASSUME last PROVE nameToInum[f] # inum
      <4> DEFINE x == <<LastName(f), nameToInum[f]>>
      <4>1. x \in data'[DirAddr(getParent(f))].dirList /\ getParent(f) \in dirs
        BY <1>24, <2>2, <3>1
      <4>2. DirAddr(getParent(f)) \in Blocks /\ x[2] = nameToInum[f]
        BY <4>1, DirectoryBlock
      <4> HIDE DEF x
      <4> QED BY <1>17, <3>2, <4>1, <4>2
    <3> QED BY <1>13, <3>1, <3>2
  <2>3. \A p \in files' \cup dirs' : p # <<>> =>
          /\ getParent(p) \in dirs
          /\ <<LastName(p), nameToInum[p]>> \in data'[DirAddr(getParent(p))'].dirList
    <3>1. \A p \in files' \cup dirs' : p \in files \cup dirs /\ p # path
      BY <1>9, <2>1
    <3> QED BY <1>24, <2>1, <3>1
  <2>4. \A d, f \in dirs : d # f => nameToInum[d] # nameToInum[f]
    BY DEF IInv, Remembered
  <2>5. files' \cap dirs' = {}
    BY <1>9 DEF IInv, Remembered
  <2>6. \A f \in files' : f \in files /\ f # path
    BY <1>9
  <2> QED BY <1>9, <2>1, <2>2, <2>3, <2>4, <2>5, <2>6 DEF Remembered, DirAddr
<1>26. Links'
  <2> HIDE DEF e
  <2>1. ASSUME NEW i \in Inums
        PROVE  /\ IsFiniteSet(EntriesOf(i)')
               /\ inodes'[i].ftype # "free" => inodes'[i].refCnt = Cardinality(EntriesOf(i)')
    <3>1. CASE i = inum
      <4>1. /\ IsFiniteSet(EntriesOf(i)')
            /\ Cardinality(EntriesOf(i)') = Cardinality(EntriesOf(i)) - 1
        BY <1>15, <1>16, <3>1, FS_RemoveElement
      <4> QED BY <1>1, <1>13, <1>16, <3>1, <4>1
    <3>2. CASE i # inum
      BY <1>13, <1>15, <3>2 DEF IInv, Links
    <3> QED BY <3>1, <3>2
  <2> QED BY <1>2, <2>1 DEF Links
<1>27. DropsName(path)
  BY <1>9, <1>13, <1>14 DEF DropsName, last
<1> QED BY <1>20, <1>21, <1>22, <1>23, <1>25, <1>26, <1>27 DEF IInv

\* A set of two has two elements.
LEMMA TwoElements ==
    ASSUME NEW x, NEW y, x # y
    PROVE  IsFiniteSet({x, y}) /\ Cardinality({x, y}) = 2
<1>1. {x, y} = {x} \cup {y} /\ y \notin {x}
  OBVIOUS
<1>2. IsFiniteSet({x}) /\ Cardinality({x}) = 1
  BY FS_Singleton
<1>3. IsFiniteSet({x} \cup {y}) /\ Cardinality({x} \cup {y}) = Cardinality({x}) + 1
  BY <1>1, <1>2, FS_AddElement
<1> QED BY <1>1, <1>2, <1>3

\* createFile of a directory keeps the invariant.
LEMMA DirectoryKeeps ==
    ASSUME IInv, NEW parent \in Parents, NEW name \in Names, HasRoomFor(parent, name),
           NEW inum, inum = alloc(ibitmap, numInodes), inum # -1,
           alloc(dbitmap, numData) # -1,
           createDirectory(parent, name, inum), UNCHANGED <<numInodes, numData>>
    PROVE  IInv' /\ AddsName(parent, name, inum, "d", alloc(dbitmap, numData))
<1> DEFINE pb == DirAddr(parent)
           pinum == nameToInum[parent]
           fblock == alloc(dbitmap, numData)
           path == Append(parent, name)
           e == <<name, inum>>
           dot == <<".", inum>>
           dotdot == <<"..", pinum>>
           block == addDirEntry(data[pb], name, inum)
           new == DirBlock(inum, pinum)
           node == [ftype |-> "d", addr |-> fblock, refCnt |-> 2]
           pnode == [inodes[pinum] EXCEPT !.refCnt = @ + 1]
<1>1. /\ inum \in Inums /\ inum \notin ibitmap.used
      /\ inodes[inum].ftype = "free" /\ inodes[inum].addr = -1 /\ EntriesOf(inum) = {}
      /\ parent \in dirs /\ path \in Paths /\ path # <<>> /\ path \notin files \cup dirs
      /\ getParent(path) = parent /\ LastName(path) = name
  BY NewName, NewInum
<1>2. /\ pb \in Blocks /\ data[pb].ftype = "d"
      /\ pinum \in Inums /\ inodes[pinum].ftype = "d" /\ pinum # inum
      /\ inodes[pinum].refCnt \in Int
      /\ Inums' = Inums /\ Blocks' = Blocks
  <2>1. pinum \in Inums /\ inodes[pinum].ftype = "d"
    BY <1>1, DirectoryBlock DEF IInv, Remembered
  <2> QED BY <1>1, <2>1, DirectoryBlock, Records DEF Inums, Blocks
<1>3. /\ fblock \in Blocks /\ fblock # -1 /\ fblock \notin dbitmap.used /\ fblock # pb
      /\ data[fblock].ftype = "free" /\ data[fblock].dirList = {}
      /\ \A i \in Inums : inodes[i].addr # fblock
  BY <1>2, NewBlock
<1>4. /\ block \in BlockRecords /\ block.ftype = data[pb].ftype
      /\ block.dirList = data[pb].dirList \cup {e} /\ block.dirUsed = data[pb].dirUsed + 1
  <2>1. data[pb] \in BlockRecords /\ name \in Names \cup Dots
    BY <1>2, Records
  <2> QED BY <1>1, <2>1, BlockUpdates
<1>5. /\ new \in BlockRecords /\ new.ftype = "d"
      /\ new.dirList = {dot, dotdot} /\ new.dirUsed = 2
  BY <1>1, <1>2 DEF DirBlock, BlockRecords, Kinds, Dots
<1>6. /\ node \in InodeRecords /\ node.ftype = "d" /\ node.addr = fblock /\ node.refCnt = 2
      /\ pnode \in InodeRecords /\ pnode.ftype = "d"
      /\ pnode.addr = inodes[pinum].addr /\ pnode.refCnt = inodes[pinum].refCnt + 1
  <2>1. inodes[pinum] \in InodeRecords
    BY <1>2, Records
  <2>2. /\ pnode \in InodeRecords /\ pnode.ftype = "d"
        /\ pnode.addr = inodes[pinum].addr /\ pnode.refCnt = inodes[pinum].refCnt + 1
    BY <1>2, <2>1, InodeUpdates
  <2>3. node \in InodeRecords /\ node.ftype = "d" /\ node.addr = fblock /\ node.refCnt = 2
    <3> HIDE DEF fblock
    <3> QED BY <1>3 DEF InodeRecords, Kinds
  <2> QED BY <2>2, <2>3
<1>7. /\ inodes \in [Inums -> InodeRecords] /\ data \in [Blocks -> BlockRecords]
      /\ nameToInum \in [Paths -> Inums \cup {-1}] /\ dirs \subseteq Paths
  BY DEF IInv, Typed
<1>8. /\ inodes' = [[inodes EXCEPT ![inum] = node] EXCEPT ![pinum] = pnode]
      /\ data' = [[data EXCEPT ![fblock] = new] EXCEPT ![pb] = block]
  BY <1>1, <1>2, <1>3 DEF createDirectory
<1>9. /\ files' = files /\ dirs' = dirs \cup {path}
      /\ ibitmap' = Marked(ibitmap, inum) /\ dbitmap' = Marked(dbitmap, fblock)
      /\ nameToInum' = [nameToInum EXCEPT ![path] = inum]
  BY DEF createDirectory
<1>10. \A p \in Paths : nameToInum'[p] = IF p = path THEN inum ELSE nameToInum[p]
  BY <1>1, <1>7, <1>9
<1> HIDE DEF node, pnode, block, new, fblock
<1>11. \A i \in Inums :
         /\ inodes'[i].ftype = IF i = inum THEN "d" ELSE inodes[i].ftype
         /\ inodes'[i].addr = IF i = inum THEN fblock ELSE inodes[i].addr
         /\ inodes'[i].refCnt = IF i = inum THEN 2
                                ELSE IF i = pinum THEN inodes[i].refCnt + 1
                                ELSE inodes[i].refCnt
  BY <1>1, <1>2, <1>6, <1>7, <1>8
<1>12. \A b \in Blocks :
         /\ data'[b].ftype = IF b = fblock THEN "d" ELSE data[b].ftype
         /\ data'[b].dirList = IF b = fblock THEN {dot, dotdot}
                               ELSE IF b = pb THEN data[b].dirList \cup {e} ELSE data[b].dirList
         /\ data'[b].dirUsed = IF b = fblock THEN 2
                               ELSE IF b = pb THEN data[b].dirUsed + 1 ELSE data[b].dirUsed
  BY <1>2, <1>3, <1>4, <1>5, <1>7, <1>8
<1>13. /\ ibitmap' \in [used : SUBSET Inums, numAllocated : Int]
       /\ ibitmap'.used = ibitmap.used \cup {inum}
       /\ ibitmap'.numAllocated = Cardinality(ibitmap'.used)
  <2>1. /\ ibitmap \in [used : SUBSET Inums, numAllocated : Int]
        /\ ibitmap.numAllocated = Cardinality(ibitmap.used) /\ numInodes \in Nat
    BY Records DEF IInv, Typed, Marks
  <2> QED BY <1>1, <1>9, <2>1, InodeBitmapUpdates
<1>14. /\ dbitmap' \in [used : SUBSET Blocks, numAllocated : Int]
       /\ dbitmap'.used = dbitmap.used \cup {fblock}
       /\ dbitmap'.numAllocated = Cardinality(dbitmap'.used)
  <2>1. /\ dbitmap \in [used : SUBSET Blocks, numAllocated : Int]
        /\ dbitmap.numAllocated = Cardinality(dbitmap.used) /\ numData \in Nat
    BY Records DEF IInv, Typed, Marks
  <2> QED BY <1>3, <1>9, <2>1, BlockBitmapUpdates
<1>15. Typed'
  <2>1. inodes' \in [Inums -> InodeRecords] /\ data' \in [Blocks -> BlockRecords]
    BY <1>1, <1>2, <1>3, <1>4, <1>5, <1>6, <1>7, <1>8
  <2>2. nameToInum' \in [Paths -> Inums \cup {-1}]
    BY <1>1, <1>7, <1>9
  <2>3. InodeRecords' = InodeRecords /\ BlockRecords' = BlockRecords
    BY <1>2 DEF InodeRecords, BlockRecords
  <2> QED BY <1>1, <1>2, <1>9, <1>13, <1>14, <2>1, <2>2, <2>3 DEF IInv, Typed
<1>16. Marks'
  <2>1. {i \in Inums : inodes'[i].ftype # "free"}
           = {i \in Inums : inodes[i].ftype # "free"} \cup {inum}
    BY <1>1, <1>11
  <2>2. {b \in Blocks : data'[b].ftype # "free"}
           = {b \in Blocks : data[b].ftype # "free"} \cup {fblock}
    BY <1>3, <1>12
  <2> QED BY <1>2, <1>13, <1>14, <2>1, <2>2 DEF IInv, Marks
<1>17. Owners'
  <2>1. \A i \in Inums : inodes[i].addr # -1 =>
           i # inum /\ data'[inodes[i].addr].ftype = data[inodes[i].addr].ftype
    BY <1>1, <1>3, <1>12, Records
  <2>2. ASSUME NEW i \in Inums
        PROVE  /\ inodes'[i].addr # -1 =>
                     /\ inodes'[i].ftype # "free"
                     /\ data'[inodes'[i].addr].ftype = inodes'[i].ftype
               /\ inodes'[i].ftype = "d" => inodes'[i].addr # -1
    <3>1. CASE i = inum
      BY <1>3, <1>11, <1>12, <3>1
    <3>2. CASE i # inum
      BY <1>11, <2>1, <3>2 DEF IInv, Owners
    <3> QED BY <3>1, <3>2
  <2>3. \A i, j \in Inums : i # j /\ inodes'[i].addr = inodes'[j].addr => inodes'[i].addr = -1
    BY <1>3, <1>11 DEF IInv, Owners
  <2>4. ASSUME NEW b \in Blocks, data'[b].ftype # "free" PROVE \E i \in Inums : inodes'[i].addr = b
    <3>1. CASE b = fblock
      BY <1>1, <1>11, <3>1
    <3>2. CASE b # fblock
      <4>1. PICK i \in Inums : inodes[i].addr = b
        BY <1>12, <2>4, <3>2 DEF IInv, Owners
      <4>2. i # inum
        BY <1>1, <4>1, Records
      <4> QED BY <1>11, <4>1, <4>2
    <3> QED BY <3>1, <3>2
  <2> QED BY <1>2, <2>2, <2>3, <2>4 DEF Owners
<1>18. /\ dot # dotdot /\ dot[1] # dotdot[1] /\ dot[2] = inum /\ dotdot[2] = pinum
       /\ e[2] = inum /\ e \notin data[pb].dirList
  BY <1>1, RoomForEntry
<1>19. /\ IsFiniteSet(data[pb].dirList \cup {e})
       /\ Cardinality(data[pb].dirList \cup {e}) = data[pb].dirUsed + 1
       /\ data[pb].dirUsed + 1 <= MaxUsed
       /\ \A c, d \in data[pb].dirList \cup {e} : c[1] = d[1] => c = d
  BY <1>1, RoomForEntry, ZenonT(40)
<1> HIDE DEF e, dot, dotdot
<1>20. Lists'
  <2>1. ASSUME NEW b \in Blocks, NEW d \in data'[b].dirList PROVE inodes'[d[2]].ftype # "free"
    <3>1. CASE d \in data[b].dirList
      <4>1. d[2] \in Inums /\ inodes[d[2]].ftype # "free"
        BY <3>1, Records DEF IInv, Lists
      <4> QED BY <1>11, <4>1
    <3>2. CASE d \in {e, dot, dotdot}
      <4>1. d[2] = inum \/ d[2] = pinum
        BY <1>18, <3>2
      <4> QED BY <1>1, <1>2, <1>11, <4>1
    <3> QED BY <1>12, <2>1, <3>1, <3>2
  <2>2. ASSUME NEW b \in Blocks
        PROVE  /\ IsFiniteSet(data'[b].dirList)
               /\ data'[b].dirUsed = Cardinality(data'[b].dirList) /\ data'[b].dirUsed <= MaxUsed
               /\ \A c, d \in data'[b].dirList : c[1] = d[1] => c = d
               /\ data'[b].ftype # "d" => data'[b].dirList = {}
    <3>1. CASE b = fblock
      <4>1. data'[b].dirList = {dot, dotdot} /\ data'[b].dirUsed = 2 /\ data'[b].ftype = "d"
        BY <1>12, <3>1
      <4>2. IsFiniteSet({dot, dotdot}) /\ Cardinality({dot, dotdot}) = 2
        BY <1>18, TwoElements
      <4>3. \A c, d \in {dot, dotdot} : c[1] = d[1] => c = d
        BY <1>18
      <4> QED BY <4>1, <4>2, <4>3, VsfsAssumption
    <3>2. CASE b = pb
      BY <1>2, <1>3, <1>12, <1>19, <3>2
    <3>3. CASE b # pb /\ b # fblock
      BY <1>12, <3>3 DEF IInv, Lists
    <3> QED BY <3>1, <3>2, <3>3
  <2> QED BY <1>2, <2>1, <2>2 DEF Lists
<1>21. Remembered'
  <2>1. \A b \in Blocks : data[b].ftype = "d" => data[b].dirList \subseteq data'[b].dirList
    BY <1>3, <1>12
  <2>2. <<LastName(path), inum>> \in data'[DirAddr(parent)].dirList
    BY <1>1, <1>2, <1>3, <1>12 DEF e
  <2>3. \A i \in Inums : inodes[i].ftype # "free" =>
              inodes'[i].ftype = inodes[i].ftype /\ inodes'[i].addr = inodes[i].addr
    BY <1>1, <1>11
  <2>4. dirs' = dirs \cup {path} /\ files' = files
        /\ inodes'[inum].ftype = "d" /\ inodes[inum].ftype = "free"
    BY <1>1, <1>9, <1>11
  <2> HIDE DEF path, pb
  <2> QED BY <1>1, <1>10, <2>1, <2>2, <2>3, <2>4, NameAdded
<1>22. ASSUME NEW i, NEW x
       PROVE  x \in EntriesOf(i)' <=>
                 \/ x \in EntriesOf(i)
                 \/ i = inum /\ x \in {<<pb, e>>, <<fblock, dot>>}
                 \/ i = pinum /\ x = <<fblock, dotdot>>
  <2>1. x \in EntriesOf(i) <=>
          \E b \in Blocks : \E d \in data[b].dirList :
             data[b].ftype = "d" /\ x = <<b, d>> /\ d[2] = i
    BY EntriesAre
  <2>2. x \in EntriesOf(i)' <=>
          \E b \in Blocks : \E d \in data'[b].dirList :
             data'[b].ftype = "d" /\ x = <<b, d>> /\ d[2] = i
    BY EntriesAreAfter
  <2>3. ASSUME NEW b \in Blocks, NEW d \in data'[b].dirList,
               data'[b].ftype = "d", x = <<b, d>>, d[2] = i
        PROVE  \/ x \in EntriesOf(i)
               \/ i = inum /\ x \in {<<pb, e>>, <<fblock, dot>>}
               \/ i = pinum /\ x = <<fblock, dotdot>>
    <3>1. CASE b = fblock
      <4>1. d \in {dot, dotdot}
        BY <1>12, <2>3, <3>1
      <4> QED BY <1>18, <2>3, <3>1, <4>1
    <3>2. CASE b # fblock
      <4>1. data[b].ftype = "d" /\ (d \in data[b].dirList \/ (b = pb /\ d = e))
        BY <1>12, <2>3, <3>2
      <4> QED BY <1>18, <2>1, <2>3, <4>1
    <3> QED BY <3>1, <3>2
  <2>4. ASSUME NEW b \in Blocks, NEW d \in data[b].dirList,
               data[b].ftype = "d", x = <<b, d>>, d[2] = i
        PROVE  x \in EntriesOf(i)'
    <3>1. d \in data'[b].dirList /\ data'[b].ftype = "d"
      BY <1>3, <1>12, <2>4
    <3> QED BY <2>2, <2>4, <3>1
  <2>5. ASSUME i = inum, x = <<pb, e>> PROVE x \in EntriesOf(i)'
    <3>1. e \in data'[pb].dirList /\ data'[pb].ftype = "d"
      BY <1>2, <1>3, <1>12
    <3> QED BY <1>2, <1>18, <2>2, <2>5, <3>1
  <2>6. ASSUME \/ i = inum /\ x = <<fblock, dot>>
               \/ i = pinum /\ x = <<fblock, dotdot>>
        PROVE  x \in EntriesOf(i)'
    <3>1. dot \in data'[fblock].dirList /\ dotdot \in data'[fblock].dirList
          /\ data'[fblock].ftype = "d"
      BY <1>3, <1>12
    <3> QED BY <1>3, <1>18, <2>2, <2>6, <3>1
  <2> QED BY <2>1, <2>2, <2>3, <2>4, <2>5, <2>6
<1>23. Links'
  <2> HIDE DEF pb
  <2>1. ASSUME NEW i \in Inums
        PROVE  /\ IsFiniteSet(EntriesOf(i)')
               /\ inodes'[i].ftype # "free" => inodes'[i].refCnt = Cardinality(EntriesOf(i)')
    <3>1. CASE i = inum
      <4>1. EntriesOf(i)' = {<<pb, e>>, <<fblock, dot>>}
        <5>1. \A x : x \in EntriesOf(i)' <=> x \in {<<pb, e>>, <<fblock, dot>>}
          BY <1>1, <1>2, <1>22, <3>1
        <5> QED BY <5>1
      <4>2. <<pb, e>> # <<fblock, dot>>
        BY <1>3 DEF pb
      <4>3. IsFiniteSet(EntriesOf(i)') /\ Cardinality(EntriesOf(i)') = 2
        <5> DEFINE x == <<pb, e>>
                   y == <<fblock, dot>>
        <5> HIDE DEF x, y
        <5>1. EntriesOf(i)' = {x, y} /\ x # y
          BY <4>1, <4>2 DEF x, y
        <5> QED BY <5>1, TwoElements
      <4> QED BY <1>11, <3>1, <4>3
    <3>2. CASE i = pinum
      <4>1. EntriesOf(i)' = EntriesOf(i) \cup {<<fblock, dotdot>>}
        <5>1. \A x : x \in EntriesOf(i)' <=> x \in EntriesOf(i) \cup {<<fblock, dotdot>>}
          BY <1>2, <1>22, <3>2
        <5> QED BY <5>1
      <4>2. <<fblock, dotdot>> \notin EntriesOf(i)
        BY <1>3, EntriesAre
      <4>3. IsFiniteSet(EntriesOf(i)) /\ inodes[i].refCnt = Cardinality(EntriesOf(i))
        BY <1>2, <3>2 DEF IInv, Links
      <4>4. /\ IsFiniteSet(EntriesOf(i)')
            /\ Cardinality(EntriesOf(i)') = Cardinality(EntriesOf(i)) + 1
        BY <4>1, <4>2, <4>3, FS_AddElement
      <4> QED BY <1>2, <1>11, <3>2, <4>3, <4>4
    <3>3. CASE i # inum /\ i # pinum
      <4>1. EntriesOf(i)' = EntriesOf(i)
        <5>1. EntriesOf(i)' \subseteq EntriesOf(i) /\ EntriesOf(i) \subseteq EntriesOf(i)'
          BY <1>22, <3>3
        <5> QED BY <5>1
      <4> QED BY <1>11, <3>3, <4>1 DEF IInv, Links
    <3> QED BY <3>1, <3>2, <3>3
  <2> QED BY <1>2, <2>1 DEF Links
<1>24. AddsName(parent, name, inum, "d", alloc(dbitmap, numData))
  BY <1>1, <1>3, <1>9, <1>10, <1>11, <1>12 DEF AddsName, e, dot, dotdot, fblock
<1> QED BY <1>15, <1>16, <1>17, <1>20, <1>21, <1>23, <1>24 DEF IInv

-----------------------------------------------------------------------------
Step ==
    /\ UNCHANGED <<numInodes, numData>>
    /\ \/ Fails
       \/ \E parent \in dirs, name \in Names, t \in Inums,
             kind \in {"f", "d"}, addr \in Blocks \cup {-1} : AddsName(parent, name, t, kind, addr)
       \/ \E path \in files : DropsName(path)
       \/ \E path \in files, fblock \in Blocks : WritesFile(path, fblock)

\* Every step keeps the invariant.
LEMMA NextStep == IInv /\ [Next]_vars => IInv' /\ Step
<1> SUFFICES ASSUME IInv, [Next]_vars PROVE IInv' /\ Step
  OBVIOUS
<1>1. ASSUME Fails, UNCHANGED <<numInodes, numData>> PROVE IInv' /\ Step
  BY <1>1, FailsKeeps DEF Step
<1>2. CASE UNCHANGED vars
  BY <1>1, <1>2 DEF vars, Fails, disk
<1>3. CASE doAppend
  <2>1. CASE Fails
    BY <1>1, <1>3, <2>1 DEF doAppend, Attempt
  <2>2. CASE ~Fails
    <3>1. PICK path \in files :
             LET inum   == nameToInum[path]
                 fblock == alloc(dbitmap, numData)
             IN
             IF ~writeFile(inum, fblock) THEN Fails
             ELSE
             /\ dbitmap' = Marked(dbitmap, fblock)
             /\ data' = [data EXCEPT ![fblock] = FileBlock]
             /\ inodes' = [inodes EXCEPT ![inum].addr = fblock]
             /\ UNCHANGED <<ibitmap, files, dirs, nameToInum>>
      BY <1>3, <2>2 DEF doAppend
    <3>2. UNCHANGED <<numInodes, numData>>
      BY <1>3 DEF doAppend, Attempt
    <3>3. IInv' /\ WritesFile(path, alloc(dbitmap, numData))
      BY <2>2, <3>1, <3>2, AppendKeeps
    <3> QED BY <3>2, <3>3 DEF Step, WritesFile
  <2> QED BY <2>1, <2>2
<1>4. CASE doDelete
  <2>1. UNCHANGED <<numInodes, numData>> /\ (Fails \/ \E path \in files : deleteFile(path))
    BY <1>4 DEF doDelete, Attempt
  <2> QED BY <1>1, <2>1, DeleteKeeps DEF Step
<1>5. CASE doLink
  <2>1. /\ UNCHANGED <<numInodes, numData>>
        /\ \/ Fails
           \/ \E target \in files, parent \in Parents, name \in Names :
                 HasRoomFor(parent, name) /\ createLink(target, parent, name)
    BY <1>5 DEF doLink, Attempt
  <2>2. ASSUME NEW target \in files, NEW parent \in Parents, NEW name \in Names,
               HasRoomFor(parent, name), createLink(target, parent, name)
        PROVE  IInv' /\ Step
    <3>1. IInv' /\ AddsName(parent, name, nameToInum[target], "f", inodes[nameToInum[target]].addr)
      BY <2>1, <2>2, LinkKeeps
    <3>2. inodes[nameToInum[target]].addr \in Blocks \cup {-1}
      BY <3>1, Records DEF AddsName
    <3>3. parent \in dirs /\ nameToInum[target] \in Inums
      BY <3>1 DEF AddsName
    <3> QED BY <2>1, <3>1, <3>2, <3>3 DEF Step
  <2> QED BY <1>1, <2>1, <2>2
<1>6. ASSUME NEW ftype \in {"f", "d"}, doCreate(ftype) PROVE IInv' /\ Step
  <2>1. UNCHANGED <<numInodes, numData>>
    BY <1>6 DEF doCreate, Attempt
  <2>2. PICK parent \in Parents, name \in Names :
           LET inum == alloc(ibitmap, numInodes) IN
           IF ~HasRoomFor(parent, name) \/ inum = -1 THEN Fails
           ELSE IF ftype = "d" THEN createDirectory(parent, name, inum)
           ELSE createRegular(parent, name, inum)
    BY <1>6 DEF doCreate
  <2> DEFINE inum == alloc(ibitmap, numInodes)
             fblock == alloc(dbitmap, numData)
  <2>3. CASE Fails
    BY <1>1, <2>1, <2>3
  <2>4. CASE HasRoomFor(parent, name) /\ inum # -1 /\ createRegular(parent, name, inum)
    <3>1. IInv' /\ AddsName(parent, name, inum, "f", -1)
      BY <2>1, <2>4, RegularKeeps
    <3>2. parent \in dirs /\ inum \in Inums
      BY <3>1 DEF AddsName
    <3> HIDE DEF inum
    <3> QED BY <2>1, <3>1, <3>2 DEF Step
  <2>5. CASE HasRoomFor(parent, name) /\ inum # -1 /\ createDirectory(parent, name, inum)
    <3>1. CASE fblock = -1
      BY <1>1, <2>1, <2>5, <3>1 DEF createDirectory
    <3>2. CASE fblock # -1
      <4>1. IInv' /\ AddsName(parent, name, inum, "d", fblock)
        BY <2>1, <2>5, <3>2, DirectoryKeeps
      <4>2. fblock \in Blocks
        BY <3>2, NewBlock
      <4>3. parent \in dirs /\ inum \in Inums
        BY <4>1 DEF AddsName
      <4> HIDE DEF inum, fblock
      <4> QED BY <2>1, <4>1, <4>2, <4>3 DEF Step
    <3> QED BY <3>1, <3>2
  <2> QED BY <2>2, <2>3, <2>4, <2>5
<1> QED BY <1>2, <1>3, <1>4, <1>5, <1>6 DEF Next

\* The invariant holds in every state.
LEMMA Invariance == Spec => []IInv
<1> QED BY InitInv, NextStep, PTL DEF Spec

\* Whatever is created, linked, appended to and unlinked, in whatever order and
\* however full the disk, the bitmaps mark exactly what the inode table and the
\* data blocks use, and no block has two owners.
THEOREM TablesAgree == Spec => []BitmapsMatchTables
<1> QED BY Invariance, InvImplies, PTL

\* The reference count of every inode in use is the number of entries that lead
\* to it: deleteFile's test for the last name is right in every reachable state.
THEOREM LinkCountsCorrect == Spec => []LinkCountsMatchEntries
<1> QED BY Invariance, InvImplies, PTL

-----------------------------------------------------------------------------
\* Nothing is in the tables that the generator has forgotten: each entry of one of its
\* directories is the last component of a name it remembers, with the entry's inode;
\* "." and ".." lead to directories; every inode in use has a name.
EntriesRemembered ==
    \A d \in dirs : \A e \in data[DirAddr(d)].dirList : e[1] \in Names =>
        /\ Append(d, e[1]) \in files \cup dirs
        /\ nameToInum[Append(d, e[1])] = e[2]
DotsLeadToDirs ==
    \A b \in Blocks : \A e \in data[b].dirList : e[1] \in Dots => inodes[e[2]].ftype = "d"
NoOrphans ==
    \A i \in Inums : inodes[i].ftype # "free" => \E p \in files \cup dirs : nameToInum[p] = i

Complete ==
    /\ EntriesRemembered /\ DotsLeadToDirs /\ NoOrphans
    /\ nameToInum[<<>>] = ROOT
    /\ \E g \in Geometries : numInodes = g[1]

\* The root alone is complete.
LEMMA InitComplete == Init => Complete
<1> SUFFICES ASSUME Init PROVE Complete
  OBVIOUS
<1>1. IInv
  BY InitInv
<1>2. /\ 0 \in Inums /\ 0 \in Blocks
      /\ <<>> \in Paths /\ dirs = {<<>>} /\ files = {} /\ nameToInum[<<>>] = 0
  BY <1>1, Records DEF Init, IInv, Typed, ROOT, Inums, Blocks
<1>3. /\ \A i \in Inums : inodes[i].ftype = IF i = 0 THEN "d" ELSE "free"
      /\ inodes[0].addr = 0
      /\ \A b \in Blocks :
            data[b].dirList = IF b = 0 THEN {<<".", 0>>, <<"..", 0>>} ELSE {}
  BY <1>2 DEF Init, ROOT, NewInode, DirBlock, FreeBlock
<1>4. EntriesRemembered
  BY <1>2, <1>3, VsfsAssumption DEF EntriesRemembered, DirAddr
<1>5. DotsLeadToDirs
  BY <1>2, <1>3 DEF DotsLeadToDirs
<1>6. NoOrphans
  BY <1>2, <1>3 DEF NoOrphans
<1>7. \E g \in Geometries : numInodes = g[1]
  BY DEF Init
<1> QED BY <1>2, <1>4, <1>5, <1>6, <1>7 DEF Complete, ROOT

\* A file or a directory can be told from the kind of its inode.
LEMMA KindsOfNames ==
    ASSUME IInv, NEW p \in files \cup dirs
    PROVE  /\ p \in Paths /\ nameToInum[p] \in Inums /\ nameToInum[p] # -1
           /\ p \in files <=> inodes[nameToInum[p]].ftype = "f"
           /\ p \in dirs <=> inodes[nameToInum[p]].ftype = "d"
<1>1. p \in Paths /\ nameToInum[p] \in Inums \cup {-1}
  BY DEF IInv, Typed
<1> QED BY <1>1 DEF IInv, Remembered

\* A path below a directory of the generator is that directory's.
LEMMA NameBelow ==
    ASSUME IInv, NEW d \in dirs, NEW x, Append(d, x) \in files \cup dirs, x \in Names
    PROVE  getParent(Append(d, x)) = d /\ LastName(Append(d, x)) = x
<1> DEFINE q == Append(d, x)
<1>1. d \in Paths /\ q \in Paths
  BY DEF IInv, Typed
<1>2. Len(d) \in Nat /\ d \in Seq(Names)
  BY <1>1, PathIsSeq
<1>3. Len(q) = Len(d) + 1
  BY <1>2, AppendProperties
<1>4. Len(q) <= MaxDepth
  <2> HIDE DEF q
  <2> QED BY <1>1, PathIsSeq
<1>5. Len(d) < MaxDepth
  BY <1>2, <1>3, <1>4, VsfsAssumption
<1> QED BY <1>1, <1>5, PathAppend

\* A call that fails changes no name.
LEMMA FailsComplete ==
    ASSUME Complete, Fails, UNCHANGED <<numInodes, numData>> PROVE Complete'
BY DEF Fails, disk, Complete, EntriesRemembered, DotsLeadToDirs, NoOrphans, DirAddr,
       Inums, Blocks

\* writeFile changes no name.
LEMMA WriteComplete ==
    ASSUME IInv, Complete, NEW path \in files, NEW fblock \in Blocks, WritesFile(path, fblock),
           UNCHANGED <<numInodes, numData>>
    PROVE  Complete'
<1>1. Inums' = Inums /\ Blocks' = Blocks
  BY DEF Inums, Blocks
<1>2. /\ UNCHANGED <<files, dirs, nameToInum>>
      /\ \A i \in Inums : /\ inodes'[i].ftype = inodes[i].ftype
                          /\ i # nameToInum[path] => inodes'[i].addr = inodes[i].addr
      /\ \A b \in Blocks : data'[b].dirList = data[b].dirList
  BY DEF WritesFile
<1>3. ASSUME NEW d \in dirs
      PROVE  DirAddr(d)' = DirAddr(d) /\ data'[DirAddr(d)].dirList = data[DirAddr(d)].dirList
  <2>1. nameToInum[d] \in Inums /\ DirAddr(d) \in Blocks
    BY DirectoryBlock
  <2>2. nameToInum[d] # nameToInum[path]
    BY DEF IInv, Remembered
  <2> QED BY <1>2, <2>1, <2>2 DEF DirAddr
<1>4. EntriesRemembered'
  BY <1>2, <1>3 DEF Complete, EntriesRemembered
<1>5. DotsLeadToDirs'
  <2>1. \A b \in Blocks : \A e \in data[b].dirList : e[2] \in Inums
    BY Records
  <2> QED BY <1>1, <1>2, <2>1 DEF Complete, DotsLeadToDirs
<1>6. NoOrphans'
  BY <1>1, <1>2 DEF Complete, NoOrphans
<1> QED BY <1>2, <1>4, <1>5, <1>6 DEF Complete

\* A name added to the list and to the directory.
LEMMA AddComplete ==
    ASSUME IInv, Complete, NEW parent, NEW name \in Names, NEW t, NEW kind, NEW addr,
           AddsName(parent, name, t, kind, addr), UNCHANGED <<numInodes, numData>>
    PROVE  Complete'
<1> DEFINE path == Append(parent, name)
           pb == DirAddr(parent)
           pinum == nameToInum[parent]
           e == <<name, t>>
           dot == <<".", t>>
           dotdot == <<"..", pinum>>
<1>1. Inums' = Inums /\ Blocks' = Blocks
  BY DEF Inums, Blocks
<1>2. /\ parent \in dirs /\ t \in Inums /\ kind \in {"f", "d"}
      /\ path \in Paths \ (files \cup dirs) /\ path # <<>>
  BY DEF AddsName
<1>3. /\ inodes[t].ftype # "d" /\ (inodes[t].ftype = "free" \/ kind = inodes[t].ftype)
      /\ kind = "d" => addr \in Blocks /\ data[addr].ftype = "free" /\ inodes[t].ftype = "free"
      /\ kind = "f" => addr = inodes[t].addr
  BY <1>2, Records DEF AddsName, IInv, Owners
<1>4. /\ files' = (IF kind = "f" THEN files \cup {path} ELSE files)
      /\ dirs' = (IF kind = "d" THEN dirs \cup {path} ELSE dirs)
      /\ \A p \in Paths : nameToInum'[p] = IF p = path THEN t ELSE nameToInum[p]
      /\ \A i \in Inums : /\ inodes'[i].ftype = IF i = t THEN kind ELSE inodes[i].ftype
                          /\ inodes'[i].addr = IF i = t THEN addr ELSE inodes[i].addr
      /\ \A b \in Blocks :
            data'[b].dirList = IF b = pb THEN data[b].dirList \cup {e}
                               ELSE IF kind = "d" /\ b = addr THEN {dot, dotdot}
                               ELSE data[b].dirList
  BY DEF AddsName
<1>5. /\ e[1] = name /\ e[2] = t /\ dot[1] = "." /\ dot[2] = t
      /\ dotdot[1] = ".." /\ dotdot[2] = pinum
      /\ name \notin Dots /\ "." \notin Names /\ ".." \notin Names
  BY VsfsAssumption DEF Dots
<1>6. /\ pb \in Blocks /\ data[pb].ftype = "d" /\ pinum \in Inums /\ inodes[pinum].ftype = "d"
      /\ dirs \subseteq Paths /\ files \subseteq Paths /\ <<>> \in dirs
  BY <1>2, DirectoryBlock DEF IInv, Typed, Remembered
<1> HIDE DEF path, e, dot, dotdot
<1>7. ASSUME NEW p \in files \cup dirs
      PROVE  nameToInum'[p] = nameToInum[p] /\ p \in files' \cup dirs' /\ p # path
  BY <1>2, <1>4, <1>6
<1>8. ASSUME NEW d \in dirs
      PROVE  /\ DirAddr(d)' = DirAddr(d) /\ DirAddr(d) \in Blocks
             /\ data'[DirAddr(d)].dirList =
                   IF d = parent THEN data[DirAddr(d)].dirList \cup {e}
                   ELSE data[DirAddr(d)].dirList
  <2>1. /\ nameToInum[d] \in Inums /\ DirAddr(d) \in Blocks /\ data[DirAddr(d)].ftype = "d"
        /\ inodes[nameToInum[d]].ftype = "d"
        /\ d # parent => DirAddr(d) # pb
    BY <1>2, DirectoryBlock DEF IInv, Remembered
  <2>2. nameToInum[d] # t
    BY <1>3, <2>1
  <2>3. kind = "d" => DirAddr(d) # addr
    BY <1>3, <2>1
  <2>4. DirAddr(d)' = DirAddr(d)
    BY <1>4, <1>7, <2>1, <2>2 DEF DirAddr
  <2> QED BY <1>4, <2>1, <2>3, <2>4
<1>9. ASSUME kind = "d"
      PROVE  DirAddr(path)' = addr /\ data'[addr].dirList = {dot, dotdot}
  <2>1. nameToInum'[path] = t /\ inodes'[t].addr = addr
    BY <1>2, <1>4
  <2> QED BY <1>3, <1>4, <1>6, <1>9, <2>1 DEF DirAddr
<1>10. ASSUME NEW d \in dirs', NEW c \in data'[DirAddr(d)'].dirList, c[1] \in Names
       PROVE  Append(d, c[1]) \in files' \cup dirs' /\ nameToInum'[Append(d, c[1])] = c[2]
  <2>1. CASE d \in dirs /\ c \in data[DirAddr(d)].dirList
    <3>1. Append(d, c[1]) \in files \cup dirs /\ nameToInum[Append(d, c[1])] = c[2]
      BY <1>10, <2>1 DEF Complete, EntriesRemembered
    <3> QED BY <1>7, <3>1
  <2>2. CASE d = parent /\ c = e
    <3>1. Append(d, c[1]) = path /\ c[2] = t
      BY <1>5, <2>2 DEF path
    <3>2. path \in files' \cup dirs' /\ nameToInum'[path] = t
      BY <1>2, <1>4
    <3> QED BY <3>1, <3>2
  <2>3. CASE d \notin dirs
    <3>1. kind = "d" /\ d = path
      BY <1>4, <2>3
    <3>2. c \in {dot, dotdot}
      BY <1>9, <1>10, <3>1
    <3> QED BY <1>5, <1>10, <3>2
  <2> QED BY <1>8, <1>10, <2>1, <2>2, <2>3
<1>11. EntriesRemembered'
  BY <1>10 DEF EntriesRemembered, DirAddr
<1>12. DotsLeadToDirs'
  <2>1. ASSUME NEW b \in Blocks, NEW c \in data'[b].dirList, c[1] \in Dots
        PROVE  inodes'[c[2]].ftype = "d"
    <3>1. CASE c \in data[b].dirList
      <4>1. c[2] \in Inums /\ inodes[c[2]].ftype = "d"
        BY <2>1, <3>1, Records DEF Complete, DotsLeadToDirs
      <4> QED BY <1>3, <1>4, <4>1
    <3>2. CASE c = e
      BY <1>5, <2>1, <3>2
    <3>3. CASE kind = "d" /\ c = dot
      BY <1>2, <1>4, <1>5, <3>3
    <3>4. CASE kind = "d" /\ c = dotdot
      BY <1>3, <1>4, <1>5, <1>6, <3>4
    <3>5. \/ c \in data[b].dirList \/ c = e
          \/ kind = "d" /\ (c = dot \/ c = dotdot)
      <4> HIDE DEF pb
      <4> QED BY <1>4, <2>1
    <3> QED BY <3>1, <3>2, <3>3, <3>4, <3>5
  <2> QED BY <1>1, <2>1 DEF DotsLeadToDirs
<1>13. NoOrphans'
  <2>1. ASSUME NEW i \in Inums, inodes'[i].ftype # "free"
        PROVE  \E p \in files' \cup dirs' : nameToInum'[p] = i
    <3>1. CASE i = t
      <4>1. path \in files' \cup dirs' /\ nameToInum'[path] = t
        BY <1>2, <1>4
      <4> QED BY <3>1, <4>1
    <3>2. CASE i # t
      <4>1. PICK p \in files \cup dirs : nameToInum[p] = i
        BY <1>4, <2>1, <3>2 DEF Complete, NoOrphans
      <4> QED BY <1>7, <4>1
    <3> QED BY <3>1, <3>2
  <2> QED BY <1>1, <2>1 DEF NoOrphans
<1>14. nameToInum'[<<>>] = ROOT
  BY <1>6, <1>7 DEF Complete
<1>15. \E g \in Geometries : numInodes' = g[1]
  BY DEF Complete
<1> QED BY <1>11, <1>12, <1>13, <1>14, <1>15 DEF Complete

\* A name taken off the list and out of the directory.
LEMMA DropComplete ==
    ASSUME IInv, Complete, NEW path \in files, DropsName(path), UNCHANGED <<numInodes, numData>>
    PROVE  Complete'
<1> DEFINE inum == nameToInum[path]
           last == LastReference(inum)
           pb == DirAddr(getParent(path))
           e == <<LastName(path), inum>>
<1>1. Inums' = Inums /\ Blocks' = Blocks
  BY DEF Inums, Blocks
<1>2. /\ UNCHANGED <<dirs, nameToInum>> /\ files' = files \ {path}
      /\ \A i \in Inums :
            /\ inodes'[i].ftype = IF last /\ i = inum THEN "free" ELSE inodes[i].ftype
            /\ inodes'[i].addr = IF last /\ i = inum THEN -1 ELSE inodes[i].addr
      /\ \A b \in Blocks :
            data'[b].dirList = IF b = pb THEN data[b].dirList \ {e} ELSE data[b].dirList
  BY DEF DropsName
<1>3. /\ inum \in Inums /\ inodes[inum].ftype = "f"
      /\ path # <<>> /\ path \notin dirs /\ getParent(path) \in dirs
      /\ e \in data[pb].dirList /\ e[1] = LastName(path) /\ e[2] = inum
      /\ pb \in Blocks /\ data[pb].ftype = "d"
  <2>1. /\ inum \in Inums /\ inodes[inum].ftype = "f"
        /\ path # <<>> /\ path \notin dirs /\ getParent(path) \in dirs
        /\ e \in data[pb].dirList
    BY DEF IInv, Typed, Remembered
  <2> QED BY <2>1, DirectoryBlock
<1>4. last <=> inodes[inum].refCnt = 1
  BY DEF LastReference
<1> HIDE DEF e, last
<1>5. ASSUME NEW d \in dirs
      PROVE  DirAddr(d)' = DirAddr(d) /\ DirAddr(d) \in Blocks
  <2>1. /\ nameToInum[d] \in Inums /\ DirAddr(d) \in Blocks
        /\ inodes[nameToInum[d]].ftype = "d"
    BY DirectoryBlock DEF IInv, Remembered
  <2>2. nameToInum[d] # inum
    BY <1>3, <2>1
  <2> QED BY <1>2, <2>1, <2>2 DEF DirAddr
\* Another entry of a directory of the generator has another name.
<1>6. ASSUME NEW d \in dirs, NEW c \in data[DirAddr(d)].dirList, c[1] \in Names,
             DirAddr(d) # pb \/ c # e
      PROVE  /\ Append(d, c[1]) \in files' \cup dirs'
             /\ nameToInum[Append(d, c[1])] = c[2]
  <2> DEFINE q == Append(d, c[1])
  <2>1. q \in files \cup dirs /\ nameToInum[q] = c[2]
    BY <1>6 DEF Complete, EntriesRemembered
  <2>2. getParent(q) = d /\ LastName(q) = c[1]
    BY <1>6, <2>1, NameBelow
  <2>3. q # path
    <3>1. SUFFICES ASSUME q = path PROVE FALSE
      OBVIOUS
    <3>2. DirAddr(d) = pb /\ c[1] = e[1]
      <4> HIDE DEF q
      <4> QED BY <1>3, <2>2, <3>1
    <3>3. c = e
      BY <1>3, <3>2 DEF IInv, Lists
    <3> QED BY <1>6, <3>2, <3>3
  <2> QED BY <1>2, <2>1, <2>3
<1>7. EntriesRemembered'
  <2>1. ASSUME NEW d \in dirs, NEW c \in data'[DirAddr(d)].dirList, c[1] \in Names
        PROVE  Append(d, c[1]) \in files' \cup dirs' /\ nameToInum'[Append(d, c[1])] = c[2]
    <3>1. c \in data[DirAddr(d)].dirList /\ (DirAddr(d) # pb \/ c # e)
      BY <1>2, <1>5, <2>1
    <3> QED BY <1>2, <1>6, <2>1, <3>1
  <2> QED BY <1>2, <1>5, <2>1 DEF EntriesRemembered
<1>8. DotsLeadToDirs'
  <2>1. ASSUME NEW b \in Blocks, NEW c \in data'[b].dirList, c[1] \in Dots
        PROVE  inodes'[c[2]].ftype = "d"
    <3>1. c \in data[b].dirList
      BY <1>2, <2>1
    <3>2. c[2] \in Inums /\ inodes[c[2]].ftype = "d"
      BY <2>1, <3>1, Records DEF Complete, DotsLeadToDirs
    <3> QED BY <1>2, <1>3, <3>2
  <2> QED BY <1>1, <2>1 DEF DotsLeadToDirs
\* A file that keeps its inode has another entry, in a directory with a name.
<1>9. ASSUME ~last PROVE \E p \in files' \cup dirs' : nameToInum[p] = inum
  <2>1. PICK x \in EntriesOf(inum) : x # <<pb, e>>
    <3>1. EntriesOf(inum) # {<<pb, e>>}
      <4>1. inodes[inum].refCnt = Cardinality(EntriesOf(inum))
        BY <1>3 DEF IInv, Links
      <4> QED BY <1>4, <1>9, <4>1, FS_Singleton
    <3>2. <<pb, e>> \in EntriesOf(inum)
      BY <1>3, EntriesAre
    <3> QED BY <3>1, <3>2
  <2>2. PICK b \in Blocks : \E c \in data[b].dirList :
           data[b].ftype = "d" /\ x = <<b, c>> /\ c[2] = inum
    BY EntriesAre
  <2>3. PICK c \in data[b].dirList : data[b].ftype = "d" /\ x = <<b, c>> /\ c[2] = inum
    BY <2>2
  <2>4. PICK j \in Inums : inodes[j].addr = b
    BY <2>3 DEF IInv, Owners
  <2>5. inodes[j].ftype = "d"
    BY <2>3, <2>4, Records DEF IInv, Owners
  <2>6. PICK d \in files \cup dirs : nameToInum[d] = j
    BY <2>5 DEF Complete, NoOrphans
  <2>7. d \in dirs /\ DirAddr(d) = b
    BY <2>4, <2>5, <2>6, KindsOfNames DEF DirAddr
  <2>8. c[1] \in Names
    <3>1. c \in (Names \cup Dots) \X Inums
      BY <2>3, Records
    <3>2. c[1] \notin Dots
      BY <1>3, <2>3 DEF Complete, DotsLeadToDirs
    <3> QED BY <3>1, <3>2
  <2>9. b # pb \/ c # e
    BY <2>1, <2>3
  <2>10. Append(d, c[1]) \in files' \cup dirs' /\ nameToInum[Append(d, c[1])] = c[2]
    BY <1>6, <2>3, <2>7, <2>8, <2>9
  <2> QED BY <2>3, <2>10
<1>10. NoOrphans'
  <2>1. ASSUME NEW i \in Inums, inodes'[i].ftype # "free"
        PROVE  \E p \in files' \cup dirs' : nameToInum[p] = i
    <3>1. CASE i = inum
      BY <1>2, <1>9, <2>1, <3>1
    <3>2. CASE i # inum
      <4>1. PICK p \in files \cup dirs : nameToInum[p] = i
        BY <1>2, <2>1, <3>2 DEF Complete, NoOrphans
      <4> QED BY <1>2, <3>2, <4>1
    <3> QED BY <3>1, <3>2
  <2> QED BY <1>1, <1>2, <2>1 DEF NoOrphans
<1>11. nameToInum'[<<>>] = ROOT /\ \E g \in Geometries : numInodes' = g[1]
  BY <1>2 DEF Complete
<1> QED BY <1>7, <1>8, <1>10, <1>11 DEF Complete

\* The names are complete in every state.
LEMMA CompleteInvariance == Spec => [](IInv /\ Complete)
<1>1. IInv /\ Complete /\ [Next]_vars => (IInv /\ Complete)'
  <2> SUFFICES ASSUME IInv, Complete, [Next]_vars PROVE IInv' /\ Complete'
    OBVIOUS
  <2>1. IInv' /\ Step
    BY NextStep
  <2> QED BY <2>1, FailsComplete, AddComplete, DropComplete, WriteComplete DEF Step
<1> QED BY <1>1, InitInv, InitComplete, PTL DEF Spec

-----------------------------------------------------------------------------
\* The names the generator remembers, as a tree.
Tree == [p \in Paths |-> IF p \in files \cup dirs THEN nameToInum[p] ELSE -1]

\* Where one component leads from an inode.
Below(up, name) ==
    IF up = -1 \/ inodes[up].ftype # "d" THEN -1
    ELSE LET found == {e \in data[inodes[up].addr].dirList : e[1] = name}
         IN IF found = {} THEN -1 ELSE (CHOOSE e \in found : TRUE)[2]

IsWalk(f) == f = [p \in Paths |-> IF p = <<>> THEN ROOT ELSE Below(f[getParent(p)], LastName(p))]

\* The walk from the root, one name further.
LEMMA TreeStep ==
    ASSUME IInv, Complete, NEW p \in Paths
    PROVE  Tree[p] = IF p = <<>> THEN ROOT ELSE Below(Tree[getParent(p)], LastName(p))
<1>1. ASSUME p = <<>> PROVE Tree[p] = ROOT
  BY <1>1 DEF IInv, Typed, Complete, Tree
<1>2. ASSUME p # <<>> PROVE Tree[p] = Below(Tree[getParent(p)], LastName(p))
  <2> DEFINE q == getParent(p)
             x == LastName(p)
  <2>1. q \in Paths /\ x \in Names /\ Append(q, x) = p
    BY <1>2, PathAbove
  <2>2. p \in files \cup dirs =>
           q \in dirs /\ <<x, nameToInum[p]>> \in data[DirAddr(q)].dirList
    BY <1>2 DEF IInv, Remembered
  <2> HIDE DEF q, x
  <2>3. CASE q \in dirs
    <3> DEFINE found == {e \in data[DirAddr(q)].dirList : e[1] = x}
    <3>1. Tree[q] = nameToInum[q] /\ nameToInum[q] # -1 /\ inodes[nameToInum[q]].ftype = "d"
          /\ DirAddr(q) \in Blocks
      BY <2>1, <2>3, KindsOfNames, DirectoryBlock DEF Tree
    <3>2. Below(Tree[q], x) = IF found = {} THEN -1 ELSE (CHOOSE e \in found : TRUE)[2]
      BY <3>1 DEF Below, DirAddr
    <3>3. CASE p \in files \cup dirs
      <4> DEFINE e == <<x, nameToInum[p]>>
      <4>1. e \in found /\ e[2] = nameToInum[p] /\ e[1] = x
        BY <2>2, <3>3
      <4> HIDE DEF e
      <4>2. \A c \in found : c = e
        BY <3>1, <4>1 DEF IInv, Lists
      <4> HIDE DEF found
      <4>3. (CHOOSE c \in found : TRUE) = e /\ found # {}
        BY <4>1, <4>2
      <4>4. Tree[p] = nameToInum[p]
        BY <3>3 DEF Tree
      <4> QED BY <3>2, <4>1, <4>3, <4>4 DEF q, x
    <3>4. CASE p \notin files \cup dirs
      <4>1. found = {}
        BY <2>1, <2>3, <3>4 DEF Complete, EntriesRemembered
      <4>2. Tree[p] = -1
        BY <3>4 DEF Tree
      <4> QED BY <3>2, <4>1, <4>2 DEF q, x
    <3> QED BY <3>3, <3>4
  <2>4. CASE q \notin dirs
    <3>1. Tree[p] = -1
      BY <2>2, <2>4 DEF Tree
    <3>2. Tree[q] = -1 \/ inodes[Tree[q]].ftype # "d"
      BY <2>1, <2>4, KindsOfNames DEF Tree
    <3>3. Below(Tree[q], x) = -1
      BY <3>2 DEF Below
    <3> QED BY <3>1, <3>3 DEF q, x
  <2> QED BY <2>3, <2>4
<1> QED BY <1>1, <1>2

\* Looking paths up on disk finds the generator's tree: the recursion has a solution,
\* the tree, and by induction on the length of the path no other.
LEMMA WalkIsTree == IInv /\ Complete => Walk = Tree
<1> SUFFICES ASSUME IInv, Complete PROVE Walk = Tree
  OBVIOUS
<1>1. IsWalk(Tree)
  <2> DEFINE T == [p \in Paths |-> IF p = <<>> THEN ROOT
                                   ELSE Below(Tree[getParent(p)], LastName(p))]
  <2>1. \A p \in Paths : Tree[p] = T[p]
    BY TreeStep
  <2>2. Tree = [p \in Paths |-> Tree[p]] /\ T = [p \in Paths |-> T[p]]
    BY DEF Tree
  <2> HIDE DEF T
  <2>3. Tree = T
    BY <2>1, <2>2
  <2> QED BY <2>3 DEF IsWalk, T
<1>2. IsWalk(Walk)
  <2>1. Walk = CHOOSE f : IsWalk(f)
    BY DEF Walk, IsWalk, Below
  <2> QED BY <1>1, <2>1
<1>3. \A p \in Paths : Walk[p] = Tree[p]
  <2> DEFINE P == {n \in Nat : \A p \in Paths : Len(p) = n => Walk[p] = Tree[p]}
  <2>1. \A p \in Paths :
           Walk[p] = IF p = <<>> THEN ROOT ELSE Below(Walk[getParent(p)], LastName(p))
    BY <1>2 DEF IsWalk
  <2>2. 0 \in P
    <3>1. ASSUME NEW p \in Paths, Len(p) = 0 PROVE Walk[p] = Tree[p]
      <4>1. p = <<>>
        BY <3>1, PathIsSeq, EmptySeq
      <4> QED BY <2>1, <4>1, TreeStep
    <3> QED BY <3>1
  <2>3. ASSUME NEW n \in Nat, n \in P PROVE n + 1 \in P
    <3>1. ASSUME NEW p \in Paths, Len(p) = n + 1 PROVE Walk[p] = Tree[p]
      <4>1. p # <<>>
        BY <3>1, EmptySeq
      <4>2. getParent(p) \in Paths /\ Len(getParent(p)) = n
        BY <3>1, <4>1, PathAbove
      <4>3. Walk[getParent(p)] = Tree[getParent(p)]
        BY <2>3, <4>2
      <4> QED BY <2>1, <4>1, <4>3, TreeStep
    <3> QED BY <3>1
  <2>4. ASSUME NEW p \in Paths PROVE Walk[p] = Tree[p]
    <3>1. Len(p) \in Nat
      BY PathIsSeq
    <3>2. Len(p) \in P
      <4> HIDE DEF P
      <4> QED BY <2>2, <2>3, <3>1, SetInduction
    <3> QED BY <3>2
  <2> QED BY <2>4
<1>4. Walk = [p \in Paths |-> Walk[p]] /\ Tree = [p \in Paths |-> Tree[p]]
  BY <1>2 DEF IsWalk, Tree
<1> QED BY <1>3, <1>4

\* vsfs.py compares nothing of what it keeps outside the file system with the disk: its
\* lists and its dictionary, the last with keys of files long gone, still say exactly
\* which paths lead somewhere, and where.
THEOREM NamesOnDisk == Spec => []NamesResolve
<1>1. IInv /\ Complete => NamesResolve
  <2> SUFFICES ASSUME IInv, Complete PROVE NamesResolve
    OBVIOUS
  <2>1. Walk = Tree
    BY WalkIsTree
  <2>2. files \cap dirs = {}
    BY DEF IInv, Remembered
  <2>3. ASSUME NEW p \in Paths
        PROVE  /\ p \in files => Walk[p] = nameToInum[p] /\ inodes[Walk[p]].ftype = "f"
               /\ p \in dirs  => Walk[p] = nameToInum[p] /\ inodes[Walk[p]].ftype = "d"
               /\ p \notin files \cup dirs => Walk[p] = -1
    <3>1. Walk[p] = IF p \in files \cup dirs THEN nameToInum[p] ELSE -1
      BY <2>1 DEF Tree
    <3> QED BY <3>1, KindsOfNames
  <2> QED BY <2>2, <2>3 DEF NamesResolve
<1> QED BY <1>1, CompleteInvariance, PTL

-----------------------------------------------------------------------------
\* What module Namespace calls the directories and the files with contents.
DirNumbers == {i \in Inums : inodes[i].ftype = "d"}
WithContents == {i \in Inums : inodes[i].ftype = "f" /\ inodes[i].addr # -1}

\* Its bound paths and named numbers, when the walk is the tree.
LEMMA BoundAndNamed ==
    ASSUME IInv, Walk = Tree
    PROVE  /\ N!Bound = files \cup dirs
           /\ N!Named = {nameToInum[p] : p \in files \cup dirs}
<1>1. \A p \in Paths : Walk[p] = IF p \in files \cup dirs THEN nameToInum[p] ELSE -1
  BY DEF Tree
<1>2. N!Bound = files \cup dirs
  BY <1>1, KindsOfNames DEF N!Bound
<1>3. N!Named = {Walk[p] : p \in files \cup dirs}
  BY <1>2 DEF N!Named
<1>4. \A p \in files \cup dirs : Walk[p] = nameToInum[p]
  BY <1>1, KindsOfNames
<1> QED BY <1>2, <1>3, <1>4

\* An added name is a step of the namespace.
LEMMA AddRefines ==
    ASSUME IInv, Complete, IInv', Complete', Walk = Tree, Walk' = Tree',
           NEW parent, NEW name \in Names, NEW t, NEW kind, NEW addr,
           AddsName(parent, name, t, kind, addr), UNCHANGED <<numInodes, numData>>
    PROVE  \E p \in N!Vacant, i \in UNION {0 .. g[1] - 1 : g \in Geometries} :
              N!Create(p, i) \/ N!Link(p, i)
<1> DEFINE path == Append(parent, name)
<1>1. Inums' = Inums /\ Blocks' = Blocks
  BY DEF Inums, Blocks
<1>2. /\ parent \in dirs /\ t \in Inums /\ kind \in {"f", "d"}
      /\ path \in Paths \ (files \cup dirs) /\ path # <<>>
      /\ getParent(path) = parent /\ LastName(path) = name
      /\ \/ inodes[t].ftype = "free" /\ addr = -1 /\ kind = "f"
         \/ inodes[t].ftype = "free" /\ addr \in Blocks /\ kind = "d"
         \/ inodes[t].ftype = "f" /\ addr = inodes[t].addr /\ kind = "f"
  BY DEF AddsName
<1>3. /\ files' \cup dirs' = files \cup dirs \cup {path}
      /\ \A p \in Paths : nameToInum'[p] = IF p = path THEN t ELSE nameToInum[p]
      /\ \A i \in Inums : /\ inodes'[i].ftype = IF i = t THEN kind ELSE inodes[i].ftype
                          /\ inodes'[i].addr = IF i = t THEN addr ELSE inodes[i].addr
  <2>1. /\ files' = (IF kind = "f" THEN files \cup {path} ELSE files)
        /\ dirs' = (IF kind = "d" THEN dirs \cup {path} ELSE dirs)
    BY DEF AddsName
  <2>2. /\ \A p \in Paths : nameToInum'[p] = IF p = path THEN t ELSE nameToInum[p]
        /\ \A i \in Inums : /\ inodes'[i].ftype = IF i = t THEN kind ELSE inodes[i].ftype
                            /\ inodes'[i].addr = IF i = t THEN addr ELSE inodes[i].addr
    BY DEF AddsName
  <2> QED BY <1>2, <2>1, <2>2
<1> HIDE DEF path
<1>4. Tree' = [Tree EXCEPT ![path] = t]
  BY <1>2, <1>3 DEF Tree
<1>5. N!Rebind(path, t)
  <2>1. Walk'[path] = t
    BY <1>2, <1>4 DEF Tree
  <2> QED BY <1>4, <2>1 DEF N!Rebind
<1>6. path \in N!Vacant
  <2>1. Walk[path] = -1 /\ Walk[parent] = nameToInum[parent]
    BY <1>2, KindsOfNames DEF Tree
  <2>2. nameToInum[parent] \in DirNumbers
    BY <1>2, KindsOfNames DEF DirNumbers
  <2>3. N!Parent(path) = parent
    BY <1>2 DEF N!Parent, getParent
  <2> QED BY <1>2, <2>1, <2>2, <2>3 DEF N!Vacant, DirNumbers
<1>7. t \in UNION {0 .. g[1] - 1 : g \in Geometries}
  BY <1>2 DEF Complete, Inums
<1>8. CASE inodes[t].ftype = "free"
  <2>1. t \notin N!Named
    BY <1>8, BoundAndNamed, KindsOfNames
  <2>2. DirNumbers' \in {DirNumbers, DirNumbers \cup {t}}
    <3>1. CASE kind = "f"
      <4>1. DirNumbers' = DirNumbers
        BY <1>1, <1>3, <1>8, <3>1 DEF DirNumbers
      <4> QED BY <4>1
    <3>2. CASE kind = "d"
      <4>1. DirNumbers' = DirNumbers \cup {t}
        BY <1>1, <1>2, <1>3, <3>2 DEF DirNumbers
      <4> QED BY <4>1
    <3> QED BY <1>2, <3>1, <3>2
  <2>3. WithContents' = WithContents
    BY <1>1, <1>2, <1>3, <1>8 DEF WithContents
  <2>4. N!Create(path, t)
    BY <1>5, <2>1, <2>2, <2>3 DEF N!Create, DirNumbers, WithContents
  <2> QED BY <1>6, <1>7, <2>4
<1>9. CASE inodes[t].ftype = "f"
  <2>1. t \in N!Named \ DirNumbers
    BY <1>2, <1>9, BoundAndNamed DEF Complete, NoOrphans, DirNumbers
  <2>2. DirNumbers' = DirNumbers /\ WithContents' = WithContents
    BY <1>1, <1>2, <1>3, <1>9 DEF DirNumbers, WithContents
  <2>3. N!Link(path, t)
    BY <1>5, <2>1, <2>2 DEF N!Link, DirNumbers, WithContents
  <2> QED BY <1>6, <1>7, <2>3
<1> QED BY <1>2, <1>8, <1>9

\* A dropped name is a step of the namespace.
LEMMA DropRefines ==
    ASSUME IInv, IInv', Complete', Walk = Tree, Walk' = Tree', NEW path \in files,
           DropsName(path), UNCHANGED <<numInodes, numData>>
    PROVE  \E p \in N!Bound : N!Unlink(p)
<1> DEFINE inum == nameToInum[path]
           last == LastReference(inum)
<1>1. Inums' = Inums
  BY DEF Inums
<1>2. /\ UNCHANGED <<dirs, nameToInum>> /\ files' = files \ {path}
      /\ \A i \in Inums :
            /\ inodes'[i].ftype = IF last /\ i = inum THEN "free" ELSE inodes[i].ftype
            /\ inodes'[i].addr = IF last /\ i = inum THEN -1 ELSE inodes[i].addr
  BY DEF DropsName
<1>3. /\ path \in Paths /\ path \notin dirs /\ inum \in Inums /\ inodes[inum].ftype = "f"
      /\ files' \cup dirs' = (files \cup dirs) \ {path}
  BY <1>2, KindsOfNames
<1> HIDE DEF last
<1>4. N!Bound = files \cup dirs /\ path \in N!Bound
  BY BoundAndNamed
<1>5. N!Rebind(path, -1)
  <2>1. Tree' = [Tree EXCEPT ![path] = -1]
    BY <1>2, <1>3 DEF Tree
  <2>2. Walk'[path] = -1
    BY <1>3, <2>1 DEF Tree
  <2> QED BY <2>1, <2>2 DEF N!Rebind
<1>6. Walk[path] \notin DirNumbers /\ DirNumbers' = DirNumbers
  <2>1. Walk[path] = inum
    BY <1>3 DEF Tree
  <2> QED BY <1>1, <1>2, <1>3, <2>1 DEF DirNumbers
\* The numbers with a name left are those of the inodes in use.
<1>7. {Walk[q] : q \in N!Bound \ {path}} = {i \in Inums : inodes'[i].ftype # "free"}
  <2>1. \A q \in files' \cup dirs' : Walk[q] = nameToInum'[q]
    BY <1>2, <1>3, KindsOfNames DEF Tree
  <2>2. ASSUME NEW q \in files' \cup dirs'
        PROVE  nameToInum'[q] \in Inums /\ inodes'[nameToInum'[q]].ftype # "free"
    BY <1>1, <2>2 DEF IInv, Typed, Remembered
  <2>3. \A i \in Inums : inodes'[i].ftype # "free" =>
           \E q \in files' \cup dirs' : nameToInum'[q] = i
    BY <1>1 DEF Complete, NoOrphans
  <2> QED BY <1>3, <1>4, <2>1, <2>2, <2>3
<1>8. WithContents' = WithContents \cap {Walk[q] : q \in N!Bound \ {path}}
  <2>1. WithContents' = {i \in WithContents : inodes'[i].ftype # "free"}
    BY <1>1, <1>2, <1>3 DEF WithContents
  <2> QED BY <1>7, <2>1 DEF WithContents
<1>9. N!Unlink(path)
  BY <1>5, <1>6, <1>8 DEF N!Unlink, DirNumbers, WithContents
<1> QED BY <1>4, <1>9

\* A write is a step that leaves the namespace alone.
LEMMA WriteRefines ==
    ASSUME IInv, Walk = Tree, Walk' = Tree', NEW path \in files, NEW fblock \in Blocks,
           WritesFile(path, fblock), UNCHANGED <<numInodes, numData>>
    PROVE  \E p \in N!Bound : N!Write(p)
<1> DEFINE inum == nameToInum[path]
<1>1. Inums' = Inums /\ fblock # -1
  BY DEF Inums, Blocks
<1>2. /\ UNCHANGED <<files, dirs, nameToInum>> /\ inodes[inum].addr = -1
      /\ \A i \in Inums : /\ inodes'[i].ftype = inodes[i].ftype
                          /\ inodes'[i].addr = IF i = inum THEN fblock ELSE inodes[i].addr
  BY DEF WritesFile
<1>3. /\ path \in Paths /\ inum \in Inums /\ inodes[inum].ftype = "f" /\ path \in N!Bound
  BY KindsOfNames, BoundAndNamed
<1>4. Walk' = Walk /\ Walk[path] = inum
  BY <1>2, <1>3 DEF Tree
<1>5. DirNumbers' = DirNumbers /\ inum \notin DirNumbers
  BY <1>1, <1>2, <1>3 DEF DirNumbers
<1>6. WithContents' = WithContents \cup {inum} /\ inum \notin WithContents
  BY <1>1, <1>2, <1>3 DEF WithContents
<1>7. N!Write(path)
  BY <1>4, <1>5, <1>6 DEF N!Write, DirNumbers, WithContents
<1> QED BY <1>3, <1>7

\* A failed call leaves the namespace alone.
LEMMA FailsStutters ==
    ASSUME Walk = Tree, Walk' = Tree', Fails, UNCHANGED <<numInodes, numData>>
    PROVE  UNCHANGED N!nvars
<1>1. Tree' = Tree
  BY DEF Fails, Tree
<1>2. DirNumbers' = DirNumbers /\ WithContents' = WithContents
  BY DEF Fails, disk, DirNumbers, WithContents, Inums
<1> QED BY <1>1, <1>2 DEF N!nvars, DirNumbers, WithContents

\* The file system begins as the namespace does.
LEMMA InitRefines == Init => N!NInit
<1> SUFFICES ASSUME Init PROVE N!NInit
  OBVIOUS
<1>1. IInv /\ Complete /\ Walk = Tree
  BY InitInv, InitComplete, WalkIsTree
<1>2. files = {} /\ dirs = {<<>>} /\ 0 \in Inums /\ nameToInum[<<>>] = 0
  BY <1>1, Records DEF Init, Complete, ROOT, Inums
<1>3. Walk = [p \in Paths |-> IF p = <<>> THEN ROOT ELSE -1]
  BY <1>1, <1>2 DEF Tree, ROOT
<1>4. \A i \in Inums : inodes[i].ftype = IF i = 0 THEN "d" ELSE "free"
  BY DEF Init, ROOT, NewInode
<1>5. DirNumbers = {ROOT} /\ WithContents = {}
  BY <1>2, <1>4 DEF DirNumbers, WithContents, ROOT
<1> QED BY <1>3, <1>5 DEF N!NInit, DirNumbers, WithContents

\* The file system is a namespace with hard links: what createFile, createLink,
\* deleteFile and writeFile do to bitmaps, inodes and blocks is, seen through path
\* names, to bind a free name, to bind one more, to unbind one and to give a file its
\* contents; what fails changes nothing.
THEOREM NamespaceImplemented == Spec => ImplementsNamespace
<1> DEFINE Known == IInv /\ Complete /\ Walk = Tree
<1>1. Known /\ Known' /\ [Next]_vars => [N!NNext]_(N!nvars)
  <2> SUFFICES ASSUME Known, Known', [Next]_vars PROVE N!NNext \/ UNCHANGED N!nvars
    OBVIOUS
  <2>1. Step
    BY NextStep
  <2>2. CASE Fails
    BY <2>1, <2>2, FailsStutters DEF Step
  <2>3. ASSUME NEW parent \in dirs, NEW name \in Names, NEW t \in Inums,
               NEW kind \in {"f", "d"}, NEW addr \in Blocks \cup {-1},
               AddsName(parent, name, t, kind, addr)
        PROVE  N!NNext
    BY <2>1, <2>3, AddRefines DEF Step, N!NNext
  <2>4. ASSUME NEW path \in files, DropsName(path) PROVE N!NNext
    BY <2>1, <2>4, DropRefines DEF Step, N!NNext
  <2>5. ASSUME NEW path \in files, NEW fblock \in Blocks, WritesFile(path, fblock) PROVE N!NNext
    BY <2>1, <2>5, WriteRefines DEF Step, N!NNext
  <2> QED BY <2>1, <2>2, <2>3, <2>4, <2>5 DEF Step
<1>2. Spec => []Known
  BY CompleteInvariance, WalkIsTree, PTL
<1> HIDE DEF Known
<1> QED BY <1>1, <1>2, InitRefines, PTL DEF Spec, ImplementsNamespace, N!NSpec

=============================================================================
