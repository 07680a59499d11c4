----------------------------- MODULE LfsProofs -----------------------------
(***************************************************************************)
(* What lfs.py writes to the log holds together when it works in memory:   *)
(* every table points to blocks of the right kind, the counts in inodes    *)
(* are the entries that lead to them, the checkpoint region leads to the   *)
(* state in memory, no block that can be reached is garbage, and the whole *)
(* is a namespace with hard links, as module Namespace has it; for any     *)
(* number of inodes, chunks, pointers, slots and names.                    *)
(***************************************************************************)
EXTENDS Lfs, SequenceTheorems, WellFoundedInduction, TLAPS, FiniteSetTheorems

-----------------------------------------------------------------------------
\* What these proofs need to know of numbers and sequences.

\* The definition of \div and %, for a positive divisor.
LEMMA DivModFact ==
    ASSUME NEW a \in Int, NEW d \in Nat \ {0}
    PROVE  a \div d \in Int /\ a % d \in 0 .. d - 1 /\ a = d * (a \div d) + (a % d)
OBVIOUS

\* A larger number of rows is larger by a whole row.
LEMMA MulMonotone ==
    ASSUME NEW d \in Nat \ {0}, NEW x \in Int, NEW y \in Int, x < y
    PROVE  d * x + d <= d * y
OBVIOUS

\* A number has one row and one place in it.
LEMMA SameCell ==
    ASSUME NEW d \in Nat \ {0}, NEW x \in Int, NEW y \in Int,
           NEW r \in 0 .. d - 1, NEW s \in 0 .. d - 1, d * x + r = d * y + s
    PROVE  x = y /\ r = s
<1>1. ~(x < y)
  <2> SUFFICES ASSUME x < y PROVE FALSE
    OBVIOUS
  <2> QED
    BY MulMonotone
<1>2. ~(y < x)
  <2> SUFFICES ASSUME y < x PROVE FALSE
    OBVIOUS
  <2> QED
    BY MulMonotone
<1> QED
  BY <1>1, <1>2

\* The quotient and the remainder are the only ones.
LEMMA DivModUnique ==
    ASSUME NEW a \in Int, NEW d \in Nat \ {0}, NEW q \in Int, NEW r \in 0 .. d - 1,
           a = d * q + r
    PROVE  a \div d = q /\ a % d = r
BY DivModFact, SameCell

\* The quotient of a natural number is one.
LEMMA DivNat ==
    ASSUME NEW a \in Nat, NEW d \in Nat \ {0}
    PROVE  a \div d \in Nat
<1>1. a \div d >= 0
  <2> SUFFICES ASSUME a \div d < 0 PROVE FALSE
    BY DivModFact
  <2>1. d * (a \div d) + d <= d * 0
    BY DivModFact, MulMonotone
  <2> QED
    BY <2>1, DivModFact
<1> QED
  BY <1>1, DivModFact

\* A quotient below k is a number below k times the divisor.
LEMMA DivLess ==
    ASSUME NEW a \in Nat, NEW d \in Nat \ {0}, NEW k \in Nat
    PROVE  a \div d < k <=> a < d * k
<1> DEFINE q == a \div d
           r == a % d
<1>1. q \in Nat /\ r \in 0 .. d - 1 /\ a = d * q + r
  <2>1. q \in Nat
    BY DivNat
  <2>2. r \in 0 .. d - 1 /\ a = d * q + r
    BY DivModFact
  <2> QED
    BY <2>1, <2>2
<1> HIDE DEF q, r
<1>2. q < k => d * q + d <= d * k
  BY <1>1, MulMonotone
<1>3. k < q => d * k + d <= d * q
  BY <1>1, MulMonotone
<1>4. q < k <=> a < d * k
  <2>1. d * q \in Int /\ d * k \in Int /\ (k = q => d * k = d * q)
    BY <1>1
  <2>2. CASE q < k
    BY <1>1, <1>2, <2>1, <2>2
  <2>3. CASE k < q
    BY <1>1, <1>3, <2>1, <2>3
  <2>4. CASE k = q
    BY <1>1, <2>1, <2>4
  <2> QED
    BY <1>1, <2>2, <2>3, <2>4
<1> QED
  BY <1>4 DEF q

\* A set of numbers that is not empty has a smallest one.
LEMMA SmallestNumber ==
    ASSUME NEW T, T \subseteq Nat, T # {}
    PROVE  \E x \in T : \A y \in T : x <= y
<1> DEFINE R == {r \in Nat \X Nat : r[1] < r[2]}
<1>1. IsWellFoundedOn(R, Nat)
  BY NatLessThanWellFounded DEF OpToRel
<1>2. PICK x \in T : \A y \in T : ~(<<y, x>> \in R)
  <2> HIDE DEF R
  <2> QED BY <1>1, WFMin
<1>3. ASSUME NEW y \in T PROVE ~(y < x)
  <2> DEFINE r == <<y, x>>
  <2>1. r \in Nat \X Nat
    OBVIOUS
  <2>2. r \notin R
    BY <1>2
  <2> QED BY <2>1, <2>2
<1> QED BY <1>3

\* A set with 0 and the successor of each of its numbers has all numbers.
LEMMA SetInduction ==
    ASSUME NEW P, 0 \in P, \A n \in Nat : n \in P => n + 1 \in P
    PROVE  Nat \subseteq P
<1> DEFINE T == Nat \ P
<1> SUFFICES ASSUME T # {} PROVE FALSE
  OBVIOUS
<1>1. PICK x \in T : \A y \in T : x <= y
  <2> HIDE DEF T
  <2>1. T \subseteq Nat
    BY DEF T
  <2> QED BY <2>1, SmallestNumber
<1>2. x \in Nat /\ x # 0 /\ x - 1 \in Nat /\ (x - 1) + 1 = x
  OBVIOUS
<1>3. x - 1 \notin T
  BY <1>1, <1>2
<1> QED BY <1>2, <1>3

\* Sequences of whatever there is in them.
IsSequence(s) == \E S : s \in Seq(S)

\* Its length and its elements.
LEMMA Sequence ==
    ASSUME NEW s, IsSequence(s)
    PROVE  Len(s) \in Nat /\ DOMAIN s = 1 .. Len(s) /\ \E S : s \in Seq(S) /\ s \in [1 .. Len(s) -> S]
<1>1. PICK S : s \in Seq(S)
  BY DEF IsSequence
<1> QED BY <1>1, LenProperties

\* A sequence over a set is one over a larger set.
LEMMA WiderSeq ==
    ASSUME NEW S, NEW T, S \subseteq T, NEW s \in Seq(S)
    PROVE  s \in Seq(T)
<1>1. s \in [1 .. Len(s) -> S] /\ Len(s) \in Nat
  BY LenProperties
<1>2. s \in [1 .. Len(s) -> T]
  BY <1>1
<1> QED BY <1>1, <1>2

\* Where the elements are of two sequences put one behind the other.
LEMMA Concat ==
    ASSUME NEW s, NEW t, IsSequence(s), IsSequence(t)
    PROVE  /\ IsSequence(s \o t) /\ Len(s) \in Nat /\ Len(t) \in Nat
           /\ Len(s \o t) = Len(s) + Len(t)
           /\ \A i \in 1 .. Len(s) : (s \o t)[i] = s[i]
           /\ \A i \in 1 .. Len(t) : (s \o t)[Len(s) + i] = t[i]
<1>1. PICK S, T : s \in Seq(S) /\ t \in Seq(T)
  BY DEF IsSequence
<1> DEFINE U == S \cup T
<1>2. s \in Seq(U) /\ t \in Seq(U)
  BY <1>1, WiderSeq
<1> HIDE DEF U
<1>3. Len(s) \in Nat /\ Len(t) \in Nat
  BY <1>2, LenProperties
<1>4. /\ s \o t \in Seq(U) /\ Len(s \o t) = Len(s) + Len(t)
      /\ \A i \in 1 .. Len(s) + Len(t) :
            (s \o t)[i] = IF i <= Len(s) THEN s[i] ELSE t[i - Len(s)]
  BY <1>2, ConcatProperties
<1>5. ASSUME NEW i \in 1 .. Len(s) PROVE (s \o t)[i] = s[i]
  <2>1. i \in 1 .. Len(s) + Len(t) /\ i <= Len(s)
    BY <1>3
  <2> QED BY <1>4, <2>1
<1>6. ASSUME NEW i \in 1 .. Len(t) PROVE (s \o t)[Len(s) + i] = t[i]
  <2> DEFINE j == Len(s) + i
  <2>1. j \in 1 .. Len(s) + Len(t) /\ ~(j <= Len(s)) /\ j - Len(s) = i
    BY <1>3
  <2> HIDE DEF j
  <2>2. (s \o t)[j] = t[i]
    BY <1>4, <2>1
  <2> QED BY <2>2 DEF j
<1> QED BY <1>3, <1>4, <1>5, <1>6 DEF IsSequence

\* One element replaced.
LEMMA Replace ==
    ASSUME NEW s, IsSequence(s), NEW i \in 1 .. Len(s), NEW e
    PROVE  /\ IsSequence([s EXCEPT ![i] = e]) /\ Len([s EXCEPT ![i] = e]) = Len(s)
           /\ [s EXCEPT ![i] = e][i] = e
           /\ \A j \in 1 .. Len(s) : j # i => [s EXCEPT ![i] = e][j] = s[j]
<1>1. PICK S : s \in Seq(S)
  BY DEF IsSequence
<1> DEFINE U == S \cup {e}
<1>2. s \in Seq(U) /\ e \in U
  BY <1>1, WiderSeq
<1> HIDE DEF U
<1> QED BY <1>2, ExceptSeq DEF IsSequence

\* What is listed is a sequence.
LEMMA ListOf ==
    ASSUME NEW n \in Nat, NEW f, f = [k \in 1 .. n |-> f[k]]
    PROVE  IsSequence(f) /\ Len(f) = n
<1> DEFINE S == {f[k] : k \in 1 .. n}
<1>1. f \in [1 .. n -> S]
  OBVIOUS
<1> HIDE DEF S
<1> QED BY <1>1 DEF IsSequence

\* The short sequences the commands write, element by element.
LEMMA Tuples ==
    ASSUME NEW a, NEW b, NEW c, NEW d
    PROVE  /\ IsSequence(<<a>>) /\ Len(<<a>>) = 1 /\ <<a>>[1] = a
           /\ IsSequence(<<a, b>>) /\ Len(<<a, b>>) = 2 /\ <<a, b>>[1] = a /\ <<a, b>>[2] = b
           /\ IsSequence(<<a, b, c>>) /\ Len(<<a, b, c>>) = 3
           /\ <<a, b, c>>[1] = a /\ <<a, b, c>>[2] = b /\ <<a, b, c>>[3] = c
           /\ IsSequence(<<a, b, c, d>>) /\ Len(<<a, b, c, d>>) = 4
           /\ <<a, b, c, d>>[1] = a /\ <<a, b, c, d>>[2] = b
           /\ <<a, b, c, d>>[3] = c /\ <<a, b, c, d>>[4] = d
<1>1. <<a>> \in Seq({a}) /\ <<a, b>> \in Seq({a, b})
  OBVIOUS
<1>2. <<a, b, c>> \in Seq({a, b, c}) /\ <<a, b, c, d>> \in Seq({a, b, c, d})
  OBVIOUS
<1> QED BY <1>1, <1>2 DEF IsSequence

-----------------------------------------------------------------------------
\* The addresses behind the checkpoint region.
Logged == 1 .. Len(disk) - 1

\* The block that the c-th pointer of the checkpoint region leads to.
Chunked(c) == disk[cr[c] + 1]

\* The log begins with the checkpoint region; both tables point into the log.
Typed ==
    /\ mode \in Modes /\ ~mode.use_disk_cr
    /\ IsSequence(disk) /\ Len(disk) > 0 /\ disk[1].block_type = "cp"
    /\ cr \in [Chunks -> Logged \cup {-1}]
    /\ inode_map \in [Inums -> Logged \cup {-1}]

\* An update adds to the log and writes over nothing but the checkpoint region.
Extends ==
    /\ Logged \subseteq Logged'
    /\ \A a \in Logged : At(a)' = At(a)

\* An address of the log is the place of a block.
LEMMA OnLog ==
    ASSUME NEW a \in Logged
    PROVE  At(a) = disk[a + 1]
BY DEF At, Logged

\* An inode number is its chunk's number and its place in the chunk.
LEMMA ChunkOf ==
    ASSUME NEW i \in Inums
    PROVE  /\ inum_to_chunk(i) \in Chunks
           /\ i % NUM_INODES_PER_IMAP_CHUNK \in 0 .. NUM_INODES_PER_IMAP_CHUNK - 1
           /\ inum_to_chunk(i) * NUM_INODES_PER_IMAP_CHUNK + (i % NUM_INODES_PER_IMAP_CHUNK) = i
<1> DEFINE K == NUM_INODES_PER_IMAP_CHUNK
           C == NUM_IMAP_PTRS_IN_CR
<1>1. K \in Nat \ {0} /\ C \in Nat \ {0} /\ i \in Nat /\ i < C * K /\ i \in Int
  <2>1. K \in Nat \ {0} /\ C \in Nat \ {0}
    BY LfsAssumption
  <2>2. C * K \in Nat /\ i \in 0 .. (C * K) - 1
    BY <2>1 DEF Inums, NUM_INODES
  <2> QED BY <2>1, <2>2
<1> HIDE DEF K, C
<1>2. C * K = K * C /\ K * (i \div K) = (i \div K) * K
  BY <1>1, DivModFact
<1>3. i \div K \in Nat /\ i \div K < C
  BY <1>1, <1>2, DivLess, DivNat
<1>4. i % K \in 0 .. K - 1 /\ i = K * (i \div K) + (i % K) /\ i % K \in Int
  BY <1>1, DivModFact
<1>5. i \div K \in 0 .. C - 1 /\ (i \div K) * K + (i % K) = i
  BY <1>1, <1>2, <1>3, <1>4
<1>6. i \div K \in Chunks
  BY <1>5 DEF C, Chunks
<1> QED BY <1>4, <1>5, <1>6, Zenon DEF K, inum_to_chunk

\* log: the chunks written are those of the two inode numbers, each once.
LEMMA ChunksWritten ==
    ASSUME NEW i \in Inums, NEW j \in Inums, NEW inums,
           inums = <<i, j>> \/ (inums = <<i>> /\ j = i)
    PROVE  /\ IsSequence(ChunksOf(inums)) /\ Len(ChunksOf(inums)) \in {1, 2}
           /\ \A c : (\E k \in 1 .. Len(ChunksOf(inums)) : ChunksOf(inums)[k] = c)
                       <=> c \in {inum_to_chunk(i), inum_to_chunk(j)}
<1>1. \/ ChunksOf(inums) = <<inum_to_chunk(i)>> /\ inum_to_chunk(j) = inum_to_chunk(i)
      \/ ChunksOf(inums) = <<inum_to_chunk(i), inum_to_chunk(j)>>
  <2>1. CASE inums = <<i>> /\ j = i
    BY <2>1 DEF ChunksOf
  <2>2. CASE inums = <<i, j>>
    BY <2>2 DEF ChunksOf
  <2> QED BY <2>1, <2>2
<1>2. CASE ChunksOf(inums) = <<inum_to_chunk(i)>> /\ inum_to_chunk(j) = inum_to_chunk(i)
  <2>1. \A c : (\E k \in 1 .. 1 : <<inum_to_chunk(i)>>[k] = c) <=> c = inum_to_chunk(i)
    OBVIOUS
  <2>2. /\ IsSequence(ChunksOf(inums)) /\ Len(ChunksOf(inums)) = 1
        /\ \A c : (\E k \in 1 .. 1 : ChunksOf(inums)[k] = c) <=> c = inum_to_chunk(i)
    <3>1. IsSequence(<<inum_to_chunk(i)>>) /\ Len(<<inum_to_chunk(i)>>) = 1
      BY Tuples
    <3> QED BY <1>2, <2>1, <3>1, Zenon
  <2> QED BY <1>2, <2>2
<1>3. CASE ChunksOf(inums) = <<inum_to_chunk(i), inum_to_chunk(j)>>
  <2>1. \A c : (\E k \in 1 .. 2 : <<inum_to_chunk(i), inum_to_chunk(j)>>[k] = c)
                    <=> c \in {inum_to_chunk(i), inum_to_chunk(j)}
    OBVIOUS
  <2>2. /\ IsSequence(ChunksOf(inums)) /\ Len(ChunksOf(inums)) = 2
        /\ \A c : (\E k \in 1 .. 2 : ChunksOf(inums)[k] = c)
                    <=> c \in {inum_to_chunk(i), inum_to_chunk(j)}
    <3>1. /\ IsSequence(<<inum_to_chunk(i), inum_to_chunk(j)>>)
          /\ Len(<<inum_to_chunk(i), inum_to_chunk(j)>>) = 2
      BY Tuples
    <3> QED BY <1>3, <2>1, <3>1, Zenon
  <2> QED BY <2>2
<1> QED BY <1>1, <1>2, <1>3

\* What the log, the maps and the checkpoint region are after a command.
Grown(blocks, map, i, j) ==
    /\ IsSequence(disk') /\ Len(disk) \in Nat /\ Len(disk') \in Nat /\ Len(blocks) \in Nat
    /\ Len(disk') > Len(disk) + Len(blocks)
    /\ mode' = mode /\ inode_map' = map /\ failed' = failed
    /\ disk'[1].block_type = "cp"
    /\ \A a \in 2 .. Len(disk) : disk'[a] = disk[a]
    /\ \A k \in 1 .. Len(blocks) : disk'[Len(disk) + k] = blocks[k]
    /\ cr' \in [Chunks -> Logged' \cup {-1}]
    /\ \A c \in Chunks :
         IF c \in {inum_to_chunk(i), inum_to_chunk(j)}
         THEN cr'[c] \in Logged' /\ disk'[cr'[c] + 1] = ImapChunk(map, c)
         ELSE cr'[c] = cr[c]

\* The end of every command: what is where when the blocks are in the log.
LEMMA Committed ==
    ASSUME Typed, NEW blocks, IsSequence(blocks), NEW map,
           NEW i \in Inums, NEW j \in Inums, NEW inums,
           inums = <<i, j>> \/ (inums = <<i>> /\ j = i),
           Commit(blocks, map, inums)
    PROVE  Grown(blocks, map, i, j)
<1> DEFINE chunks == ChunksOf(inums)
           logged == disk \o blocks
           chunk == [k \in DOMAIN chunks |-> ImapChunk(map, chunks[k])]
           all == logged \o chunk
           w == Len(chunks)
           n == Len(logged)
<1>1. /\ IsSequence(chunks) /\ w \in {1, 2}
      /\ \A c : (\E k \in 1 .. w : chunks[k] = c) <=> c \in {inum_to_chunk(i), inum_to_chunk(j)}
  BY ChunksWritten
<1>2. DOMAIN chunks = 1 .. w
  <2> HIDE DEF chunks
  <2> QED BY <1>1, Sequence
<1>3. /\ IsSequence(logged) /\ Len(disk) \in Nat /\ Len(blocks) \in Nat /\ n = Len(disk) + Len(blocks)
      /\ \A a \in 1 .. Len(disk) : logged[a] = disk[a]
      /\ \A k \in 1 .. Len(blocks) : logged[Len(disk) + k] = blocks[k]
  BY Concat DEF Typed
<1>4. /\ inode_map' = map /\ mode' = mode /\ failed' = failed
      /\ cr' = [c \in Chunks |-> IF \E k \in 1 .. w : chunks[k] = c
                                 THEN n + (CHOOSE k \in 1 .. w : chunks[k] = c) - 1 ELSE cr[c]]
      /\ disk' = IF mode.no_force_checkpoints THEN all ELSE [all EXCEPT ![1] = CrBlock(cr')]
  <2>1. DOMAIN chunks = 1 .. w
    BY <1>2
  <2> QED BY <2>1, Zenon DEF Commit
<1> HIDE DEF logged
<1>5. IsSequence(chunk) /\ Len(chunk) = w /\ \A k \in 1 .. w : chunk[k] = ImapChunk(map, chunks[k])
  <2> HIDE DEF chunks
  <2>1. chunk = [k \in 1 .. w |-> ImapChunk(map, chunks[k])]
    BY <1>2
  <2>2. w \in Nat /\ \A k \in 1 .. w : chunk[k] = ImapChunk(map, chunks[k])
    BY <1>1, <2>1
  <2>3. chunk = [k \in 1 .. w |-> chunk[k]]
    BY <2>1
  <2> HIDE DEF chunk
  <2> QED BY <2>2, <2>3, ListOf
<1> HIDE DEF chunk, chunks
<1>6. /\ IsSequence(all) /\ Len(all) = n + w
      /\ \A a \in 1 .. n : all[a] = logged[a]
      /\ \A k \in 1 .. w : all[n + k] = chunk[k]
  <2>1. /\ IsSequence(logged \o chunk) /\ Len(logged \o chunk) = Len(logged) + Len(chunk)
        /\ \A a \in 1 .. Len(logged) : (logged \o chunk)[a] = logged[a]
        /\ \A k \in 1 .. Len(chunk) : (logged \o chunk)[Len(logged) + k] = chunk[k]
    <3>1. IsSequence(logged) /\ IsSequence(chunk)
      BY <1>3, <1>5
    <3> QED BY <3>1, Concat
  <2> QED BY <1>5, <2>1
<1> HIDE DEF all
<1>7. /\ IsSequence(disk') /\ Len(disk') = n + w /\ disk'[1].block_type = "cp"
      /\ \A a \in 2 .. n + w : disk'[a] = all[a]
  <2>1. n \in Nat /\ n >= 1 /\ w \in Nat /\ 1 \in 1 .. n + w /\ 1 \in 1 .. n /\ 1 \in 1 .. Len(disk)
    BY <1>1, <1>3 DEF Typed
  <2>2. CASE mode.no_force_checkpoints
    <3>1. disk' = all /\ disk'[1] = disk[1]
      BY <1>3, <1>4, <1>6, <2>1, <2>2
    <3> QED BY <1>6, <3>1 DEF Typed
  <2>3. CASE ~mode.no_force_checkpoints
    <3>1. disk' = [all EXCEPT ![1] = CrBlock(cr')]
      BY <1>4, <2>3
    <3>2. /\ IsSequence(disk') /\ Len(disk') = Len(all) /\ disk'[1] = CrBlock(cr')
          /\ \A a \in 1 .. Len(all) : a # 1 => disk'[a] = all[a]
      <4>1. IsSequence(all) /\ 1 \in 1 .. Len(all)
        BY <1>6, <2>1
      <4>2. ASSUME NEW e
            PROVE  /\ IsSequence([all EXCEPT ![1] = e]) /\ Len([all EXCEPT ![1] = e]) = Len(all)
                   /\ [all EXCEPT ![1] = e][1] = e
                   /\ \A a \in 1 .. Len(all) : a # 1 => [all EXCEPT ![1] = e][a] = all[a]
        BY <4>1, Replace, SMTT(30)
      <4> QED BY <3>1, <4>2, Zenon
    <3>3. disk'[1].block_type = "cp"
      BY <3>2 DEF CrBlock
    <3>4. \A a \in 2 .. n + w : a \in 1 .. Len(all) /\ a # 1
      BY <1>6, <2>1
    <3> QED BY <1>6, <3>2, <3>3, <3>4
  <2> QED BY <2>2, <2>3
<1> HIDE DEF n, w
<1>8. n \in Nat /\ n >= 1 /\ w \in {1, 2} /\ Len(disk) >= 1
  BY <1>1, <1>3 DEF Typed
<1>9. \A a \in 2 .. Len(disk) : disk'[a] = disk[a]
  <2> TAKE a \in 2 .. Len(disk)
  <2>1. a \in 2 .. n + w /\ a \in 1 .. n /\ a \in 1 .. Len(disk)
    BY <1>3, <1>8
  <2> QED BY <1>3, <1>6, <1>7, <2>1
<1>10. \A k \in 1 .. Len(blocks) : disk'[Len(disk) + k] = blocks[k]
  <2> TAKE k \in 1 .. Len(blocks)
  <2>1. Len(disk) + k \in 2 .. n + w /\ Len(disk) + k \in 1 .. n
    BY <1>3, <1>8
  <2> QED BY <1>3, <1>6, <1>7, <2>1
<1>11. Logged' = 1 .. n + w - 1 /\ Logged \subseteq Logged'
  BY <1>3, <1>7, <1>8 DEF Logged
<1>12. ASSUME NEW c \in Chunks, c \in {inum_to_chunk(i), inum_to_chunk(j)}
       PROVE  cr'[c] \in Logged' /\ disk'[cr'[c] + 1] = ImapChunk(map, c)
  <2> DEFINE k == CHOOSE k \in 1 .. w : chunks[k] = c
  <2>1. k \in 1 .. w /\ chunks[k] = c
    <3>1. \E k1 \in 1 .. w : chunks[k1] = c
      BY <1>1, <1>12 DEF w
    <3> QED BY <3>1
  <2>2. cr'[c] = n + k - 1
    <3>1. \E k1 \in 1 .. w : chunks[k1] = c
      BY <2>1
    <3> QED BY <1>4, <3>1
  <2> HIDE DEF k
  <2>3. n + k \in 2 .. n + w /\ n + k - 1 \in 1 .. n + w - 1 /\ n + k - 1 + 1 = n + k
    BY <1>8, <2>1
  <2>4. disk'[n + k] = ImapChunk(map, c)
    BY <1>5, <1>6, <1>7, <2>1, <2>3
  <2> QED BY <1>11, <2>2, <2>3, <2>4
<1>13. ASSUME NEW c \in Chunks, c \notin {inum_to_chunk(i), inum_to_chunk(j)}
       PROVE  cr'[c] = cr[c]
  <2>1. ~ \E k \in 1 .. w : chunks[k] = c
    BY <1>1, <1>13 DEF w
  <2> QED BY <1>4, <2>1
<1>14. cr' \in [Chunks -> Logged' \cup {-1}]
  <2>1. \A c \in Chunks : cr'[c] \in Logged' \cup {-1}
    BY <1>11, <1>12, <1>13 DEF Typed
  <2>2. cr' = [c \in Chunks |-> cr'[c]]
    BY <1>4
  <2> QED BY <2>1, <2>2
<1>15. Len(disk') \in Nat /\ Len(disk') > Len(disk) + Len(blocks)
  BY <1>3, <1>7, <1>8
<1> QED BY <1>3, <1>4, <1>7, <1>9, <1>10, <1>12, <1>13, <1>14, <1>15 DEF Grown

-----------------------------------------------------------------------------
\* What is in a directory block, and in an inode.
Dots == {".", ".."}
Entries == ((Names \cup Dots) \X Inums) \cup {FreeSlot}
DirBlocks == [block_type : {"dir"}, entries : [Slots -> Entries]]
Nodes ==
    [block_type : {"inode"}, type : {"dir", "reg"}, size : 0 .. NUM_INODE_PTRS,
     refs : Nat \ {0}, pointers : [PtrIndex -> Logged \cup {-1}]]

\* What an inode points to is what its type says: the first size pointers of a
\* directory lead to directory blocks, a file's lead to data.
Fits(node) ==
    /\ node \in Nodes
    /\ node.type = "dir" => \A k \in PtrIndex :
         IF k < node.size THEN node.pointers[k] # -1 /\ At(node.pointers[k]) \in DirBlocks
         ELSE node.pointers[k] = -1
    /\ node.type = "reg" => \A k \in PtrIndex :
         node.pointers[k] # -1 => At(node.pointers[k]).block_type = "data"

\* A directory's places, and what is in one.
Places(node)     == (0 .. node.size - 1) \X Slots
EntryAt(node, x) == At(node.pointers[x[1]]).entries[x[2]]

\* No name is twice in a directory.
Distinct(node) ==
    \A x, y \in Places(node) :
        EntryAt(node, x) # FreeSlot /\ EntryAt(node, x)[1] = EntryAt(node, y)[1] => x = y

\* Every inode that is mapped is in order.
NodesOK ==
    \A i \in MappedInodes :
        Fits(InMemory(i)) /\ (InMemory(i).type = "dir" => Distinct(InMemory(i)))

\* What the proofs use of the constants.
LEMMA Constants ==
    /\ NUM_INODE_PTRS \in Nat \ {0} /\ DirSlots \in Nat /\ DirSlots >= 2
    /\ 0 \in PtrIndex /\ 0 \in Slots /\ 1 \in Slots
    /\ PtrIndex = 0 .. NUM_INODE_PTRS - 1
    /\ Names \cap Dots = {} /\ "-" \notin Names \cup Dots
    /\ ROOT_INODE \in Inums /\ -1 \notin Inums
<1>1. /\ NUM_INODE_PTRS \in Nat \ {0} /\ DirSlots \in Nat /\ DirSlots >= 2
      /\ Names \cap {"-", ".", ".."} = {}
  BY LfsAssumption
<1>2. NUM_INODES \in Nat \ {0}
  BY LfsAssumption DEF NUM_INODES
<1> QED BY <1>1, <1>2 DEF PtrIndex, Slots, Dots, ROOT_INODE, Inums

\* The free slot is not an entry.
LEMMA FreeIsNoName ==
    /\ FreeSlot[1] \notin Names \cup Dots
    /\ FreeSlot \notin (Names \cup Dots) \X Inums
<1>1. FreeSlot[1] = "-"
  BY DEF FreeSlot
<1> QED BY <1>1, Constants

\* The entries of a directory are those in its slots.
LEMMA PlaceOf ==
    ASSUME NEW node, Fits(node), node.type = "dir", NEW x \in Places(node)
    PROVE  /\ x[1] \in PtrIndex /\ x[1] \in 0 .. node.size - 1 /\ x[2] \in Slots /\ x = <<x[1], x[2]>>
           /\ node.pointers[x[1]] \in Logged /\ At(node.pointers[x[1]]) \in DirBlocks
           /\ EntryAt(node, x) \in Entries
<1>1. x[1] \in 0 .. node.size - 1 /\ x[2] \in Slots /\ x = <<x[1], x[2]>>
  BY DEF Places
<1>2. node.size \in 0 .. NUM_INODE_PTRS /\ node.pointers \in [PtrIndex -> Logged \cup {-1}]
  BY DEF Fits, Nodes
<1>3. x[1] \in PtrIndex /\ x[1] < node.size
  BY <1>1, <1>2, Constants
<1>4. node.pointers[x[1]] \in Logged /\ At(node.pointers[x[1]]) \in DirBlocks
  BY <1>2, <1>3 DEF Fits
<1> QED BY <1>1, <1>3, <1>4 DEF EntryAt, DirBlocks

\* The entries of a directory are what its places hold, the free slots left out.
LEMMA EntriesAre ==
    ASSUME NEW node, Fits(node), node.type = "dir", NEW e
    PROVE  e \in EntriesIn(node) <=> e # FreeSlot /\ \E x \in Places(node) : EntryAt(node, x) = e
<1>1. ASSUME e \in EntriesIn(node)
      PROVE  e # FreeSlot /\ \E x \in Places(node) : EntryAt(node, x) = e
  <2>0. PICK T \in {{At(a).entries[s] : s \in Slots} : a \in PointedBy(node)} : e \in T
    BY <1>1, Zenon DEF EntriesIn
  <2>1. PICK a \in PointedBy(node) : e \in {At(a).entries[s] : s \in Slots}
    BY <2>0, Zenon
  <2>2. PICK s \in Slots : e = At(a).entries[s]
    BY <2>1
  <2>3. PICK k \in PtrIndex : a = node.pointers[k] /\ a # -1
    BY <2>1 DEF PointedBy
  <2>4. k < node.size /\ k \in 0 .. node.size - 1
    <3>1. node.size \in 0 .. NUM_INODE_PTRS /\ k \in 0 .. NUM_INODE_PTRS - 1
      BY Constants DEF Fits, Nodes
    <3>2. k < node.size
      BY <2>3 DEF Fits
    <3> QED BY <3>1, <3>2, Constants
  <2>5. <<k, s>> \in Places(node) /\ EntryAt(node, <<k, s>>) = e
    BY <2>2, <2>3, <2>4 DEF Places, EntryAt
  <2>6. e # FreeSlot
    BY <1>1 DEF EntriesIn
  <2> QED BY <2>5, <2>6
<1>2. ASSUME e # FreeSlot, NEW x \in Places(node), EntryAt(node, x) = e
      PROVE  e \in EntriesIn(node)
  <2>1. x[1] \in PtrIndex /\ x[1] \in 0 .. node.size - 1 /\ x[2] \in Slots
    BY PlaceOf
  <2>2. node.pointers[x[1]] # -1
    <3>1. x[1] < node.size
      BY <2>1, Constants DEF Fits, Nodes
    <3> QED BY <2>1, <3>1 DEF Fits
  <2>3. node.pointers[x[1]] \in PointedBy(node)
    BY <2>1, <2>2 DEF PointedBy
  <2> DEFINE a == node.pointers[x[1]]
             T == {At(a).entries[s] : s \in Slots}
  <2>4. e \in T
    BY <1>2, <2>1 DEF EntryAt
  <2>5. T \in {{At(b).entries[s] : s \in Slots} : b \in PointedBy(node)}
    BY <2>3, Zenon
  <2> HIDE DEF T
  <2> QED BY <1>2, <2>4, <2>5 DEF EntriesIn
<1> QED BY <1>1, <1>2

\* They are names with inode numbers.
LEMMA EntriesTyped ==
    ASSUME NEW node, Fits(node), node.type = "dir", NEW e \in EntriesIn(node)
    PROVE  e \in (Names \cup Dots) \X Inums
<1>1. PICK x \in Places(node) : EntryAt(node, x) = e /\ e # FreeSlot
  BY EntriesAre
<1> QED BY <1>1, PlaceOf DEF Entries

\* A name is bound once.
LEMMA BoundOnce ==
    ASSUME NEW node, Fits(node), node.type = "dir", Distinct(node),
           NEW e \in EntriesIn(node), NEW f \in EntriesIn(node), e[1] = f[1]
    PROVE  e = f
<1>1. PICK x \in Places(node) : EntryAt(node, x) = e /\ e # FreeSlot
  BY EntriesAre
<1>2. PICK y \in Places(node) : EntryAt(node, y) = f
  BY EntriesAre
<1>3. x = y
  BY <1>1, <1>2 DEF Distinct
<1> QED BY <1>1, <1>2, <1>3

\* What an inode leads to stays there while the log grows.
LEMMA Stays ==
    ASSUME Typed, Extends, NEW node, Fits(node)
    PROVE  /\ Fits(node)'
           /\ \A x \in Places(node) : node.type = "dir" => EntryAt(node, x)' = EntryAt(node, x)
           /\ Distinct(node) /\ node.type = "dir" => Distinct(node)'
           /\ node.type = "dir" => EntriesIn(node)' = EntriesIn(node)
<1>1. node \in Nodes' /\ node.pointers \in [PtrIndex -> Logged \cup {-1}]
  BY DEF Fits, Nodes, Extends
<1>2. \A k \in PtrIndex : node.pointers[k] # -1 => At(node.pointers[k])' = At(node.pointers[k])
  BY <1>1 DEF Extends
<1>3. Fits(node)'
  BY <1>1, <1>2 DEF Fits, DirBlocks
<1>4. ASSUME node.type = "dir", NEW x \in Places(node) PROVE EntryAt(node, x)' = EntryAt(node, x)
  <2>1. node.pointers[x[1]] \in Logged
    BY <1>4, PlaceOf
  <2> QED BY <2>1 DEF Extends, EntryAt
<1>5. ASSUME node.type = "dir", Distinct(node) PROVE Distinct(node)'
  BY <1>4, <1>5 DEF Distinct, Places
<1>6. ASSUME node.type = "dir" PROVE EntriesIn(node)' = EntriesIn(node)
  <2>1. \A a \in PointedBy(node) : At(a)' = At(a)
    BY <1>2 DEF PointedBy
  <2> QED BY <2>1 DEF EntriesIn, PointedBy
<1> QED BY <1>3, <1>4, <1>5, <1>6

\* The same, in the next state.
EntryFacts ==
    \A node : Fits(node) /\ node.type = "dir" =>
        /\ \A e : e \in EntriesIn(node) <=> e # FreeSlot /\ \E x \in Places(node) : EntryAt(node, x) = e
        /\ \A x \in Places(node) : EntryAt(node, x) \in Entries

\* Both, now and after a step.
LEMMA EntryFactsHold == EntryFacts /\ EntryFacts'
<1>1. EntryFacts
  BY EntriesAre, PlaceOf DEF EntryFacts
<1> QED BY <1>1, PTL

\* EntriesAre after a step.
LEMMA EntriesAreAfter ==
    ASSUME NEW node, Fits(node)', node.type = "dir", NEW e
    PROVE  e \in EntriesIn(node)' <=> e # FreeSlot /\ \E x \in Places(node) : EntryAt(node, x)' = e
BY EntryFactsHold DEF EntryFacts, Places

\* EntriesTyped after a step, for a directory's places.
LEMMA EntriesTypedAfter ==
    ASSUME NEW node, Fits(node)', node.type = "dir", NEW x \in Places(node)
    PROVE  EntryAt(node, x)' \in Entries
BY EntryFactsHold DEF EntryFacts, Places

-----------------------------------------------------------------------------
\* A directory inode whose k-th block is another one, logged at address n.
LEMMA BlockReplaced ==
    ASSUME Typed, Extends, NEW node, Fits(node), node.type = "dir",
           NEW k \in PtrIndex, NEW n \in Logged', At(n)' \in DirBlocks, NEW next, NEW size \in Nat,
           \/ k < node.size /\ size = node.size
           \/ k = node.size /\ size = node.size + 1,
           next = InodeBlock("dir", size, node.refs, [node.pointers EXCEPT ![k] = n])
    PROVE  /\ Fits(next)' /\ next.type = "dir" /\ next.size = size /\ next.refs = node.refs
           /\ Places(node) \subseteq Places(next) /\ \A s \in Slots : <<k, s>> \in Places(next)
           /\ \A x \in Places(next) :
                /\ x[1] = k => EntryAt(next, x)' = At(n)'.entries[x[2]]
                /\ x[1] # k => x \in Places(node) /\ EntryAt(next, x)' = EntryAt(node, x)
<1>1. /\ node.pointers \in [PtrIndex -> Logged \cup {-1}] /\ node.size \in 0 .. NUM_INODE_PTRS
      /\ node.refs \in Nat \ {0}
  BY DEF Fits, Nodes
<1>2. /\ next.type = "dir" /\ next.size = size /\ next.refs = node.refs /\ next.block_type = "inode"
      /\ next.pointers = [node.pointers EXCEPT ![k] = n]
  BY DEF InodeBlock
<1>3. /\ next.pointers[k] = n
      /\ \A m \in PtrIndex : m # k => next.pointers[m] = node.pointers[m]
      /\ next.pointers \in [PtrIndex -> Logged' \cup {-1}]
  BY <1>1, <1>2 DEF Extends
<1>4. /\ size \in 0 .. NUM_INODE_PTRS /\ k < size
      /\ \A m \in PtrIndex : m # k => (m < size <=> m < node.size)
      /\ node.size <= size /\ k \in 0 .. size - 1
      /\ \A m \in 0 .. size - 1 : m # k => m \in 0 .. node.size - 1
  BY <1>1, Constants
<1>5. next \in Nodes'
  BY <1>1, <1>2, <1>3, <1>4 DEF Nodes, InodeBlock
<1>6. \A m \in PtrIndex : node.pointers[m] # -1 => At(node.pointers[m])' = At(node.pointers[m])
  BY <1>1 DEF Extends
<1>7. ASSUME NEW m \in PtrIndex
      PROVE  IF m < size THEN next.pointers[m] # -1 /\ At(next.pointers[m])' \in DirBlocks
             ELSE next.pointers[m] = -1
  <2>1. CASE m = k
    <3>1. n # -1
      BY DEF Logged
    <3> QED BY <1>3, <1>4, <2>1, <3>1
  <2>2. CASE m # k
    <3>1. next.pointers[m] = node.pointers[m] /\ (m < size <=> m < node.size)
      BY <1>3, <1>4, <2>2
    <3>2. IF m < node.size THEN node.pointers[m] # -1 /\ At(node.pointers[m]) \in DirBlocks
          ELSE node.pointers[m] = -1
      BY DEF Fits
    <3> QED BY <1>6, <3>1, <3>2
  <2> QED BY <2>1, <2>2
<1>8. Fits(next)'
  <2>1. next.type # "reg"
    BY <1>2
  <2> QED BY <1>2, <1>5, <1>7, <2>1 DEF Fits, DirBlocks
<1>9. Places(node) \subseteq Places(next) /\ \A s \in Slots : <<k, s>> \in Places(next)
  <2>1. 0 .. node.size - 1 \subseteq 0 .. size - 1
    BY <1>1, <1>4
  <2> QED BY <1>2, <1>4, <2>1 DEF Places
<1>10. ASSUME NEW x \in Places(next), x[1] = k PROVE EntryAt(next, x)' = At(n)'.entries[x[2]]
  BY <1>3, <1>10 DEF EntryAt
<1>11. ASSUME NEW x \in Places(next), x[1] # k
       PROVE  x \in Places(node) /\ EntryAt(next, x)' = EntryAt(node, x)
  <2>1. x[1] \in 0 .. size - 1 /\ x[2] \in Slots /\ x = <<x[1], x[2]>>
    BY <1>2 DEF Places
  <2>2. x \in Places(node)
    BY <1>4, <1>11, <2>1 DEF Places
  <2>3. x[1] \in PtrIndex /\ node.pointers[x[1]] \in Logged
    BY <2>2, PlaceOf
  <2>4. next.pointers[x[1]] = node.pointers[x[1]]
    BY <1>3, <1>11, <2>3
  <2> QED BY <2>2, <2>3, <2>4 DEF EntryAt, Extends
<1> QED BY <1>2, <1>8, <1>9, <1>10, <1>11

\* One slot of a block set, the others as they were.
LEMMA SlotSet ==
    ASSUME NEW block \in DirBlocks, NEW s \in Slots, NEW e \in Entries
    PROVE  /\ SetSlot(block, s, e) \in DirBlocks
           /\ SetSlot(block, s, e).entries[s] = e
           /\ \A t \in Slots : t # s => SetSlot(block, s, e).entries[t] = block.entries[t]
BY DEF SetSlot, DirBlocks

\* A new directory block has free slots only.
LEMMA EmptyBlock ==
    /\ EmptyDirBlock \in DirBlocks
    /\ \A s \in Slots : EmptyDirBlock.entries[s] = FreeSlot
BY DEF EmptyDirBlock, DirBlocks, Entries

\* The search for a free slot goes block by block and slot by slot: among places
\* there is a first one.
LEMMA FirstPlace ==
    ASSUME NEW T, T \subseteq Nat \X Nat, T # {}
    PROVE  \E x \in T : \A y \in T : x[1] < y[1] \/ (x[1] = y[1] /\ x[2] <= y[2])
<1> DEFINE Blocks == {x[1] : x \in T}
<1>1. PICK b \in Blocks : \A c \in Blocks : b <= c
  <2>1. Blocks \subseteq Nat /\ Blocks # {}
    OBVIOUS
  <2> QED BY <2>1, SmallestNumber
<1> DEFINE InBlock == {x[2] : x \in {y \in T : y[1] = b}}
<1>2. PICK t \in InBlock : \A u \in InBlock : t <= u
  <2>1. InBlock \subseteq Nat /\ InBlock # {}
    BY <1>1
  <2> QED BY <2>1, SmallestNumber
<1>3. PICK x \in T : x[1] = b /\ x[2] = t
  BY <1>2
<1>4. ASSUME NEW y \in T PROVE x[1] < y[1] \/ (x[1] = y[1] /\ x[2] <= y[2])
  <2>1. b <= y[1] /\ b \in Nat /\ y[1] \in Nat
    BY <1>1
  <2>2. y[1] = b => t <= y[2]
    BY <1>2
  <2> QED BY <1>3, <2>1, <2>2
<1> QED BY <1>3, <1>4

\* __add_dir_entry: the directory has the name it did not have, and all that it had.
LEMMA EntryAdded ==
    ASSUME Typed, Extends, NEW node, Fits(node), node.type = "dir", Distinct(node),
           NEW name \in Names, NEW inum \in Inums, \A e \in EntriesIn(node) : e[1] # name,
           NEW new \in AddDirEntry(node, name, inum),
           NEW n \in Logged', At(n)' = new.block,
           NEW next, next = WithEntry(node, new, n)
    PROVE  /\ Fits(next)' /\ Distinct(next)' /\ next.type = "dir" /\ next.refs = node.refs
           /\ EntriesIn(next)' = EntriesIn(node) \cup {<<name, inum>>}
<1> DEFINE e0 == <<name, inum>>
<1>1. e0 \in Entries /\ e0 # FreeSlot /\ e0[1] = name
  BY FreeIsNoName DEF Entries
<1>2. \E k \in PtrIndex, s \in Slots, size \in Nat :
        /\ \/ k < node.size /\ size = node.size
           \/ k = node.size /\ size = node.size + 1
        /\ new.index = k /\ new.size = size
        /\ new.block \in DirBlocks /\ new.block.entries[s] = e0
        /\ \A t \in Slots \ {s} :
             IF k < node.size THEN new.block.entries[t] = At(node.pointers[k]).entries[t]
             ELSE new.block.entries[t] = FreeSlot
        /\ k < node.size => EntryAt(node, <<k, s>>) = FreeSlot
  <2>1. CASE FreeSlots(node) # {}
    <3> DEFINE first == CHOOSE x \in FreeSlots(node) : \A y \in FreeSlots(node) :
                        x[1] < y[1] \/ (x[1] = y[1] /\ x[2] <= y[2])
    <3>1. first \in FreeSlots(node)
      <4>1. PtrIndex \subseteq Nat /\ node.size \in Nat /\ Slots \subseteq Nat
        BY Constants DEF Fits, Nodes, PtrIndex, Slots
      <4>2. ASSUME NEW x \in FreeSlots(node) PROVE x \in Nat \X Nat
        <5>1. x \in (0 .. node.size - 1) \X Slots
          BY <4>2 DEF FreeSlots
        <5>2. x = <<x[1], x[2]>> /\ x[1] \in 0 .. node.size - 1 /\ x[2] \in Slots
          BY <5>1
        <5>3. x[1] \in Nat /\ x[2] \in Nat
          BY <4>1, <5>2
        <5> QED BY <5>2, <5>3
      <4> QED BY <2>1, <4>2, FirstPlace
    <3>2. new = [index |-> first[1], size |-> node.size,
                 block |-> SetSlot(At(node.pointers[first[1]]), first[2], e0)]
      BY <2>1 DEF AddDirEntry
    <3> HIDE DEF first
    <3>3. first \in Places(node) /\ EntryAt(node, first) = FreeSlot
      BY <3>1 DEF FreeSlots, Places, EntryAt
    <3>4. /\ first[1] \in PtrIndex /\ first[1] < node.size /\ first[2] \in Slots
          /\ first = <<first[1], first[2]>> /\ At(node.pointers[first[1]]) \in DirBlocks
      <4>1. /\ first[1] \in PtrIndex /\ first[1] \in 0 .. node.size - 1 /\ first[2] \in Slots
            /\ first = <<first[1], first[2]>> /\ At(node.pointers[first[1]]) \in DirBlocks
        BY <3>3, PlaceOf
      <4>2. node.size \in Nat
        BY Constants DEF Fits, Nodes
      <4> QED BY <4>1, <4>2
    <3> DEFINE b == SetSlot(At(node.pointers[first[1]]), first[2], e0)
    <3>5. /\ b \in DirBlocks /\ b.entries[first[2]] = e0
          /\ \A t \in Slots : t # first[2] => b.entries[t] = At(node.pointers[first[1]]).entries[t]
      BY <1>1, <3>4, SlotSet
    <3>6. new.index = first[1] /\ new.size = node.size /\ new.block = b
      BY <3>2
    <3>7. node.size \in Nat
      BY Constants DEF Fits, Nodes
    <3> HIDE DEF b, e0
    <3> QED BY <3>3, <3>4, <3>5, <3>6, <3>7
  <2>2. CASE FreeSlots(node) = {}
    <3>1. /\ node.size # NUM_INODE_PTRS
          /\ new = [index |-> node.size, size |-> node.size + 1,
                    block |-> SetSlot(EmptyDirBlock, 0, e0)]
      BY <2>2 DEF AddDirEntry
    <3>2. node.size \in PtrIndex /\ ~(node.size < node.size)
      BY <3>1, Constants DEF Fits, Nodes
    <3> DEFINE b == SetSlot(EmptyDirBlock, 0, e0)
    <3>3. /\ b \in DirBlocks /\ b.entries[0] = e0
          /\ \A t \in Slots : t # 0 => b.entries[t] = FreeSlot
      BY <1>1, Constants, EmptyBlock, SlotSet
    <3>4. new.index = node.size /\ new.size = node.size + 1 /\ new.block = b
      BY <3>1
    <3> HIDE DEF b, e0
    <3> QED BY <3>2, <3>3, <3>4, Constants
  <2> QED BY <2>1, <2>2
<1>3. PICK k \in PtrIndex, s \in Slots, size \in Nat :
        /\ \/ k < node.size /\ size = node.size
           \/ k = node.size /\ size = node.size + 1
        /\ new.index = k /\ new.size = size
        /\ new.block \in DirBlocks /\ new.block.entries[s] = e0
        /\ \A t \in Slots \ {s} :
             IF k < node.size THEN new.block.entries[t] = At(node.pointers[k]).entries[t]
             ELSE new.block.entries[t] = FreeSlot
        /\ k < node.size => EntryAt(node, <<k, s>>) = FreeSlot
  BY <1>2
<1> HIDE DEF e0
<1>4. next = InodeBlock("dir", size, node.refs, [node.pointers EXCEPT ![k] = n])
  BY <1>3 DEF WithEntry
<1>5. /\ Fits(next)' /\ next.type = "dir" /\ next.size = size /\ next.refs = node.refs
      /\ Places(node) \subseteq Places(next) /\ \A t \in Slots : <<k, t>> \in Places(next)
      /\ \A x \in Places(next) :
            /\ x[1] = k => EntryAt(next, x)' = At(n)'.entries[x[2]]
            /\ x[1] # k => x \in Places(node) /\ EntryAt(next, x)' = EntryAt(node, x)
  <2>1. At(n)' \in DirBlocks
    BY <1>3
  <2>2. \/ k < node.size /\ size = node.size
        \/ k = node.size /\ size = node.size + 1
    BY <1>3
  <2> QED BY <1>4, <2>1, <2>2, BlockReplaced
<1>6. ASSUME NEW x \in Places(next)
      PROVE  /\ x = <<k, s>> => EntryAt(next, x)' = e0 /\ (x \in Places(node) => EntryAt(node, x) = FreeSlot)
             /\ x # <<k, s>> => \/ x \in Places(node) /\ EntryAt(next, x)' = EntryAt(node, x)
                                \/ x \notin Places(node) /\ EntryAt(next, x)' = FreeSlot
  <2>1. x[1] \in 0 .. size - 1 /\ x[2] \in Slots /\ x = <<x[1], x[2]>>
    BY <1>5 DEF Places
  <2>2. CASE x = <<k, s>>
    <3>1. x[1] = k /\ x[2] = s
      BY <2>2
    <3>2. EntryAt(next, x)' = e0
      BY <1>3, <1>5, <3>1
    <3>3. x \in Places(node) => k < node.size
      <4>1. x \in Places(node) => k \in 0 .. node.size - 1
        BY <3>1 DEF Places
      <4>2. node.size \in Nat
        BY Constants DEF Fits, Nodes
      <4> QED BY <4>1, <4>2
    <3> QED BY <1>3, <2>2, <3>2, <3>3
  <2>3. CASE x[1] # k
    BY <1>5, <2>3
  <2>4. CASE x[1] = k /\ x[2] # s
    <3>1. EntryAt(next, x)' = new.block.entries[x[2]] /\ x[2] \in Slots \ {s} /\ x # <<k, s>>
      BY <1>5, <2>1, <2>4
    <3>2. CASE k < node.size
      <4>1. x \in Places(node)
        <5>1. k \in 0 .. node.size - 1
          BY <3>2, Constants DEF Fits, Nodes
        <5> QED BY <2>1, <2>4, <5>1 DEF Places
      <4>2. EntryAt(next, x)' = EntryAt(node, x)
        BY <1>3, <2>4, <3>1, <3>2 DEF EntryAt
      <4> QED BY <3>1, <4>1, <4>2
    <3>3. CASE k = node.size
      <4>1. x \notin Places(node)
        <5>1. k \notin 0 .. node.size - 1
          BY <3>3, Constants DEF Fits, Nodes
        <5> QED BY <2>4, <5>1 DEF Places
      <4>2. ~(k < node.size)
        BY <3>3, Constants DEF Fits, Nodes
      <4>3. EntryAt(next, x)' = FreeSlot
        BY <1>3, <3>1, <4>2
      <4> QED BY <3>1, <4>1, <4>3
    <3> QED BY <1>3, <3>2, <3>3
  <2> QED BY <2>1, <2>2, <2>3, <2>4
<1>7. \A e : e \in EntriesIn(next)' <=> e \in EntriesIn(node) \cup {e0}
  <2> TAKE e
  <2>1. e \in EntriesIn(next)' <=> e # FreeSlot /\ \E x \in Places(next) : EntryAt(next, x)' = e
    BY <1>5, EntriesAreAfter
  <2>2. e \in EntriesIn(node) <=> e # FreeSlot /\ \E x \in Places(node) : EntryAt(node, x) = e
    BY EntriesAre
  <2>3. ASSUME e = e0 PROVE e \in EntriesIn(next)'
    BY <1>1, <1>5, <1>6, <2>1, <2>3
  <2>4. ASSUME e # FreeSlot, NEW x \in Places(node), EntryAt(node, x) = e
        PROVE  e \in EntriesIn(next)'
    BY <1>5, <1>6, <2>1, <2>4
  <2>5. ASSUME e # FreeSlot, NEW x \in Places(next), EntryAt(next, x)' = e
        PROVE  e \in EntriesIn(node) \cup {e0}
    BY <1>6, <2>2, <2>5
  <2> QED BY <2>1, <2>2, <2>3, <2>4, <2>5
<1>8. Distinct(next)'
  <2> SUFFICES ASSUME NEW x \in Places(next), NEW y \in Places(next),
                      EntryAt(next, x)' # FreeSlot, EntryAt(next, x)'[1] = EntryAt(next, y)'[1]
               PROVE  x = y
    BY DEF Distinct, Places
  <2>1. \A z \in Places(node) : EntryAt(node, z) # FreeSlot => EntryAt(node, z)[1] # name
    BY EntriesAre
  <2>2. FreeSlot[1] # name
    BY FreeIsNoName
  <2>3. EntryAt(next, y)' # FreeSlot
    <3>1. EntryAt(next, x)' \in Entries
      BY <1>5, EntriesTypedAfter
    <3>2. EntryAt(next, x)'[1] \in Names \cup Dots
      BY <3>1 DEF Entries
    <3> QED BY <3>2, FreeIsNoName
  <2>4. CASE x = <<k, s>>
    BY <1>1, <1>6, <2>1, <2>3, <2>4
  <2>5. CASE y = <<k, s>>
    BY <1>1, <1>6, <2>1, <2>3, <2>5
  <2>6. CASE x # <<k, s>> /\ y # <<k, s>>
    BY <1>6, <2>3, <2>6 DEF Distinct
  <2> QED BY <2>4, <2>5, <2>6
<1>9. EntriesIn(next)' = EntriesIn(node) \cup {e0}
  BY <1>7
<1> QED BY <1>5, <1>8, <1>9 DEF e0

-----------------------------------------------------------------------------
\* file_delete: the directory without the entry in one of its slots.
LEMMA EntryRemoved ==
    ASSUME Typed, Extends, NEW node, Fits(node), node.type = "dir", Distinct(node),
           NEW k \in PtrIndex, NEW s \in Slots, k < node.size, EntryAt(node, <<k, s>>) # FreeSlot,
           NEW n \in Logged', At(n)' = SetSlot(At(node.pointers[k]), s, FreeSlot),
           NEW next, next = [node EXCEPT !.pointers[k] = n]
    PROVE  /\ Fits(next)' /\ Distinct(next)' /\ next.type = "dir" /\ next.refs = node.refs
           /\ EntriesIn(next)' = EntriesIn(node) \ {EntryAt(node, <<k, s>>)}
<1> DEFINE e0 == EntryAt(node, <<k, s>>)
           block == At(node.pointers[k])
<1>0. node.size \in 0 .. NUM_INODE_PTRS /\ node.size \in Nat
  BY Constants DEF Fits, Nodes
<1>1. <<k, s>> \in Places(node) /\ block \in DirBlocks /\ e0 = block.entries[s]
  <2>1. k \in 0 .. node.size - 1
    BY <1>0, Constants
  <2>2. <<k, s>> \in Places(node)
    BY <2>1 DEF Places
  <2>3. <<k, s>>[1] = k /\ <<k, s>>[2] = s
    OBVIOUS
  <2> QED BY <2>2, <2>3, PlaceOf DEF EntryAt
<1> HIDE DEF block, e0
<1>2. /\ At(n)' \in DirBlocks /\ At(n)'.entries[s] = FreeSlot
      /\ \A t \in Slots : t # s => At(n)'.entries[t] = block.entries[t]
  <2>1. FreeSlot \in Entries
    BY DEF Entries
  <2>2. At(n)' = SetSlot(block, s, FreeSlot)
    BY DEF block
  <2> QED BY <1>1, <2>1, <2>2, SlotSet
<1>3. next = InodeBlock("dir", node.size, node.refs, [node.pointers EXCEPT ![k] = n])
  BY DEF InodeBlock, Fits, Nodes
<1>4. /\ Fits(next)' /\ next.type = "dir" /\ next.size = node.size /\ next.refs = node.refs
      /\ Places(node) \subseteq Places(next) /\ \A t \in Slots : <<k, t>> \in Places(next)
      /\ \A x \in Places(next) :
            /\ x[1] = k => EntryAt(next, x)' = At(n)'.entries[x[2]]
            /\ x[1] # k => x \in Places(node) /\ EntryAt(next, x)' = EntryAt(node, x)
  <2>1. node.size \in Nat
    BY Constants DEF Fits, Nodes
  <2> QED BY <1>2, <1>3, <2>1, BlockReplaced
<1>5. Places(next) = Places(node)
  BY <1>4 DEF Places
<1>6. ASSUME NEW x \in Places(next)
      PROVE  EntryAt(next, x)' = IF x = <<k, s>> THEN FreeSlot ELSE EntryAt(node, x)
  <2>1. x = <<x[1], x[2]>> /\ x[2] \in Slots
    BY DEF Places
  <2>2. CASE x = <<k, s>>
    <3>1. x[1] = k /\ x[2] = s
      BY <2>2
    <3> QED BY <1>2, <1>4, <2>2, <3>1
  <2>3. CASE x[1] = k /\ x[2] # s
    <3>1. EntryAt(next, x)' = block.entries[x[2]] /\ x # <<k, s>>
      BY <1>2, <1>4, <2>1, <2>3
    <3> QED BY <2>3, <3>1 DEF EntryAt, block
  <2>4. CASE x[1] # k
    <3>1. x # <<k, s>>
      BY <2>4
    <3> QED BY <1>4, <2>4, <3>1
  <2> QED BY <2>1, <2>2, <2>3, <2>4
<1>7. \A x \in Places(node) : x # <<k, s>> => EntryAt(node, x) # e0
  BY <1>1 DEF Distinct, e0
<1>8. \A e : e \in EntriesIn(next)' <=> e \in EntriesIn(node) \ {e0}
  <2> TAKE e
  <2>1. e \in EntriesIn(next)' <=> e # FreeSlot /\ \E x \in Places(next) : EntryAt(next, x)' = e
    BY <1>4, EntriesAreAfter
  <2>2. e \in EntriesIn(node) <=> e # FreeSlot /\ \E x \in Places(node) : EntryAt(node, x) = e
    BY EntriesAre
  <2>3. ASSUME e # FreeSlot, e # e0, NEW x \in Places(node), EntryAt(node, x) = e
        PROVE  e \in EntriesIn(next)'
    <3>1. x # <<k, s>> /\ x \in Places(next)
      BY <1>5, <2>3 DEF e0
    <3> QED BY <1>6, <2>1, <2>3, <3>1
  <2>4. ASSUME e # FreeSlot, NEW x \in Places(next), EntryAt(next, x)' = e
        PROVE  e \in EntriesIn(node) \ {e0}
    <3>1. x # <<k, s>> /\ x \in Places(node) /\ EntryAt(node, x) = e
      BY <1>5, <1>6, <2>4
    <3> QED BY <1>7, <2>2, <2>4, <3>1
  <2> QED BY <2>1, <2>2, <2>3, <2>4
<1>9. EntriesIn(next)' = EntriesIn(node) \ {e0}
  BY <1>8
<1>10. Distinct(next)'
  <2> SUFFICES ASSUME NEW x \in Places(next), NEW y \in Places(next),
                      EntryAt(next, x)' # FreeSlot, EntryAt(next, x)'[1] = EntryAt(next, y)'[1]
               PROVE  x = y
    BY DEF Distinct, Places
  <2>1. EntryAt(next, x)'[1] # FreeSlot[1]
    <3>1. EntryAt(next, x)' \in Entries
      BY <1>4, EntriesTypedAfter
    <3>2. EntryAt(next, x)'[1] \in Names \cup Dots
      BY <3>1 DEF Entries
    <3> QED BY <3>2, FreeIsNoName
  <2>2. x # <<k, s>> /\ y # <<k, s>>
    BY <1>6, <2>1
  <2> QED BY <1>5, <1>6, <2>2 DEF Distinct
<1> QED BY <1>4, <1>9, <1>10 DEF e0

\* An inode's count is changed.
LEMMA Recounted ==
    ASSUME NEW node, Fits(node)', NEW r \in Nat \ {0},
           NEW next, next = [node EXCEPT !.refs = r]
    PROVE  /\ Fits(next)' /\ next.type = node.type /\ next.size = node.size /\ next.refs = r
           /\ next.pointers = node.pointers /\ EntriesIn(next)' = EntriesIn(node)'
           /\ Distinct(node)' => Distinct(next)'
<1>1. /\ next.type = node.type /\ next.size = node.size /\ next.refs = r
      /\ next.pointers = node.pointers /\ next \in Nodes'
  BY DEF Fits, Nodes
<1>2. Fits(next)'
  BY <1>1 DEF Fits
<1>3. EntriesIn(next)' = EntriesIn(node)'
  BY <1>1 DEF EntriesIn, PointedBy
<1>4. Distinct(node)' => Distinct(next)'
  <2>1. Places(next) = Places(node) /\ \A x : EntryAt(next, x)' = EntryAt(node, x)'
    BY <1>1 DEF Places, EntryAt
  <2> QED BY <2>1 DEF Distinct
<1> QED BY <1>1, <1>2, <1>3, <1>4

\* file_create: the inode of a file is in order.
LEMMA NewFile ==
    ASSUME NEW next, next = NewInode("reg", 0, 1)
    PROVE  /\ Fits(next)' /\ next.type = "reg" /\ next.refs = 1
           /\ \A k \in PtrIndex : next.pointers[k] = -1
<1>1. /\ next \in Nodes' /\ next.type = "reg" /\ next.refs = 1
      /\ \A k \in PtrIndex : next.pointers[k] = -1
  BY Constants DEF NewInode, InodeBlock, Nodes
<1> QED BY <1>1 DEF Fits

\* file_create: a new directory is in order and has the two dots.
LEMMA DirWithDots ==
    ASSUME NEW n \in Logged, NEW parent \in Inums, NEW inum \in Inums,
           At(n) = NewDirBlock(parent, inum), NEW next, next = NewDirInode(n)
    PROVE  /\ Fits(next) /\ Distinct(next) /\ next.type = "dir" /\ next.refs = 2
           /\ EntriesIn(next) = {<<".", inum>>, <<"..", parent>>}
<1> DEFINE one == <<".", inum>>
           two == <<"..", parent>>
           inner == SetSlot(EmptyDirBlock, 0, one)
           block == SetSlot(inner, 1, two)
<1>1. one \in Entries /\ two \in Entries /\ one[1] # two[1] /\ one # FreeSlot /\ two # FreeSlot
  <2>1. one \in (Names \cup Dots) \X Inums /\ two \in (Names \cup Dots) \X Inums
    BY DEF Dots
  <2> QED BY <2>1, FreeIsNoName DEF Entries
<1> HIDE DEF one, two
<1>2. inner \in DirBlocks /\ inner.entries[0] = one /\ \A t \in Slots : t # 0 => inner.entries[t] = FreeSlot
  <2>1. /\ inner \in DirBlocks /\ inner.entries[0] = one
        /\ \A t \in Slots : t # 0 => inner.entries[t] = EmptyDirBlock.entries[t]
    <3>1. EmptyDirBlock \in DirBlocks /\ 0 \in Slots
      BY Constants, EmptyBlock
    <3> QED BY <1>1, <3>1, SlotSet
  <2> HIDE DEF inner
  <2> QED BY <2>1, EmptyBlock
<1> HIDE DEF inner
<1>3. /\ block \in DirBlocks /\ block.entries[1] = two
      /\ \A t \in Slots : t # 1 => block.entries[t] = inner.entries[t]
  BY <1>1, <1>2, Constants, SlotSet
<1>4. At(n) = block
  BY DEF NewDirBlock, block, inner, one, two
<1> HIDE DEF block
<1>5. /\ next.type = "dir" /\ next.refs = 2 /\ next.size = 1 /\ next \in Nodes
      /\ next.pointers[0] = n /\ \A k \in PtrIndex : k # 0 => next.pointers[k] = -1
  BY Constants DEF NewDirInode, InodeBlock, Nodes
<1>6. n # -1
  BY DEF Logged
<1>7. Fits(next)
  <2>1. \A k \in PtrIndex : k < 1 <=> k = 0
    BY Constants
  <2> QED BY <1>3, <1>4, <1>5, <1>6, <2>1 DEF Fits, DirBlocks
<1>8. \A x : x \in Places(next) <=> \E s \in Slots : x = <<0, s>>
  <2>1. 0 .. 0 = {0}
    OBVIOUS
  <2>2. Places(next) = {0} \X Slots
    BY <1>5, <2>1 DEF Places
  <2> QED BY <2>2
<1>9. ASSUME NEW s \in Slots
      PROVE  EntryAt(next, <<0, s>>) = IF s = 0 THEN one ELSE IF s = 1 THEN two ELSE FreeSlot
  <2>1. EntryAt(next, <<0, s>>) = block.entries[s]
    BY <1>4, <1>5 DEF EntryAt
  <2> QED BY <1>2, <1>3, <2>1, Constants
<1>10. \A e : e \in EntriesIn(next) <=> e \in {one, two}
  <2> TAKE e
  <2>1. e \in EntriesIn(next) <=> e # FreeSlot /\ \E x \in Places(next) : EntryAt(next, x) = e
    BY <1>5, <1>7, EntriesAre
  <2>2. e \in EntriesIn(next) <=> e # FreeSlot /\ \E s \in Slots : EntryAt(next, <<0, s>>) = e
    BY <1>8, <2>1
  <2>3. e # FreeSlot => ((\E s \in Slots : EntryAt(next, <<0, s>>) = e) <=> e \in {one, two})
    <3>1. 0 \in Slots /\ 1 \in Slots
      BY Constants
    <3>2. EntryAt(next, <<0, 0>>) = one /\ EntryAt(next, <<0, 1>>) = two
      BY <1>9, <3>1
    <3>3. ASSUME e # FreeSlot, NEW s \in Slots, EntryAt(next, <<0, s>>) = e
          PROVE  e \in {one, two}
      BY <1>9, <3>3
    <3> QED BY <3>1, <3>2, <3>3
  <2> QED BY <1>1, <2>2, <2>3
<1>11. EntriesIn(next) = {one, two}
  BY <1>10
<1>12. Distinct(next)
  <2> SUFFICES ASSUME NEW x \in Places(next), NEW y \in Places(next),
                      EntryAt(next, x) # FreeSlot, EntryAt(next, x)[1] = EntryAt(next, y)[1]
               PROVE  x = y
    BY DEF Distinct, Places
  <2>1. PICK s \in Slots : x = <<0, s>>
    BY <1>8
  <2>2. PICK t \in Slots : y = <<0, t>>
    BY <1>8
  <2>3. one[1] # FreeSlot[1] /\ two[1] # FreeSlot[1]
    BY FreeIsNoName DEF one, two, Dots
  <2> QED BY <1>1, <1>9, <2>1, <2>2, <2>3
<1> QED BY <1>5, <1>7, <1>11, <1>12 DEF one, two

\* The same of any number, and in the next state.
DirFacts ==
    \A n, next : \A parent, inum \in Inums :
        n \in Logged /\ At(n) = NewDirBlock(parent, inum) /\ next = NewDirInode(n) =>
            /\ Fits(next) /\ Distinct(next) /\ next.type = "dir" /\ next.refs = 2
            /\ EntriesIn(next) = {<<".", inum>>, <<"..", parent>>}

\* They hold.
LEMMA DirFactsHold == DirFacts /\ DirFacts'
<1>1. DirFacts
  BY DirWithDots DEF DirFacts
<1> QED BY <1>1, PTL

\* DirWithDots after a step.
LEMMA NewDir ==
    ASSUME NEW n \in Logged', NEW parent \in Inums, NEW inum \in Inums,
           At(n)' = NewDirBlock(parent, inum), NEW next, next = NewDirInode(n)
    PROVE  /\ Fits(next)' /\ Distinct(next)' /\ next.type = "dir" /\ next.refs = 2
           /\ EntriesIn(next)' = {<<".", inum>>, <<"..", parent>>}
BY DirFactsHold DEF DirFacts

\* file_write: the blocks of the inode from offset on are new ones.
Rewritten(node, offset, last, n) ==
    InodeBlock("reg", last, node.refs,
               [k \in PtrIndex |-> IF k \in offset .. last - 1 THEN n + k - offset ELSE node.pointers[k]])

\* The new blocks are data, on the log.
DataFrom(n, offset, last) ==
    \A k \in offset .. last - 1 : n + k - offset \in Logged' /\ At(n + k - offset)' = DataBlock

\* The inode that is written is in order.
LEMMA Written ==
    ASSUME Typed, Extends, NEW node, Fits(node), node.type = "reg",
           NEW offset \in PtrIndex, NEW last \in 0 .. NUM_INODE_PTRS, NEW n \in Nat,
           DataFrom(n, offset, last),
           NEW next, next = Rewritten(node, offset, last, n)
    PROVE  Fits(next)' /\ next.type = "reg" /\ next.refs = node.refs
<1>1. node.pointers \in [PtrIndex -> Logged \cup {-1}] /\ node.refs \in Nat \ {0}
  BY DEF Fits, Nodes
<1>2. /\ next.type = "reg" /\ next.refs = node.refs /\ next.block_type = "inode" /\ next.size = last
      /\ next.pointers = [k \in PtrIndex |-> IF k \in offset .. last - 1 THEN n + k - offset
                                             ELSE node.pointers[k]]
  BY DEF InodeBlock, Rewritten
<1>3. ASSUME NEW k \in PtrIndex
      PROVE  /\ next.pointers[k] \in Logged' \cup {-1}
             /\ next.pointers[k] # -1 => At(next.pointers[k])'.block_type = "data"
  <2>1. CASE k \in offset .. last - 1
    <3>1. next.pointers[k] = n + k - offset
      BY <1>2, <2>1
    <3> QED BY <2>1, <3>1 DEF DataBlock, DataFrom
  <2>2. CASE k \notin offset .. last - 1
    <3>1. next.pointers[k] = node.pointers[k]
      BY <1>2, <2>2
    <3> QED BY <1>1, <3>1 DEF Fits, Extends
  <2> QED BY <2>1, <2>2
<1>4. next \in Nodes'
  <2>1. next.pointers \in [PtrIndex -> Logged' \cup {-1}]
    BY <1>2, <1>3
  <2> QED BY <1>1, <1>2, <2>1 DEF Nodes, InodeBlock, Rewritten
<1> QED BY <1>2, <1>3, <1>4 DEF Fits

-----------------------------------------------------------------------------
\* Two versions of an inode that differ in the count of references only.
SameButRefs(one, two) ==
    one.type = two.type /\ one.size = two.size /\ one.pointers = two.pointers

\* An inode's address on disk, by the checkpoint region in memory.
AddrInChunk(i) == Chunked(inum_to_chunk(i)).map[i % NUM_INODES_PER_IMAP_CHUNK]

\* What the checkpoint region in memory leads to, on the log, is the file system.
Checkpoint ==
    /\ \A c \in Chunks : cr[c] # -1 => Chunked(c).block_type = "imap"
    /\ \A i \in Inums : cr[inum_to_chunk(i)] = -1 => inode_map[i] = -1
    /\ \A i \in Inums : cr[inum_to_chunk(i)] # -1 =>
         /\ AddrInChunk(i) = -1 <=> inode_map[i] = -1
         /\ AddrInChunk(i) # -1 =>
              /\ AddrInChunk(i) \in Logged /\ At(AddrInChunk(i)) \in Nodes
              /\ SameButRefs(At(AddrInChunk(i)), InMemory(i))

\* What holds of the log and the tables, before any directory is looked at as a whole.
Structure == Typed /\ NodesOK /\ Checkpoint

\* A number is mapped when its address is on the log.
LEMMA MappedAt ==
    ASSUME Typed, NEW i \in Inums
    PROVE  /\ inode_map[i] \in Logged \cup {-1} /\ -1 \notin Logged
           /\ i \in MappedInodes <=> inode_map[i] # -1
           /\ i \in MappedInodes <=> inode_map[i] \in Logged
BY DEF Typed, Logged, MappedInodes

\* The chunks that a command has written, and the others.
WrittenTo(chunks) ==
    \A c \in Chunks :
        IF c \in chunks THEN cr'[c] \in Logged' /\ Chunked(c)' = ImapChunk(inode_map', c)
        ELSE cr'[c] = cr[c]

\* A command's blocks are at the end of the log, its chunks where cr says.
Settled(n, blocks, map, chunks) ==
    /\ Typed' /\ Extends /\ inode_map' = map /\ failed' = failed
    /\ n \in Nat /\ n > 0 /\ Len(blocks) \in Nat
    /\ \A k \in 1 .. Len(blocks) : n + k - 1 \in Logged' /\ At(n + k - 1)' = blocks[k]
    /\ WrittenTo(chunks)

\* A command that writes the chunks of its inode numbers.
LEMMA Commits ==
    ASSUME Typed, NEW n, n = Len(disk), NEW blocks, IsSequence(blocks), NEW map,
           NEW i \in Inums, NEW j \in Inums, NEW inums,
           inums = <<i, j>> \/ (inums = <<i>> /\ j = i),
           Commit(blocks, map, inums),
           map = [m \in Inums |-> map[m]],
           \A m \in Inums : map[m] \in Logged \cup {-1} \cup (n .. n + Len(blocks) - 1)
    PROVE  Settled(n, blocks, map, {inum_to_chunk(i), inum_to_chunk(j)})
<1>1. /\ IsSequence(disk') /\ Len(disk) \in Nat /\ Len(disk') \in Nat /\ Len(blocks) \in Nat
      /\ Len(disk') > Len(disk) + Len(blocks)
      /\ mode' = mode /\ inode_map' = map /\ failed' = failed
      /\ disk'[1].block_type = "cp"
      /\ \A a \in 2 .. Len(disk) : disk'[a] = disk[a]
      /\ \A k \in 1 .. Len(blocks) : disk'[Len(disk) + k] = blocks[k]
      /\ cr' \in [Chunks -> Logged' \cup {-1}]
      /\ \A c \in Chunks :
           IF c \in {inum_to_chunk(i), inum_to_chunk(j)}
           THEN cr'[c] \in Logged' /\ disk'[cr'[c] + 1] = ImapChunk(map, c)
           ELSE cr'[c] = cr[c]
  <2>1. Grown(blocks, map, i, j)
    BY Committed
  <2> QED BY <2>1 DEF Grown
<1>2. PICK b, n2 : b = Len(blocks) /\ n2 = Len(disk')
  OBVIOUS
<1>3. Logged = 1 .. n - 1 /\ Logged' = 1 .. n2 - 1 /\ n \in Nat /\ n > 0 /\ b \in Nat /\ n2 \in Nat /\ n2 > n + b
  BY <1>1, <1>2 DEF Logged, Typed
<1>4. /\ Logged \subseteq Logged' /\ n .. n + b - 1 \subseteq Logged' /\ n2 > 0
      /\ \A a \in Logged' : a # -1 /\ a + 1 \in 2 .. n2
      /\ \A a \in Logged : a + 1 \in 2 .. n
  BY <1>3
<1>5. \A a \in Logged' : At(a)' = disk'[a + 1]
  BY <1>4 DEF At
<1>6. \A a \in Logged : At(a) = disk[a + 1]
  BY <1>4 DEF At
<1>7. Extends
  <2>1. \A a \in Logged : At(a)' = At(a)
    BY <1>1, <1>4, <1>5, <1>6
  <2> QED BY <1>4, <2>1 DEF Extends
<1>8. Typed'
  <2>1. inode_map' \in [Inums -> Logged' \cup {-1}]
    <3>1. \A m \in Inums : map[m] \in Logged' \cup {-1}
      BY <1>2, <1>4
    <3> QED BY <1>1, <3>1
  <2> QED BY <1>1, <1>2, <1>4, <2>1 DEF Typed
<1>9. ASSUME NEW k \in 1 .. b
      PROVE  n + k - 1 \in Logged' /\ At(n + k - 1)' = blocks[k]
  <2>1. PICK a : a = n + k - 1
    OBVIOUS
  <2>2. a \in n .. n + b - 1 /\ a + 1 = n + k
    BY <1>3, <2>1
  <2>3. a \in Logged' /\ At(a)' = disk'[n + k]
    BY <1>4, <1>5, <2>2
  <2>4. disk'[n + k] = blocks[k]
    BY <1>1, <1>2
  <2> QED BY <2>1, <2>3, <2>4
<1>10. WrittenTo({inum_to_chunk(i), inum_to_chunk(j)})
  BY <1>1 DEF Chunked, WrittenTo
<1> QED BY <1>1, <1>2, <1>3, <1>7, <1>8, <1>9, <1>10 DEF Settled

\* Inodes that a step leaves alone.
LEMMA Untouched ==
    ASSUME Structure, Extends, NEW i \in MappedInodes, inode_map'[i] = inode_map[i]
    PROVE  /\ i \in MappedInodes' /\ InMemory(i)' = InMemory(i)
           /\ Fits(InMemory(i))'
           /\ InMemory(i).type = "dir" =>
                Distinct(InMemory(i))' /\ EntriesIn(InMemory(i))' = EntriesIn(InMemory(i))
<1>1. PICK node : node = InMemory(i)
  OBVIOUS
<1>2. inode_map[i] \in Logged /\ i \in Inums
  BY MappedAt DEF Structure, MappedInodes
<1>3. InMemory(i)' = node /\ i \in MappedInodes'
  <2>1. At(inode_map[i])' = At(inode_map[i])
    BY <1>2 DEF Extends
  <2>2. PICK a : a = inode_map[i]
    OBVIOUS
  <2>3. At(a)' = At(a)
    BY <1>2, <2>2 DEF Extends
  <2> QED BY <1>1, <1>2, <2>2, <2>3, MappedAt DEF InMemory, MappedInodes, Structure
<1>4. Fits(node) /\ (node.type = "dir" => Distinct(node))
  BY <1>1 DEF Structure, NodesOK
<1>5. /\ Fits(node)'
      /\ Distinct(node) /\ node.type = "dir" => Distinct(node)'
      /\ node.type = "dir" => EntriesIn(node)' = EntriesIn(node)
  BY <1>4, Stays DEF Structure
<1> QED BY <1>1, <1>3, <1>4, <1>5

\* The inode of a number that is mapped to one of a command's blocks.
LEMMA NewVersion ==
    ASSUME NEW i \in Inums, NEW a \in Logged', inode_map'[i] = a
    PROVE  i \in MappedInodes' /\ InMemory(i)' = At(a)'
<1>1. a # -1
  BY DEF Logged
<1> QED BY <1>1 DEF MappedInodes, InMemory

\* A chunk that is written has the addresses of the map.
LEMMA ChunkWritten ==
    ASSUME Typed', NEW i \in Inums, Chunked(inum_to_chunk(i))' = ImapChunk(inode_map', inum_to_chunk(i))
    PROVE  AddrInChunk(i)' = inode_map'[i]
<1> DEFINE K == NUM_INODES_PER_IMAP_CHUNK
           c == inum_to_chunk(i)
           r == i % K
<1>1. r \in 0 .. K - 1 /\ c * K + r = i
  BY ChunkOf
<1> HIDE DEF K, c, r
<1>2. ImapChunk(inode_map', c).map[r] = inode_map'[c * K + r]
  BY <1>1 DEF ImapChunk, K
<1>3. AddrInChunk(i)' = ImapChunk(inode_map', c).map[r]
  BY DEF AddrInChunk, r, c, K
<1> QED BY <1>1, <1>2, <1>3

\* A chunk that is not written stays what it is.
LEMMA ChunkKept ==
    ASSUME Typed, Typed', Extends, NEW c \in Chunks, cr'[c] = cr[c], cr[c] \in Logged
    PROVE  Chunked(c)' = Chunked(c)
<1>1. PICK a : a = cr[c]
  OBVIOUS
<1>2. a \in Logged /\ a \in Logged' /\ At(a)' = At(a) /\ a # -1
  BY <1>1 DEF Extends, Logged
<1> QED BY <1>1, <1>2 DEF Chunked, At

\* A step that maps some numbers anew keeps the structure if their inodes are right
\* and the chunks they are in are written; a chunk that is not may be out of date
\* in the count of references.
LEMMA Rebuild ==
    ASSUME Structure, Typed', Extends, NEW changed \in SUBSET Inums,
           NEW written \in SUBSET Chunks,
           WrittenTo(written),
           \A i \in Inums \ changed : inode_map'[i] = inode_map[i],
           \A i \in changed :
              /\ i \in MappedInodes' => Fits(InMemory(i))' /\ (InMemory(i)'.type = "dir" => Distinct(InMemory(i))')
              /\ inum_to_chunk(i) \notin written =>
                    i \in MappedInodes /\ i \in MappedInodes' /\ SameButRefs(InMemory(i)', InMemory(i))
    PROVE  Structure'
<1>0. \A c \in Chunks : IF c \in written
                        THEN cr'[c] \in Logged' /\ Chunked(c)' = ImapChunk(inode_map', c)
                        ELSE cr'[c] = cr[c]
  BY DEF WrittenTo
<1>1. ASSUME NEW i \in MappedInodes'
      PROVE  Fits(InMemory(i))' /\ (InMemory(i)'.type = "dir" => Distinct(InMemory(i))')
  <2>1. CASE i \in changed
    BY <2>1
  <2>2. CASE i \notin changed
    <3>1. i \in MappedInodes /\ inode_map'[i] = inode_map[i]
      BY <2>2 DEF MappedInodes
    <3> QED BY <3>1, Untouched
  <2> QED BY <2>1, <2>2
<1>2. NodesOK'
  BY <1>1 DEF NodesOK
<1>3. ASSUME NEW c \in Chunks, cr'[c] # -1
      PROVE  Chunked(c)'.block_type = "imap"
  <2>1. CASE c \in written
    BY <1>0, <2>1 DEF ImapChunk
  <2>2. CASE c \notin written
    <3>1. cr'[c] = cr[c] /\ cr[c] \in Logged
      BY <1>0, <1>3, <2>2 DEF Structure, Typed
    <3>2. Chunked(c)' = Chunked(c)
      BY <3>1, ChunkKept DEF Structure
    <3> QED BY <1>3, <3>1, <3>2 DEF Structure, Checkpoint
  <2> QED BY <2>1, <2>2
<1>4. ASSUME NEW i \in Inums
      PROVE  /\ cr'[inum_to_chunk(i)] = -1 => inode_map'[i] = -1
             /\ cr'[inum_to_chunk(i)] # -1 =>
                  /\ AddrInChunk(i)' = -1 <=> inode_map'[i] = -1
                  /\ AddrInChunk(i)' # -1 =>
                       /\ AddrInChunk(i)' \in Logged' /\ At(AddrInChunk(i))' \in Nodes'
                       /\ SameButRefs(At(AddrInChunk(i))', InMemory(i)')
  <2> DEFINE c == inum_to_chunk(i)
  <2>0. c \in Chunks
    BY ChunkOf
  <2>1. CASE c \in written
    <3>1. cr'[c] \in Logged' /\ AddrInChunk(i)' = inode_map'[i]
      BY <1>0, <2>0, <2>1, ChunkWritten
    <3>2. inode_map'[i] \in Logged' \cup {-1} /\ cr'[c] # -1
      BY <3>1 DEF Typed, Logged
    <3>3. inode_map'[i] # -1 => i \in MappedInodes' /\ InMemory(i)' \in Nodes'
      BY <1>1 DEF MappedInodes, Fits
    <3> QED BY <3>1, <3>2, <3>3 DEF InMemory, SameButRefs
  <2>2. CASE c \notin written
    <3>1. cr'[c] = cr[c] /\ cr[c] \in Logged \cup {-1}
      BY <1>0, <2>0, <2>2 DEF Structure, Typed
    <3>2. (i \in MappedInodes <=> i \in MappedInodes') /\ (i \in MappedInodes => SameButRefs(InMemory(i)', InMemory(i)))
      <4>1. CASE i \in changed
        BY <2>2, <4>1
      <4>2. CASE i \notin changed
        <5>1. inode_map'[i] = inode_map[i] /\ (i \in MappedInodes <=> i \in MappedInodes')
          BY <4>2 DEF MappedInodes
        <5>2. i \in MappedInodes => InMemory(i)' = InMemory(i)
          BY <5>1, Untouched
        <5> QED BY <5>1, <5>2 DEF SameButRefs
      <4> QED BY <4>1, <4>2
    <3>3. inode_map[i] = -1 <=> inode_map'[i] = -1
      BY <3>2 DEF MappedInodes
    <3>4. CASE cr[c] = -1
      BY <3>1, <3>3, <3>4 DEF Structure, Checkpoint
    <3>5. CASE cr[c] # -1
      <4>1. Chunked(c)' = Chunked(c)
        BY <2>0, <3>1, <3>5, ChunkKept DEF Structure
      <4>2. PICK a : a = AddrInChunk(i)
        OBVIOUS
      <4>3. AddrInChunk(i)' = a
        BY <4>1, <4>2 DEF AddrInChunk
      <4>4. /\ a = -1 <=> inode_map[i] = -1
            /\ a # -1 => a \in Logged /\ At(a) \in Nodes /\ SameButRefs(At(a), InMemory(i))
        BY <3>5, <4>2 DEF Structure, Checkpoint
      <4>5. a # -1 => a \in Logged' /\ At(a)' = At(a) /\ At(a) \in Nodes'
        BY <4>4 DEF Extends, Nodes
      <4>6. a # -1 => SameButRefs(At(a)', InMemory(i)')
        <5>1. a # -1 => i \in MappedInodes
          BY <4>4 DEF MappedInodes
        <5> QED BY <3>2, <4>4, <4>5, <5>1 DEF SameButRefs
      <4> QED BY <3>1, <3>3, <3>5, <4>3, <4>4, <4>5, <4>6
    <3> QED BY <3>4, <3>5
  <2> QED BY <2>1, <2>2
<1>5. Checkpoint'
  BY <1>3, <1>4 DEF Checkpoint
<1> QED BY <1>2, <1>5 DEF Structure

-----------------------------------------------------------------------------
\* Paths are sequences of names.
LEMMA PathIsSeq ==
    ASSUME NEW p \in Paths
    PROVE  p \in Seq(Names) /\ Len(p) \in Nat /\ Len(p) <= MaxDepth
<1>1. PICK n \in 0 .. MaxDepth : p \in [1 .. n -> Names]
  BY DEF Paths
<1>2. n \in Nat /\ n <= MaxDepth
  BY <1>1, LfsAssumption
<1> QED BY <1>1, <1>2

\* The path above another, and the name that is left.
LEMMA PathAbove ==
    ASSUME NEW p \in Paths, p # <<>>
    PROVE  /\ Front(p) \in Paths /\ LastName(p) \in Names
           /\ Append(Front(p), LastName(p)) = p
           /\ Len(Front(p)) \in Nat /\ Len(p) = Len(Front(p)) + 1
<1>1. p \in Seq(Names) /\ Len(p) \in Nat \ {0} /\ Len(p) <= MaxDepth
  BY PathIsSeq, EmptySeq
<1> DEFINE n == Len(p) - 1
           q == SubSeq(p, 1, n)
<1>2. n \in Nat /\ n + 1 = Len(p) /\ n \in 0 .. MaxDepth
  BY <1>1, LfsAssumption
<1>3. \A i \in 1 .. n + 1 : p[i] \in Names
  <2> HIDE DEF n
  <2> QED BY <1>1, <1>2
<1>4. q \in Seq(Names) /\ Len(q) = n /\ \A i \in 1 .. n : q[i] = p[i]
  <2>1. (IF 1 <= n THEN n - 1 + 1 ELSE 0) = n /\ n - 1 + 1 = n /\ 1 \in Int /\ n \in Int
    <3> HIDE DEF n
    <3> QED BY <1>2
  <2> HIDE DEF n
  <2>2. \A i \in 1 .. n : p[i] \in Names
    BY <1>2, <1>3
  <2>3. /\ q \in Seq(Names) /\ Len(q) = n
        /\ \A i \in 1 .. n : q[i] = p[1 + i - 1]
    BY <2>1, <2>2, SubSeqProperties
  <2>4. \A i \in 1 .. n : 1 + i - 1 = i
    BY <1>2
  <2> QED BY <2>3, <2>4
<1>5. Front(p) = q /\ LastName(p) = p[n + 1]
  <2>1. Len(p) = n + 1
    BY <1>1
  <2> QED BY <2>1 DEF Front, LastName
<1> HIDE DEF n, q
<1>6. p[n + 1] \in Names
  BY <1>2, <1>3
<1>7. q \in Paths
  <2>1. q \in [1 .. n -> Names]
    BY <1>4
  <2> QED BY <1>2, <2>1 DEF Paths
<1>8. Append(q, p[n + 1]) = p
  <2> DEFINE r == Append(q, p[n + 1])
  <2>1. /\ r \in Seq(Names) /\ Len(r) = n + 1 /\ r[n + 1] = p[n + 1]
        /\ \A i \in 1 .. n : r[i] = q[i]
    BY <1>4, <1>6, AppendProperties
  <2> HIDE DEF r
  <2>2. \A i \in 1 .. Len(r) : r[i] = p[i]
    BY <1>2, <1>4, <2>1
  <2>3. r = p
    BY <1>1, <1>2, <2>1, <2>2, SeqEqual
  <2> QED BY <2>3 DEF r
<1> QED BY <1>2, <1>4, <1>5, <1>6, <1>7, <1>8

-----------------------------------------------------------------------------
\* A step of the walk down a path: from an inode number, or what went wrong
\* above, to that of a name.
Below(up, name) ==
    IF up < 0 THEN up
    ELSE IF InodeAddr(up) = -1 THEN NotMapped
    ELSE IF Inode(up).type # "dir" THEN NotDir
    ELSE LET found == {e \in EntriesIn(Inode(up)) : e[1] = name}
         IN IF found = {} THEN -1 ELSE (CHOOSE e \in found : TRUE)[2]
\* The function that __walk computes: the inode number of every path.
IsWalk(f) == f = [p \in Paths |-> IF p = <<>> THEN ROOT_INODE ELSE Below(f[Front(p)], LastName(p))]

\* The walk is well defined.
LEMMA WalkExists == \E f : IsWalk(f)
<1> DEFINE Good(f, n) ==
             /\ f = [p \in Paths |-> f[p]]
             /\ \A p \in Paths : Len(p) <= n =>
                  f[p] = IF p = <<>> THEN ROOT_INODE ELSE Below(f[Front(p)], LastName(p))
           P == {n \in Nat : \E f : Good(f, n)}
<1>1. 0 \in P
  <2> DEFINE f == [p \in Paths |-> ROOT_INODE]
  <2>1. ASSUME NEW p \in Paths, Len(p) <= 0 PROVE p = <<>>
    BY <2>1, PathIsSeq, EmptySeq
  <2>2. Good(f, 0)
    BY <2>1
  <2> HIDE DEF Good, f
  <2> QED BY <2>2
<1>2. ASSUME NEW n \in Nat, n \in P PROVE n + 1 \in P
  <2>1. PICK f : Good(f, n)
    BY <1>2
  <2> DEFINE g == [p \in Paths |-> IF Len(p) <= n THEN f[p] ELSE Below(f[Front(p)], LastName(p))]
  <2>2. ASSUME NEW p \in Paths, Len(p) <= n + 1
        PROVE  g[p] = IF p = <<>> THEN ROOT_INODE ELSE Below(g[Front(p)], LastName(p))
    <3>1. CASE p = <<>>
      <4>1. Len(p) = 0 /\ Len(p) <= n
        BY <3>1, PathIsSeq, EmptySeq
      <4>2. g[p] = f[p]
        BY <4>1
      <4>3. f[p] = ROOT_INODE
        BY <2>1, <3>1, <4>1
      <4> HIDE DEF g
      <4> QED BY <3>1, <4>2, <4>3
    <3>2. CASE p # <<>>
      <4>1. /\ Front(p) \in Paths /\ Len(Front(p)) \in Nat /\ Len(p) = Len(Front(p)) + 1
            /\ Len(Front(p)) <= n
        BY <2>2, <3>2, PathAbove
      <4>2. g[Front(p)] = f[Front(p)]
        BY <4>1
      <4>3. g[p] = Below(f[Front(p)], LastName(p))
        <5>1. CASE Len(p) <= n
          <6>1. f[p] = Below(f[Front(p)], LastName(p))
            BY <2>1, <3>2, <5>1
          <6> QED BY <5>1, <6>1
        <5>2. CASE ~(Len(p) <= n)
          BY <5>2
        <5> QED BY <5>1, <5>2
      <4> HIDE DEF g
      <4> QED BY <3>2, <4>2, <4>3
    <3> QED BY <3>1, <3>2
  <2>3. g = [p \in Paths |-> g[p]]
    OBVIOUS
  <2> HIDE DEF g
  <2>4. Good(g, n + 1)
    BY <2>2, <2>3
  <2> HIDE DEF Good
  <2> QED BY <2>4
<1>3. MaxDepth \in P
  <2> HIDE DEF P
  <2> QED BY <1>1, <1>2, SetInduction, LfsAssumption
<1>4. PICK f : Good(f, MaxDepth)
  BY <1>3
<1>5. \A p \in Paths : f[p] = IF p = <<>> THEN ROOT_INODE ELSE Below(f[Front(p)], LastName(p))
  BY <1>4, PathIsSeq
<1>6. f = [p \in Paths |-> f[p]]
  BY <1>4
<1> HIDE DEF Good, P
<1>7. IsWalk(f)
  BY <1>5, <1>6 DEF IsWalk
<1> QED BY <1>7

\* The walk, one name at a time.
LEMMA WalkStep ==
    \A p \in Paths : Walk[p] = IF p = <<>> THEN ROOT_INODE ELSE Below(Walk[Front(p)], LastName(p))
<1>1. Walk = CHOOSE f : IsWalk(f)
  BY DEF Walk, IsWalk, Below
<1>2. IsWalk(Walk)
  BY <1>1, WalkExists
<1> QED BY <1>2 DEF IsWalk

-----------------------------------------------------------------------------
\* What a walk ends in when it finds nothing.
Missing == {-1, NotMapped, NotDir}

\* Where a name leads from a directory.
LEMMA BelowIs ==
    ASSUME Structure, NEW up \in Inums \cup Missing, NEW name \in Names
    PROVE  /\ Below(up, name) \in Inums \cup Missing
           /\ Below(up, name) \in Inums => up \in Directories /\ <<name, Below(up, name)>> \in EntriesIn(InMemory(up))
           /\ Below(up, name) = -1 /\ up # -1 =>
                up \in Directories /\ \A e \in EntriesIn(InMemory(up)) : e[1] # name
           /\ Below(up, name) = NotMapped /\ up # NotMapped => up \in Inums \ MappedInodes
           /\ Below(up, name) = NotDir => up \notin Directories
<1>1. -1 \notin Inums /\ NotMapped \notin Inums /\ NotDir \notin Inums /\ \A i \in Inums : ~(i < 0)
  BY DEF Inums, NotMapped, NotDir
<1>2. NotMapped = -2 /\ NotDir = -3
  BY DEF NotMapped, NotDir
<1>3. CASE up \in Missing
  <2>1. up < 0
    BY <1>2, <1>3 DEF Missing
  <2>2. Below(up, name) = up
    BY <2>1 DEF Below
  <2>3. up \notin Directories
    BY <1>1, <1>3 DEF Missing, Directories, MappedInodes
  <2> QED BY <1>1, <1>2, <1>3, <2>2, <2>3 DEF Missing
<1>4. CASE up \in Inums
  <2>1. ~(up < 0) /\ InodeAddr(up) = inode_map[up] /\ Inode(up) = InMemory(up)
    BY <1>1, <1>4 DEF Structure, Typed, InodeAddr, Inode, InMemory
  <2>2. CASE inode_map[up] = -1
    <3>1. Below(up, name) = NotMapped
      BY <2>1, <2>2 DEF Below
    <3>2. up \notin MappedInodes
      BY <2>2 DEF MappedInodes
    <3> QED BY <1>1, <1>2, <1>4, <3>1, <3>2 DEF Missing
  <2>3. CASE inode_map[up] # -1 /\ InMemory(up).type # "dir"
    <3>1. Below(up, name) = NotDir
      BY <2>1, <2>3 DEF Below
    <3>2. up \notin Directories
      BY <2>3 DEF Directories
    <3> QED BY <1>1, <1>2, <3>1, <3>2 DEF Missing
  <2>4. CASE inode_map[up] # -1 /\ InMemory(up).type = "dir"
    <3>1. up \in Directories
      BY <1>4, <2>4 DEF MappedInodes, Directories
    <3> DEFINE found == {e \in EntriesIn(InMemory(up)) : e[1] = name}
    <3>2. Below(up, name) = IF found = {} THEN -1 ELSE (CHOOSE e \in found : TRUE)[2]
      <4>1. InodeAddr(up) # -1 /\ Inode(up).type = "dir" /\ Inode(up) = InMemory(up) /\ ~(up < 0)
        BY <2>1, <2>4
      <4>2. PICK node : node = Inode(up)
        OBVIOUS
      <4>3. Below(up, name) = LET f == {e \in EntriesIn(node) : e[1] = name}
                              IN IF f = {} THEN -1 ELSE (CHOOSE e \in f : TRUE)[2]
        BY <4>1, <4>2 DEF Below
      <4> QED BY <4>1, <4>2, <4>3
    <3>3. CASE found = {}
      BY <1>1, <1>2, <3>1, <3>2, <3>3 DEF Missing
    <3>4. CASE found # {}
      <4>1. PICK e \in found : Below(up, name) = e[2]
        BY <3>2, <3>4
      <4>2. e \in EntriesIn(InMemory(up)) /\ e[1] = name
        BY <4>1
      <4>3. e \in (Names \cup Dots) \X Inums
        <5>1. PICK node : node = InMemory(up)
          OBVIOUS
        <5>2. Fits(node) /\ node.type = "dir" /\ e \in EntriesIn(node)
          BY <3>1, <4>2, <5>1 DEF Structure, NodesOK, Directories
        <5> QED BY <5>2, EntriesTyped
      <4>4. e = <<name, e[2]>> /\ e[2] \in Inums
        BY <4>2, <4>3
      <4> QED BY <1>1, <3>1, <4>1, <4>2, <4>4
    <3> QED BY <3>3, <3>4
  <2> QED BY <2>2, <2>3, <2>4
<1> QED BY <1>3, <1>4

\* A walk ends in an inode number or in one of these.
LEMMA WalkFinds ==
    ASSUME Structure
    PROVE  \A p \in Paths : Walk[p] \in Inums \cup Missing
<1> DEFINE P == {n \in Nat : \A p \in Paths : Len(p) = n => Walk[p] \in Inums \cup Missing}
<1>1. 0 \in P
  <2>1. ASSUME NEW p \in Paths, Len(p) = 0 PROVE Walk[p] \in Inums \cup Missing
    <3>1. p = <<>>
      BY <2>1, PathIsSeq, EmptySeq
    <3> QED BY <3>1, WalkStep, Constants
  <2> QED BY <2>1
<1>2. ASSUME NEW n \in Nat, n \in P PROVE n + 1 \in P
  <2>1. ASSUME NEW p \in Paths, Len(p) = n + 1 PROVE Walk[p] \in Inums \cup Missing
    <3>1. p # <<>>
      BY <2>1, PathIsSeq, EmptySeq
    <3>2. Front(p) \in Paths /\ Len(Front(p)) = n /\ LastName(p) \in Names
      BY <2>1, <3>1, PathAbove
    <3>3. Walk[Front(p)] \in Inums \cup Missing
      BY <1>2, <3>2
    <3>4. Walk[p] = Below(Walk[Front(p)], LastName(p))
      BY <3>1, WalkStep
    <3>5. PICK up : up = Walk[Front(p)]
      OBVIOUS
    <3>6. Below(up, LastName(p)) \in Inums \cup Missing
      BY <3>2, <3>3, <3>5, BelowIs
    <3> QED BY <3>4, <3>5, <3>6
  <2> QED BY <2>1
<1>3. Nat \subseteq P
  <2> HIDE DEF P
  <2> QED BY <1>1, <1>2, SetInduction
<1> QED BY <1>3, PathIsSeq

\* What a walk says of the directory the last name is looked up in.
LEMMA WalkSays ==
    ASSUME Structure, NEW p \in NamedPaths, NEW up, up = Walk[Front(p)]
    PROVE  /\ LastName(p) \in Names /\ up \in Inums \cup Missing /\ Walk[p] \in Inums \cup Missing
           /\ Walk[p] \in Inums => up \in Directories /\ <<LastName(p), Walk[p]>> \in EntriesIn(InMemory(up))
           /\ Walk[p] = -1 /\ up # -1 =>
                up \in Directories /\ \A e \in EntriesIn(InMemory(up)) : e[1] # LastName(p)
           /\ Walk[p] = NotMapped /\ up # NotMapped => up \in Inums \ MappedInodes
           /\ Walk[p] = NotDir => up \notin Directories
<1>1. p \in Paths /\ p # <<>>
  BY DEF NamedPaths
<1>2. Front(p) \in Paths /\ LastName(p) \in Names
  BY <1>1, PathAbove
<1>3. up \in Inums \cup Missing
  BY <1>2, WalkFinds
<1>4. Walk[p] = Below(up, LastName(p))
  BY <1>1, WalkStep
<1> QED BY <1>2, <1>3, <1>4, BelowIs

-----------------------------------------------------------------------------
\* The entries of all directories: <<directory, <<name, inode number>>>>.
Bindings ==
    {b \in Directories \X ((Names \cup Dots) \X Inums) : b[2] \in EntriesIn(InMemory(b[1]))}

\* A name leads to an inode.
Leads == \A b \in Bindings : b[2][2] \in MappedInodes

\* The places in a set of bindings that lead to an inode.
LeadingTo(B, i) == {<<b[1], b[2][1]>> : b \in {x \in B : x[2][2] = i}}

\* An inode counts the places that lead to it.
Links ==
    \A i \in MappedInodes :
        /\ IsFiniteSet(LeadingTo(Bindings, i))
        /\ InMemory(i).refs = Cardinality(LeadingTo(Bindings, i))

\* The root is a directory.
Rooted == ROOT_INODE \in Directories

\* The same with the state's own names, now and after a step.
BindingFacts ==
    NodesOK =>
        /\ \A d, e : <<d, e>> \in Bindings <=> d \in Directories /\ e \in EntriesIn(InMemory(d))
        /\ \A b \in Bindings : b = <<b[1], b[2]>> /\ b[2] = <<b[2][1], b[2][2]>>
                               /\ b[1] \in Directories /\ b[2][2] \in Inums

\* It holds.
LEMMA BindingFactsHold == BindingFacts /\ BindingFacts'
<1>1. BindingFacts
  <2> SUFFICES ASSUME NodesOK
               PROVE  /\ \A d, e : <<d, e>> \in Bindings <=> d \in Directories /\ e \in EntriesIn(InMemory(d))
                      /\ \A b \in Bindings : b = <<b[1], b[2]>> /\ b[2] = <<b[2][1], b[2][2]>>
                                             /\ b[1] \in Directories /\ b[2][2] \in Inums
    BY DEF BindingFacts
  <2>1. ASSUME NEW d \in Directories, NEW e \in EntriesIn(InMemory(d))
        PROVE  <<d, e>> \in Bindings
    <3>1. PICK node : node = InMemory(d)
      OBVIOUS
    <3>2. Fits(node) /\ node.type = "dir" /\ e \in EntriesIn(node)
      BY <3>1 DEF NodesOK, Directories
    <3>3. e \in (Names \cup Dots) \X Inums
      BY <3>2, EntriesTyped
    <3> QED BY <3>3 DEF Bindings
  <2>2. ASSUME NEW d, NEW e, <<d, e>> \in Bindings
        PROVE  d \in Directories /\ e \in EntriesIn(InMemory(d))
    BY <2>2 DEF Bindings
  <2>3. \A b \in Bindings : b = <<b[1], b[2]>> /\ b[2] = <<b[2][1], b[2][2]>>
                            /\ b[1] \in Directories /\ b[2][2] \in Inums
    BY DEF Bindings
  <2> QED BY <2>1, <2>2, <2>3
<1> QED BY <1>1, PTL

\* The bindings are the entries of the directories.
LEMMA BindingsAre ==
    ASSUME NodesOK
    PROVE  /\ \A d, e : <<d, e>> \in Bindings <=> d \in Directories /\ e \in EntriesIn(InMemory(d))
           /\ \A b \in Bindings : b = <<b[1], b[2]>> /\ b[2] = <<b[2][1], b[2][2]>>
                                  /\ b[1] \in Directories /\ b[2][2] \in Inums
BY BindingFactsHold DEF BindingFacts

\* BindingsAre after a step.
LEMMA BindingsAreAfter ==
    ASSUME NodesOK'
    PROVE  /\ \A d, e : <<d, e>> \in Bindings' <=> d \in Directories' /\ e \in EntriesIn(InMemory(d))'
           /\ \A b \in Bindings' : b = <<b[1], b[2]>> /\ b[2] = <<b[2][1], b[2][2]>>
                                   /\ b[1] \in Directories' /\ b[2][2] \in Inums
BY BindingFactsHold DEF BindingFacts

\* What a check of the link counts counts is what leads to the inode.
LEMMA EntriesOfAre ==
    ASSUME NodesOK, NEW i \in Inums
    PROVE  EntriesOf(i) = LeadingTo(Bindings, i)
<1>1. ASSUME NEW x \in EntriesOf(i) PROVE x \in LeadingTo(Bindings, i)
  <2>1. /\ x \in Directories \X (Names \cup Dots) /\ <<x[2], i>> \in EntriesIn(InMemory(x[1]))
    BY DEF EntriesOf, Dots
  <2> DEFINE b == <<x[1], <<x[2], i>>>>
  <2>2. b \in Bindings /\ b[2][2] = i /\ x = <<b[1], b[2][1]>>
    BY <2>1 DEF Bindings
  <2> HIDE DEF b
  <2> QED BY <2>2 DEF LeadingTo
<1>2. ASSUME NEW x \in LeadingTo(Bindings, i) PROVE x \in EntriesOf(i)
  <2>1. PICK b \in Bindings : b[2][2] = i /\ x = <<b[1], b[2][1]>>
    BY DEF LeadingTo
  <2>2. b \in Directories \X ((Names \cup Dots) \X Inums) /\ b[2] \in EntriesIn(InMemory(b[1]))
    BY DEF Bindings
  <2>3. x \in Directories \X (Names \cup Dots) /\ x[1] = b[1] /\ <<x[2], i>> = b[2]
    BY <2>1, <2>2
  <2> QED BY <2>2, <2>3 DEF EntriesOf, Dots
<1> QED BY <1>1, <1>2

-----------------------------------------------------------------------------
\* One binding more, one binding less.
Shaped(B) == \A b \in B : b = <<b[1], b[2]>> /\ b[2] = <<b[2][1], b[2][2]>>

\* The binding of a name, put into a set of bindings or taken out of it.
With(B, d, name, i)    == B \cup {<<d, <<name, i>>>>}
Without(B, d, name, i) == B \ {<<d, <<name, i>>>>}

\* A binding more is a place more for its inode, and for no other.
LEMMA OneMore ==
    ASSUME NEW B, Shaped(B), NEW d, NEW name, NEW i, NEW C, C = With(B, d, name, i)
    PROVE  /\ LeadingTo(C, i) = LeadingTo(B, i) \cup {<<d, name>>}
           /\ \A j : j # i => LeadingTo(C, j) = LeadingTo(B, j)
<1> DEFINE x == <<d, <<name, i>>>>
<1>1. x[1] = d /\ x[2][1] = name /\ x[2][2] = i /\ C = B \cup {x}
  BY DEF With
<1> HIDE DEF x
<1>2. LeadingTo(C, i) = LeadingTo(B, i) \cup {<<d, name>>}
  <2>1. ASSUME NEW y PROVE y \in LeadingTo(C, i) <=> y \in LeadingTo(B, i) \cup {<<d, name>>}
    <3>1. LeadingTo(C, i) = {<<b[1], b[2][1]>> : b \in {z \in B \cup {x} : z[2][2] = i}}
      BY <1>1 DEF LeadingTo
    <3> QED BY <1>1, <3>1, Zenon DEF LeadingTo
  <2> QED BY <2>1
<1>3. ASSUME NEW j, j # i PROVE LeadingTo(C, j) = LeadingTo(B, j)
  <2>1. {y \in C : y[2][2] = j} = {y \in B : y[2][2] = j}
    BY <1>1, <1>3
  <2> QED BY <2>1 DEF LeadingTo
<1> QED BY <1>2, <1>3

\* A place leads to an inode when it is bound to it.
LEMMA IsLeading ==
    ASSUME NEW B, Shaped(B), NEW d, NEW name, NEW i
    PROVE  <<d, name>> \in LeadingTo(B, i) <=> <<d, <<name, i>>>> \in B
<1> DEFINE x == <<d, <<name, i>>>>
<1>1. x[1] = d /\ x[2][1] = name /\ x[2][2] = i
  OBVIOUS
<1>2. \A b \in B : b[1] = d /\ b[2][1] = name /\ b[2][2] = i => b = x
  BY DEF Shaped
<1>3. <<d, name>> \in LeadingTo(B, i) => x \in B
  <2> SUFFICES ASSUME <<d, name>> \in LeadingTo(B, i) PROVE x \in B
    OBVIOUS
  <2>1. PICK b \in B : b[2][2] = i /\ <<d, name>> = <<b[1], b[2][1]>>
    BY DEF LeadingTo
  <2> QED BY <1>2, <2>1
<1>4. x \in B => <<d, name>> \in LeadingTo(B, i)
  BY <1>1 DEF LeadingTo
<1> QED BY <1>3, <1>4

\* A binding less is a place less for its inode, and for no other.
LEMMA OneLess ==
    ASSUME NEW B, Shaped(B), NEW d, NEW name, NEW i, NEW C, C = Without(B, d, name, i)
    PROVE  /\ LeadingTo(C, i) = LeadingTo(B, i) \ {<<d, name>>}
           /\ \A j : j # i => LeadingTo(C, j) = LeadingTo(B, j)
<1> DEFINE x == <<d, <<name, i>>>>
<1>1. Shaped(C) /\ x \notin C /\ C = B \ {x}
  BY DEF Shaped, Without
<1>2. CASE x \in B
  <2>1. B = With(C, d, name, i)
    BY <1>1, <1>2 DEF With
  <2>2. /\ LeadingTo(B, i) = LeadingTo(C, i) \cup {<<d, name>>}
        /\ \A j : j # i => LeadingTo(B, j) = LeadingTo(C, j)
    <3>1. Shaped(C)
      BY <1>1
    <3> QED BY <2>1, <3>1, OneMore
  <2>3. <<d, name>> \notin LeadingTo(C, i)
    BY <1>1, IsLeading
  <2> QED BY <2>2, <2>3
<1>3. CASE x \notin B
  <2>1. C = B
    BY <1>1, <1>3
  <2>2. <<d, name>> \notin LeadingTo(B, i)
    BY <1>3, IsLeading
  <2>3. LeadingTo(B, i) = LeadingTo(B, i) \ {<<d, name>>}
    BY <2>2
  <2> QED BY <2>1, <2>3
<1> QED BY <1>2, <1>3

\* What counting one more, or one less, comes to.
LEMMA CountOneMore ==
    ASSUME NEW S, IsFiniteSet(S), NEW x, x \notin S
    PROVE  IsFiniteSet(S \cup {x}) /\ Cardinality(S) \in Nat /\ Cardinality(S \cup {x}) = Cardinality(S) + 1
BY FS_AddElement, FS_CardinalityType

\* One entry less names the inode.
LEMMA CountOneLess ==
    ASSUME NEW S, IsFiniteSet(S), NEW x, x \in S
    PROVE  IsFiniteSet(S \ {x}) /\ Cardinality(S) \in Nat /\ Cardinality(S \ {x}) = Cardinality(S) - 1
BY FS_RemoveElement, FS_CardinalityType

-----------------------------------------------------------------------------
\* The steps: what they do to the directories and to the counts.
Refs(i) == InMemory(i).refs

\* The regular files that have contents.
Contents == {i \in MappedInodes : InMemory(i).type = "reg" /\ PointedBy(InMemory(i)) # {}}

\* The counts of all but some inodes stay.
SameRefs(changed) == \A i \in MappedInodes \ changed : Refs(i)' = Refs(i)

\* file_create of a file: a new number, a new name for it.
AddsFile(d, name, i) ==
    /\ d \in Directories /\ i \in Inums \ MappedInodes /\ <<d, <<name, i>>>> \notin Bindings
    /\ MappedInodes' = MappedInodes \cup {i} /\ Directories' = Directories
    /\ Bindings' = With(Bindings, d, name, i)
    /\ SameRefs({}) /\ Refs(i)' = 1

\* file_create of a directory: the name, the two dots, one reference more to the parent.
AddsDir(d, name, i) ==
    /\ d \in Directories /\ i \in Inums \ MappedInodes /\ <<d, <<name, i>>>> \notin Bindings
    /\ name \in Names
    /\ MappedInodes' = MappedInodes \cup {i} /\ Directories' = Directories \cup {i}
    /\ Bindings' = With(With(With(Bindings, d, name, i), i, ".", i), i, "..", d)
    /\ SameRefs({d}) /\ Refs(d)' = Refs(d) + 1 /\ Refs(i)' = 2

\* file_link: one name more and one reference more.
AddsName(d, name, i) ==
    /\ d \in Directories /\ i \in MappedInodes /\ <<d, <<name, i>>>> \notin Bindings
    /\ MappedInodes' = MappedInodes /\ Directories' = Directories
    /\ Bindings' = With(Bindings, d, name, i)
    /\ SameRefs({i}) /\ Refs(i)' = Refs(i) + 1

\* file_delete of the last name: the inode goes with it.
DropsFile(d, name, i) ==
    /\ d \in Directories /\ i \in MappedInodes \ Directories /\ <<d, <<name, i>>>> \in Bindings
    /\ Refs(i) = 1
    /\ MappedInodes' = MappedInodes \ {i} /\ Directories' = Directories
    /\ Bindings' = Without(Bindings, d, name, i)
    /\ SameRefs({i})

\* file_delete of another name: one reference less.
DropsName(d, name, i) ==
    /\ d \in Directories /\ i \in MappedInodes /\ <<d, <<name, i>>>> \in Bindings
    /\ MappedInodes' = MappedInodes /\ Directories' = Directories
    /\ Bindings' = Without(Bindings, d, name, i)
    /\ SameRefs({i}) /\ Refs(i)' = Refs(i) - 1

\* file_write, sync and the commands that fail.
SameNames ==
    /\ MappedInodes' = MappedInodes /\ Directories' = Directories
    /\ Bindings' = Bindings /\ SameRefs({})

-----------------------------------------------------------------------------
\* What holds of the directories as a whole.
Tallied == Rooted /\ Leads /\ Links

\* Bindings are pairs of a number and an entry.
LEMMA ShapedBindings ==
    ASSUME Structure
    PROVE  Shaped(Bindings)
BY BindingsAre DEF Structure, Shaped

\* No entry leads to a number that is not mapped.
LEMMA NoneLeads ==
    ASSUME Structure, Leads, NEW i, i \notin MappedInodes
    PROVE  LeadingTo(Bindings, i) = {}
BY DEF Leads, LeadingTo

\* The references are right after each of these steps.
LEMMA AddsFileTallies ==
    ASSUME Structure, Tallied, NEW d, NEW name, NEW i, AddsFile(d, name, i)
    PROVE  Tallied'
<1>1. PICK B, C : B = Bindings /\ C = Bindings'
  OBVIOUS
<1>2. /\ Shaped(B) /\ C = With(B, d, name, i) /\ LeadingTo(B, i) = {}
  BY <1>1, ShapedBindings, NoneLeads DEF AddsFile, Tallied
<1>3. /\ LeadingTo(C, i) = LeadingTo(B, i) \cup {<<d, name>>}
      /\ \A j : j # i => LeadingTo(C, j) = LeadingTo(B, j)
  BY <1>2, OneMore
<1>4. LeadingTo(C, i) = {<<d, name>>} /\ IsFiniteSet(LeadingTo(C, i)) /\ Cardinality(LeadingTo(C, i)) = 1
  <2>1. LeadingTo(C, i) = {<<d, name>>}
    BY <1>2, <1>3
  <2> QED BY <2>1, FS_Singleton
<1>5. ASSUME NEW j \in MappedInodes'
      PROVE  IsFiniteSet(LeadingTo(C, j)) /\ InMemory(j)'.refs = Cardinality(LeadingTo(C, j))
  <2>1. CASE j = i
    BY <1>4, <2>1 DEF AddsFile, Refs
  <2>2. CASE j # i
    <3>1. j \in MappedInodes /\ InMemory(j)'.refs = InMemory(j).refs
      BY <2>2 DEF AddsFile, SameRefs, Refs
    <3> QED BY <1>1, <1>3, <2>2, <3>1 DEF Tallied, Links
  <2> QED BY <2>1, <2>2
<1>6. Links'
  BY <1>1, <1>5 DEF Links
<1>7. Leads'
  BY DEF AddsFile, Tallied, Leads, With
<1>8. Rooted'
  BY DEF AddsFile, Tallied, Rooted
<1> QED BY <1>6, <1>7, <1>8 DEF Tallied

\* A directory's two dots and its name are two references to it and one to its parent.
LEMMA AddsDirTallies ==
    ASSUME Structure, Tallied, NEW d, NEW name, NEW i, AddsDir(d, name, i)
    PROVE  Tallied'
<1>1. PICK B, C : B = Bindings /\ C = Bindings'
  OBVIOUS
<1>0. PICK B1, B2 : B1 = With(B, d, name, i) /\ B2 = With(B1, i, ".", i)
  OBVIOUS
<1>2. /\ C = With(B2, i, "..", d) /\ LeadingTo(B, i) = {} /\ i \notin Directories /\ d # i /\ d \in MappedInodes
  BY <1>0, <1>1, NoneLeads DEF AddsDir, Tallied, Directories
<1>3. Shaped(B) /\ Shaped(B1) /\ Shaped(B2)
  BY <1>0, <1>1, ShapedBindings DEF Shaped, With
<1>4. /\ LeadingTo(C, d) = LeadingTo(B2, d) \cup {<<i, "..">>}
      /\ \A j : j # d => LeadingTo(C, j) = LeadingTo(B2, j)
  BY <1>2, <1>3, OneMore
<1>5. /\ LeadingTo(B2, i) = LeadingTo(B1, i) \cup {<<i, ".">>}
      /\ \A j : j # i => LeadingTo(B2, j) = LeadingTo(B1, j)
  BY <1>0, <1>3, OneMore
<1>6. /\ LeadingTo(B1, i) = LeadingTo(B, i) \cup {<<d, name>>}
      /\ \A j : j # i => LeadingTo(B1, j) = LeadingTo(B, j)
  BY <1>0, <1>3, OneMore
<1>7. /\ LeadingTo(C, i) = {<<d, name>>, <<i, ".">>}
      /\ LeadingTo(C, d) = LeadingTo(B, d) \cup {<<i, "..">>}
      /\ \A j : j # i /\ j # d => LeadingTo(C, j) = LeadingTo(B, j)
  BY <1>2, <1>4, <1>5, <1>6
<1>8. IsFiniteSet(LeadingTo(C, i)) /\ Cardinality(LeadingTo(C, i)) = 2
  <2>1. IsFiniteSet({<<d, name>>}) /\ Cardinality({<<d, name>>}) = 1
    BY FS_Singleton
  <2>2. <<i, ".">> \notin {<<d, name>>}
    BY <1>2
  <2>3. IsFiniteSet({<<d, name>>} \cup {<<i, ".">>}) /\ Cardinality({<<d, name>>} \cup {<<i, ".">>}) = 1 + 1
    BY <2>1, <2>2, CountOneMore
  <2>4. {<<d, name>>} \cup {<<i, ".">>} = LeadingTo(C, i)
    BY <1>7
  <2> QED BY <2>3, <2>4
<1>9. /\ IsFiniteSet(LeadingTo(C, d))
      /\ Cardinality(LeadingTo(C, d)) = Cardinality(LeadingTo(B, d)) + 1
  <2>1. IsFiniteSet(LeadingTo(B, d))
    BY <1>1, <1>2 DEF Tallied, Links
  <2>2. <<i, "..">> \notin LeadingTo(B, d)
    <3>1. <<i, <<"..", d>>>> \notin B
      BY <1>1, <1>2, BindingsAre DEF Structure
    <3> QED BY <1>3, <3>1, IsLeading
  <2> QED BY <1>7, <2>1, <2>2, CountOneMore
<1>10. ASSUME NEW j \in MappedInodes'
       PROVE  IsFiniteSet(LeadingTo(C, j)) /\ InMemory(j)'.refs = Cardinality(LeadingTo(C, j))
  <2>1. CASE j = i
    BY <1>8, <2>1 DEF AddsDir, Refs
  <2>2. CASE j = d
    <3>1. InMemory(d).refs = Cardinality(LeadingTo(B, d))
      BY <1>1, <1>2 DEF Tallied, Links
    <3> QED BY <1>9, <2>2, <3>1 DEF AddsDir, Refs
  <2>3. CASE j # i /\ j # d
    <3>1. j \in MappedInodes /\ InMemory(j)'.refs = InMemory(j).refs
      BY <2>3 DEF AddsDir, SameRefs, Refs
    <3> QED BY <1>1, <1>7, <2>3, <3>1 DEF Tallied, Links
  <2> QED BY <2>1, <2>2, <2>3
<1>11. Links'
  BY <1>1, <1>10 DEF Links
<1>12. Leads'
  <2>1. \A b \in Bindings' : b \in Bindings \/ b[2][2] = i \/ b[2][2] = d
    BY DEF AddsDir, With
  <2> QED BY <1>2, <2>1 DEF AddsDir, Tallied, Leads
<1>13. Rooted'
  BY DEF AddsDir, Tallied, Rooted
<1> QED BY <1>11, <1>12, <1>13 DEF Tallied

\* A further name of an old inode: the counts still agree.
LEMMA AddsNameTallies ==
    ASSUME Structure, Tallied, NEW d, NEW name, NEW i, AddsName(d, name, i)
    PROVE  Tallied'
<1>1. PICK B, C : B = Bindings /\ C = Bindings'
  OBVIOUS
<1>2. /\ Shaped(B) /\ C = With(B, d, name, i) /\ <<d, <<name, i>>>> \notin B
  BY <1>1, ShapedBindings DEF AddsName
<1>3. /\ LeadingTo(C, i) = LeadingTo(B, i) \cup {<<d, name>>}
      /\ <<d, name>> \notin LeadingTo(B, i)
      /\ \A j : j # i => LeadingTo(C, j) = LeadingTo(B, j)
  BY <1>2, OneMore, IsLeading
<1>4. /\ IsFiniteSet(LeadingTo(C, i))
      /\ Cardinality(LeadingTo(C, i)) = Cardinality(LeadingTo(B, i)) + 1
  <2>1. IsFiniteSet(LeadingTo(B, i))
    BY <1>1 DEF Tallied, Links, AddsName
  <2> QED BY <1>3, <2>1, CountOneMore
<1>5. ASSUME NEW j \in MappedInodes'
      PROVE  IsFiniteSet(LeadingTo(C, j)) /\ InMemory(j)'.refs = Cardinality(LeadingTo(C, j))
  <2>1. CASE j = i
    <3>1. InMemory(i).refs = Cardinality(LeadingTo(B, i))
      BY <1>1 DEF Tallied, Links, AddsName
    <3> QED BY <1>4, <2>1, <3>1 DEF AddsName, Refs
  <2>2. CASE j # i
    <3>1. j \in MappedInodes /\ InMemory(j)'.refs = InMemory(j).refs
      BY <2>2 DEF AddsName, SameRefs, Refs
    <3> QED BY <1>1, <1>3, <2>2, <3>1 DEF Tallied, Links
  <2> QED BY <2>1, <2>2
<1>6. Links'
  BY <1>1, <1>5 DEF Links
<1>7. Leads'
  BY DEF AddsName, Tallied, Leads, With
<1>8. Rooted'
  BY DEF AddsName, Tallied, Rooted
<1> QED BY <1>6, <1>7, <1>8 DEF Tallied

\* A file whose last name goes has none left.
LEMMA DropsFileTallies ==
    ASSUME Structure, Tallied, NEW d, NEW name, NEW i, DropsFile(d, name, i)
    PROVE  Tallied'
<1>1. PICK B, C : B = Bindings /\ C = Bindings'
  OBVIOUS
<1>2. /\ Shaped(B) /\ C = Without(B, d, name, i) /\ <<d, <<name, i>>>> \in B
  BY <1>1, ShapedBindings DEF DropsFile
<1>3. /\ LeadingTo(C, i) = LeadingTo(B, i) \ {<<d, name>>}
      /\ <<d, name>> \in LeadingTo(B, i)
      /\ \A j : j # i => LeadingTo(C, j) = LeadingTo(B, j)
  BY <1>2, OneLess, IsLeading
<1>4. LeadingTo(C, i) = {}
  <2>1. IsFiniteSet(LeadingTo(B, i)) /\ Cardinality(LeadingTo(B, i)) = 1
    BY <1>1 DEF Tallied, Links, DropsFile, Refs
  <2>2. IsFiniteSet(LeadingTo(C, i)) /\ Cardinality(LeadingTo(C, i)) = 0
    BY <1>3, <2>1, CountOneLess
  <2> QED BY <2>2, FS_EmptySet
<1>5. ASSUME NEW j \in MappedInodes'
      PROVE  IsFiniteSet(LeadingTo(C, j)) /\ InMemory(j)'.refs = Cardinality(LeadingTo(C, j))
  <2>1. j # i /\ j \in MappedInodes /\ InMemory(j)'.refs = InMemory(j).refs
    BY DEF DropsFile, SameRefs, Refs
  <2> QED BY <1>1, <1>3, <2>1 DEF Tallied, Links
<1>6. Links'
  BY <1>1, <1>5 DEF Links
<1>7. Leads'
  <2>1. ASSUME NEW b \in Bindings' PROVE b[2][2] # i
    BY <1>1, <1>4 DEF LeadingTo
  <2> QED BY <2>1 DEF DropsFile, Tallied, Leads, Without
<1>8. Rooted'
  BY DEF DropsFile, Tallied, Rooted
<1> QED BY <1>6, <1>7, <1>8 DEF Tallied

\* A name less of an inode that keeps others: the counts still agree.
LEMMA DropsNameTallies ==
    ASSUME Structure, Tallied, NEW d, NEW name, NEW i, DropsName(d, name, i)
    PROVE  Tallied'
<1>1. PICK B, C : B = Bindings /\ C = Bindings'
  OBVIOUS
<1>2. /\ Shaped(B) /\ C = Without(B, d, name, i) /\ <<d, <<name, i>>>> \in B
  BY <1>1, ShapedBindings DEF DropsName
<1>3. /\ LeadingTo(C, i) = LeadingTo(B, i) \ {<<d, name>>}
      /\ <<d, name>> \in LeadingTo(B, i)
      /\ \A j : j # i => LeadingTo(C, j) = LeadingTo(B, j)
  BY <1>2, OneLess, IsLeading
<1>4. /\ IsFiniteSet(LeadingTo(C, i))
      /\ Cardinality(LeadingTo(C, i)) = Cardinality(LeadingTo(B, i)) - 1
  <2>1. IsFiniteSet(LeadingTo(B, i))
    BY <1>1 DEF Tallied, Links, DropsName
  <2> QED BY <1>3, <2>1, CountOneLess
<1>5. ASSUME NEW j \in MappedInodes'
      PROVE  IsFiniteSet(LeadingTo(C, j)) /\ InMemory(j)'.refs = Cardinality(LeadingTo(C, j))
  <2>1. CASE j = i
    <3>1. InMemory(i).refs = Cardinality(LeadingTo(B, i))
      BY <1>1 DEF Tallied, Links, DropsName
    <3> QED BY <1>4, <2>1, <3>1 DEF DropsName, Refs
  <2>2. CASE j # i
    <3>1. j \in MappedInodes /\ InMemory(j)'.refs = InMemory(j).refs
      BY <2>2 DEF DropsName, SameRefs, Refs
    <3> QED BY <1>1, <1>3, <2>2, <3>1 DEF Tallied, Links
  <2> QED BY <2>1, <2>2
<1>6. Links'
  BY <1>1, <1>5 DEF Links
<1>7. Leads'
  BY DEF DropsName, Tallied, Leads, Without
<1>8. Rooted'
  BY DEF DropsName, Tallied, Rooted
<1> QED BY <1>6, <1>7, <1>8 DEF Tallied

\* No name changes: the counts still agree.
LEMMA SameNamesTallies ==
    ASSUME Tallied, SameNames
    PROVE  Tallied'
<1>1. Links'
  BY DEF SameNames, SameRefs, Refs, Tallied, Links
<1> QED BY <1>1 DEF SameNames, Tallied, Leads, Rooted

-----------------------------------------------------------------------------
\* Two inode numbers are mapped anew, and nothing else.
Remapped(i, a, j, b) ==
    \A k \in Inums : inode_map'[k] = IF k = j THEN b ELSE IF k = i THEN a ELSE inode_map[k]

\* The m blocks of a command are at the end of the log.
Appended(n, m, blocks) ==
    \A k \in 1 .. m : n + k - 1 \in Logged' /\ At(n + k - 1)' = blocks[k]

\* What a command leaves in memory and on the log.
LEMMA Update ==
    ASSUME Structure, NEW n, n = Len(disk), NEW m \in Nat,
           NEW blocks, IsSequence(blocks), Len(blocks) = m,
           NEW i \in Inums, NEW j \in Inums, NEW a, NEW b,
           a \in {-1} \cup (n .. n + m - 1), b \in {-1} \cup (n .. n + m - 1),
           NEW inums, NEW chunks,
           \/ inums \in {<<i, j>>, <<j, i>>} /\ chunks = {inum_to_chunk(i), inum_to_chunk(j)}
           \/ inums = <<i>> /\ chunks = {inum_to_chunk(i)},
           NEW map, map = [inode_map EXCEPT ![i] = a, ![j] = b],
           Commit(blocks, map, inums)
    PROVE  /\ Typed' /\ Extends /\ failed' = failed /\ n \in Nat /\ n > 0
           /\ Remapped(i, a, j, b) /\ Appended(n, m, blocks) /\ WrittenTo(chunks)
<1>1. Typed /\ inode_map \in [Inums -> Logged \cup {-1}]
  BY DEF Structure, Typed
<1>2. /\ \A k \in Inums : map[k] = IF k = j THEN b ELSE IF k = i THEN a ELSE inode_map[k]
      /\ map = [k \in Inums |-> map[k]]
  BY <1>1
<1>3. \A k \in Inums : map[k] \in Logged \cup {-1} \cup (n .. n + Len(blocks) - 1)
  BY <1>1, <1>2
<1>4. Settled(n, blocks, map, chunks)
  <2>1. CASE inums = <<i, j>> /\ chunks = {inum_to_chunk(i), inum_to_chunk(j)}
    BY <1>1, <1>2, <1>3, <2>1, Commits
  <2>2. CASE inums = <<j, i>> /\ chunks = {inum_to_chunk(i), inum_to_chunk(j)}
    <3>1. Settled(n, blocks, map, {inum_to_chunk(j), inum_to_chunk(i)})
      BY <1>1, <1>2, <1>3, <2>2, Commits
    <3>2. chunks = {inum_to_chunk(j), inum_to_chunk(i)}
      BY <2>2
    <3> QED BY <3>1, <3>2
  <2>3. CASE inums = <<i>> /\ chunks = {inum_to_chunk(i)}
    <3>1. Settled(n, blocks, map, {inum_to_chunk(i), inum_to_chunk(i)})
      BY <1>1, <1>2, <1>3, <2>3, Commits
    <3>2. chunks = {inum_to_chunk(i), inum_to_chunk(i)}
      BY <2>3
    <3> QED BY <3>1, <3>2
  <2> QED BY <2>1, <2>2, <2>3
<1> QED BY <1>2, <1>4 DEF Settled, Remapped, Appended

\* Where the first blocks of a command are.
LEMMA Placed ==
    ASSUME NEW n \in Nat, NEW m \in Nat, NEW blocks, Appended(n, m, blocks)
    PROVE  /\ m >= 1 => n \in Logged' /\ At(n)' = blocks[1]
           /\ m >= 2 => n + 1 \in Logged' /\ At(n + 1)' = blocks[2]
           /\ m >= 3 => n + 2 \in Logged' /\ At(n + 2)' = blocks[3]
           /\ m >= 4 => n + 3 \in Logged' /\ At(n + 3)' = blocks[4]
<1>1. /\ n + 1 - 1 = n /\ n + 2 - 1 = n + 1 /\ n + 3 - 1 = n + 2 /\ n + 4 - 1 = n + 3
      /\ m >= 1 => 1 \in 1 .. m
      /\ m >= 2 => 2 \in 1 .. m
      /\ m >= 3 => 3 \in 1 .. m
      /\ m >= 4 => 4 \in 1 .. m
  OBVIOUS
<1>2. ASSUME NEW k \in 1 .. m, NEW x, x = n + k - 1
      PROVE  x \in Logged' /\ At(x)' = blocks[k]
  BY <1>2 DEF Appended
<1> QED BY <1>1, <1>2

\* Inode numbers whose mapping a step leaves alone.
LEMMA Others ==
    ASSUME Structure, Typed', Extends, NEW i \in Inums, inode_map'[i] = inode_map[i]
    PROVE  /\ i \in MappedInodes' <=> i \in MappedInodes
           /\ i \in MappedInodes => InMemory(i)' = InMemory(i)
           /\ i \in Directories' <=> i \in Directories
           /\ i \in Directories => EntriesIn(InMemory(i))' = EntriesIn(InMemory(i))
<1>1. i \in MappedInodes' <=> i \in MappedInodes
  BY DEF MappedInodes
<1>2. CASE i \in MappedInodes
  BY <1>1, <1>2, Untouched DEF Directories
<1>3. CASE i \notin MappedInodes
  BY <1>1, <1>3 DEF Directories
<1> QED BY <1>1, <1>2, <1>3

\* A step that changes the entries of one directory.
LEMMA OneDirectory ==
    ASSUME NodesOK, NodesOK', Directories' = Directories, NEW p \in Directories, NEW name, NEW i,
           \A d \in Directories \ {p} : EntriesIn(InMemory(d))' = EntriesIn(InMemory(d))
    PROVE  /\ EntriesIn(InMemory(p))' = EntriesIn(InMemory(p)) \cup {<<name, i>>}
                => Bindings' = With(Bindings, p, name, i)
           /\ EntriesIn(InMemory(p))' = EntriesIn(InMemory(p)) \ {<<name, i>>}
                => Bindings' = Without(Bindings, p, name, i)
<1>1. PICK B, C : B = Bindings /\ C = Bindings'
  OBVIOUS
<1>2. /\ \A d, e : <<d, e>> \in B <=> d \in Directories /\ e \in EntriesIn(InMemory(d))
      /\ \A d, e : <<d, e>> \in C <=> d \in Directories /\ e \in EntriesIn(InMemory(d))'
      /\ \A b \in B : b = <<b[1], b[2]>>
      /\ \A b \in C : b = <<b[1], b[2]>>
  BY <1>1, BindingsAre, BindingsAreAfter
<1>3. ASSUME EntriesIn(InMemory(p))' = EntriesIn(InMemory(p)) \cup {<<name, i>>}
      PROVE  C = With(B, p, name, i)
  <2>1. ASSUME NEW d, NEW e
        PROVE  <<d, e>> \in C <=> <<d, e>> \in B \/ (d = p /\ e = <<name, i>>)
    BY <1>2, <1>3
  <2>2. \A b \in With(B, p, name, i) : b = <<b[1], b[2]>>
    BY <1>2 DEF With
  <2>3. ASSUME NEW d, NEW e
        PROVE  <<d, e>> \in With(B, p, name, i) <=> <<d, e>> \in B \/ (d = p /\ e = <<name, i>>)
    BY DEF With
  <2>4. ASSUME NEW b PROVE b \in C <=> b \in With(B, p, name, i)
    BY <1>2, <2>1, <2>2, <2>3
  <2> QED BY <2>4
<1>4. ASSUME EntriesIn(InMemory(p))' = EntriesIn(InMemory(p)) \ {<<name, i>>}
      PROVE  C = Without(B, p, name, i)
  <2>1. ASSUME NEW d, NEW e
        PROVE  <<d, e>> \in C <=> <<d, e>> \in B /\ ~(d = p /\ e = <<name, i>>)
    BY <1>2, <1>4
  <2>2. \A b \in Without(B, p, name, i) : b = <<b[1], b[2]>>
    BY <1>2 DEF Without
  <2>3. ASSUME NEW d, NEW e
        PROVE  <<d, e>> \in Without(B, p, name, i) <=> <<d, e>> \in B /\ ~(d = p /\ e = <<name, i>>)
    BY DEF Without
  <2>4. ASSUME NEW b PROVE b \in C <=> b \in Without(B, p, name, i)
    BY <1>2, <2>1, <2>2, <2>3
  <2> QED BY <2>4
<1> QED BY <1>1, <1>3, <1>4

-----------------------------------------------------------------------------
\* A step that renews a directory's inode and one other: what it leaves alone.
LEMMA TwoRenewed ==
    ASSUME Structure, Typed', Extends, NEW p \in Directories, NEW i \in Inums, p # i,
           NEW chunks \in SUBSET Chunks, WrittenTo(chunks), inum_to_chunk(p) \in chunks,
           \A k \in Inums \ {p, i} : inode_map'[k] = inode_map[k],
           p \in MappedInodes', NEW up, up = InMemory(p)', Fits(up)', up.type = "dir", Distinct(up)',
           i \in MappedInodes' => Fits(InMemory(i))' /\ (InMemory(i)'.type = "dir" => Distinct(InMemory(i))'),
           \/ inum_to_chunk(i) \in chunks
           \/ i \in MappedInodes /\ i \in MappedInodes' /\ SameButRefs(InMemory(i)', InMemory(i))
    PROVE  /\ Structure' /\ p \in Directories'
           /\ MappedInodes' \ {i} = MappedInodes \ {i} /\ Directories' \ {i} = Directories \ {i}
           /\ \A k \in MappedInodes \ {p, i} : InMemory(k)' = InMemory(k)
           /\ \A d \in Directories \ {p, i} : EntriesIn(InMemory(d))' = EntriesIn(InMemory(d))
<1>1. p \in Inums /\ p \in MappedInodes
  BY DEF Directories, MappedInodes
<1>2. Fits(InMemory(p))' /\ Distinct(InMemory(p))' /\ p \in Directories'
  BY DEF Directories
<1>3. Structure'
  <2> DEFINE changed == {p, i}
  <2>1. changed \in SUBSET Inums /\ \A k \in Inums \ changed : inode_map'[k] = inode_map[k]
    BY <1>1
  <2>2. \A k \in changed :
          /\ k \in MappedInodes' => Fits(InMemory(k))' /\ (InMemory(k)'.type = "dir" => Distinct(InMemory(k))')
          /\ inum_to_chunk(k) \notin chunks =>
                k \in MappedInodes /\ k \in MappedInodes' /\ SameButRefs(InMemory(k)', InMemory(k))
    BY <1>2
  <2> HIDE DEF changed
  <2> QED BY <2>1, <2>2, Rebuild
<1>4. ASSUME NEW k \in Inums \ {p, i}
      PROVE  /\ k \in MappedInodes' <=> k \in MappedInodes
             /\ k \in MappedInodes => InMemory(k)' = InMemory(k)
             /\ k \in Directories' <=> k \in Directories
             /\ k \in Directories => EntriesIn(InMemory(k))' = EntriesIn(InMemory(k))
  BY Others
<1>5. MappedInodes \subseteq Inums /\ MappedInodes' \subseteq Inums
      /\ Directories \subseteq MappedInodes /\ Directories' \subseteq MappedInodes'
  BY DEF MappedInodes, Directories
<1>6. MappedInodes' \ {i} = MappedInodes \ {i} /\ Directories' \ {i} = Directories \ {i}
  BY <1>1, <1>2, <1>4, <1>5
<1>7. /\ \A k \in MappedInodes \ {p, i} : InMemory(k)' = InMemory(k)
      /\ \A d \in Directories \ {p, i} : EntriesIn(InMemory(d))' = EntriesIn(InMemory(d))
  BY <1>4, <1>5
<1> QED BY <1>2, <1>3, <1>6, <1>7

\* Which of the others have contents stays as it was.
LEMMA OtherContents ==
    ASSUME NEW p \in Directories, p \in Directories', NEW i, p # i,
           MappedInodes' \ {i} = MappedInodes \ {i},
           \A k \in MappedInodes \ {p, i} : InMemory(k)' = InMemory(k)
    PROVE  /\ Contents' \ {i} = Contents \ {i}
           /\ (i \in Contents' <=> i \in Contents) => Contents' = Contents
<1>1. p \notin Contents /\ p \notin Contents'
  BY DEF Directories, Contents
<1>2. ASSUME NEW k, k # i, k # p PROVE k \in Contents' <=> k \in Contents
  BY <1>2 DEF Contents, PointedBy
<1>3. ASSUME NEW k PROVE k \in Contents' \ {i} <=> k \in Contents \ {i}
  BY <1>1, <1>2
<1>4. ASSUME i \in Contents' <=> i \in Contents PROVE Contents' = Contents
  <2>1. ASSUME NEW k PROVE k \in Contents' <=> k \in Contents
    BY <1>1, <1>2, <1>4
  <2> QED BY <2>1
<1>5. Contents' \ {i} = Contents \ {i}
  BY <1>3
<1> QED BY <1>4, <1>5

\* Inodes are read through the inode map in memory.
LEMMA Reads ==
    ASSUME Structure
    PROVE  \A i : InodeAddr(i) = inode_map[i] /\ Inode(i) = InMemory(i)
BY DEF Structure, Typed, InodeAddr, Inode, InMemory

\* A directory's inode.
LEMMA DirectoryNode ==
    ASSUME Structure, NEW p \in Directories, NEW node, node = InMemory(p)
    PROVE  /\ Fits(node) /\ node.type = "dir" /\ Distinct(node) /\ p \in Inums /\ p \in MappedInodes
           /\ \A e : <<p, e>> \in Bindings <=> e \in EntriesIn(node)
BY BindingsAre DEF Structure, NodesOK, Directories, MappedInodes

\* file_create of a file, when the name is free and an inode number is.
LEMMA CreatesFile ==
    ASSUME Structure, NEW p \in Directories, NEW name \in Names, NEW i \in Inums \ MappedInodes,
           \A e \in EntriesIn(InMemory(p)) : e[1] # name,
           CreateIn(p, name, "reg", i)
    PROVE  Structure' /\ AddsFile(p, name, i) /\ Contents' = Contents /\ failed' = failed
<1>1. PICK node, n : node = InMemory(p) /\ n = Len(disk)
  OBVIOUS
<1>2. /\ Typed /\ Fits(node) /\ node.type = "dir" /\ Distinct(node) /\ p \in Inums /\ p \in MappedInodes
      /\ \A e \in EntriesIn(node) : e[1] # name
      /\ <<p, <<name, i>>>> \notin Bindings /\ n \in Nat
  <2>1. n \in Nat
    BY <1>1, Sequence DEF Structure, Typed
  <2>2. \A e \in EntriesIn(node) : e[1] # name
    BY <1>1
  <2>3. <<name, i>> \notin EntriesIn(node)
    BY <2>2
  <2> QED BY <1>1, <2>1, <2>2, <2>3, DirectoryNode DEF Structure
<1>3. p # i /\ i \in Inums
  BY <1>2
<1>4. PICK new \in AddDirEntry(node, name, i) :
        Commit(<<new.block, WithEntry(node, new, n), NewInode("reg", 0, 1)>>,
               [inode_map EXCEPT ![p] = n + 1, ![i] = n + 1 + 1], <<p, i>>)
  BY <1>1, Reads DEF CreateIn
<1>5. PICK up, file : up = WithEntry(node, new, n) /\ file = NewInode("reg", 0, 1)
  OBVIOUS
<1>6. PICK blocks, a, b, chunks : /\ blocks = <<new.block, up, file>> /\ a = n + 1 /\ b = n + 2
                                  /\ chunks = {inum_to_chunk(p), inum_to_chunk(i)}
  OBVIOUS
<1>7. /\ Typed' /\ Extends /\ failed' = failed /\ WrittenTo(chunks)
      /\ Remapped(p, a, i, b) /\ Appended(n, 3, blocks)
  <2>1. PICK inums, map : inums = <<p, i>> /\ map = [inode_map EXCEPT ![p] = a, ![i] = b]
    OBVIOUS
  <2>2. n + 1 + 1 = n + 2 /\ 3 \in Nat
    BY <1>2
  <2>3. Commit(blocks, map, inums)
    BY <1>4, <1>5, <1>6, <2>1, <2>2
  <2>4. IsSequence(blocks) /\ Len(blocks) = 3
    BY <1>6, Tuples
  <2>5. a \in {-1} \cup (n .. n + 3 - 1) /\ b \in {-1} \cup (n .. n + 3 - 1)
    BY <1>2, <1>6
  <2>6. p \in Inums
    BY <1>2
  <2>7. inums = <<p, i>> /\ chunks = {inum_to_chunk(p), inum_to_chunk(i)}
    BY <1>6, <2>1
  <2> QED BY <1>1, <1>3, <2>1, <2>2, <2>3, <2>4, <2>5, <2>6, <2>7, Update
<1>8. /\ n \in Logged' /\ At(n)' = new.block
      /\ a \in Logged' /\ At(a)' = up /\ b \in Logged' /\ At(b)' = file
  <2>1. 3 \in Nat /\ n \in Nat
    BY <1>2
  <2>2. /\ 3 >= 1 => n \in Logged' /\ At(n)' = blocks[1]
        /\ 3 >= 2 => n + 1 \in Logged' /\ At(n + 1)' = blocks[2]
        /\ 3 >= 3 => n + 2 \in Logged' /\ At(n + 2)' = blocks[3]
    BY <1>7, <2>1, Placed
  <2>3. blocks[1] = new.block /\ blocks[2] = up /\ blocks[3] = file
    BY <1>6
  <2> QED BY <1>6, <2>2, <2>3
<1>9. p \in MappedInodes' /\ InMemory(p)' = up /\ i \in MappedInodes' /\ InMemory(i)' = file
  <2>1. inode_map'[p] = a /\ inode_map'[i] = b
    BY <1>2, <1>3, <1>7 DEF Remapped
  <2> QED BY <1>2, <1>3, <1>8, <2>1, NewVersion
<1>10. /\ Fits(up)' /\ Distinct(up)' /\ up.type = "dir" /\ up.refs = node.refs
       /\ EntriesIn(up)' = EntriesIn(node) \cup {<<name, i>>}
  BY <1>2, <1>3, <1>5, <1>7, <1>8, EntryAdded
<1>11. Fits(file)' /\ file.type = "reg" /\ file.refs = 1
  BY <1>5, NewFile
<1>12. /\ Structure' /\ p \in Directories'
       /\ MappedInodes' \ {i} = MappedInodes \ {i} /\ Directories' \ {i} = Directories \ {i}
       /\ \A k \in MappedInodes \ {p, i} : InMemory(k)' = InMemory(k)
       /\ \A d \in Directories \ {p, i} : EntriesIn(InMemory(d))' = EntriesIn(InMemory(d))
  <2>1. chunks \in SUBSET Chunks /\ inum_to_chunk(p) \in chunks /\ inum_to_chunk(i) \in chunks
    BY <1>2, <1>3, <1>6, ChunkOf
  <2>2. \A k \in Inums \ {p, i} : inode_map'[k] = inode_map[k]
    BY <1>7 DEF Remapped
  <2>3. i \in MappedInodes' => Fits(InMemory(i))' /\ (InMemory(i)'.type = "dir" => Distinct(InMemory(i))')
    BY <1>9, <1>11
  <2> QED BY <1>3, <1>7, <1>9, <1>10, <2>1, <2>2, <2>3, TwoRenewed
<1>13. i \notin Directories /\ i \notin Directories'
  BY <1>9, <1>11 DEF Directories
<1>14. MappedInodes' = MappedInodes \cup {i} /\ Directories' = Directories
  BY <1>9, <1>12, <1>13
<1>15. Bindings' = With(Bindings, p, name, i)
  <2>1. EntriesIn(InMemory(p))' = EntriesIn(InMemory(p)) \cup {<<name, i>>}
    BY <1>1, <1>9, <1>10
  <2>2. \A d \in Directories \ {p} : EntriesIn(InMemory(d))' = EntriesIn(InMemory(d))
    BY <1>12, <1>13
  <2> QED BY <1>12, <1>14, <2>1, <2>2, OneDirectory DEF Structure
<1>16. SameRefs({}) /\ Refs(i)' = 1
  <2>1. \A k \in MappedInodes : k # i
    OBVIOUS
  <2> QED BY <1>1, <1>9, <1>10, <1>11, <1>12, <2>1 DEF SameRefs, Refs
<1>17. /\ Contents' \ {i} = Contents \ {i}
       /\ (i \in Contents' <=> i \in Contents) => Contents' = Contents
  BY <1>3, <1>12, OtherContents
<1>18. i \notin Contents' /\ i \notin Contents
  BY <1>5, <1>9 DEF Contents, PointedBy, NewInode, InodeBlock
<1>19. Contents' = Contents
  BY <1>17, <1>18
<1> QED BY <1>2, <1>7, <1>12, <1>14, <1>15, <1>16, <1>19 DEF AddsFile

-----------------------------------------------------------------------------
\* file_create of a directory, when the name is free and an inode number is.
LEMMA CreatesDir ==
    ASSUME Structure, NEW p \in Directories, NEW name \in Names, NEW i \in Inums \ MappedInodes,
           \A e \in EntriesIn(InMemory(p)) : e[1] # name,
           CreateIn(p, name, "dir", i)
    PROVE  Structure' /\ AddsDir(p, name, i) /\ Contents' = Contents /\ failed' = failed
<1>1. PICK node, n : node = InMemory(p) /\ n = Len(disk)
  OBVIOUS
<1>2. /\ Typed /\ Fits(node) /\ node.type = "dir" /\ Distinct(node) /\ p \in Inums /\ p \in MappedInodes
      /\ \A e \in EntriesIn(node) : e[1] # name
      /\ <<p, <<name, i>>>> \notin Bindings /\ n \in Nat
  <2>1. n \in Nat
    BY <1>1, Sequence DEF Structure, Typed
  <2>2. \A e \in EntriesIn(node) : e[1] # name
    BY <1>1
  <2>3. <<name, i>> \notin EntriesIn(node)
    BY <2>2
  <2> QED BY <1>1, <2>1, <2>2, <2>3, DirectoryNode DEF Structure
<1>3. p # i /\ i \in Inums
  BY <1>2
<1>4. PICK new \in AddDirEntry(node, name, i) :
        Commit(<<new.block, NewDirBlock(p, i), Referenced(WithEntry(node, new, n)), NewDirInode(n + 1)>>,
               [inode_map EXCEPT ![p] = n + 2, ![i] = n + 2 + 1], <<p, i>>)
  BY <1>1, Reads DEF CreateIn
<1>5. PICK one, up, block, file :
        /\ one = WithEntry(node, new, n) /\ up = Referenced(one)
        /\ block = NewDirBlock(p, i) /\ file = NewDirInode(n + 1)
  OBVIOUS
<1>6. PICK blocks, a, b, chunks : /\ blocks = <<new.block, block, up, file>> /\ a = n + 2 /\ b = n + 3
                                  /\ chunks = {inum_to_chunk(p), inum_to_chunk(i)}
  OBVIOUS
<1>7. /\ Typed' /\ Extends /\ failed' = failed /\ WrittenTo(chunks)
      /\ Remapped(p, a, i, b) /\ Appended(n, 4, blocks)
  <2>1. PICK inums, map : inums = <<p, i>> /\ map = [inode_map EXCEPT ![p] = a, ![i] = b]
    OBVIOUS
  <2>2. n + 2 + 1 = n + 3 /\ 4 \in Nat
    BY <1>2
  <2>3. Commit(blocks, map, inums)
    BY <1>4, <1>5, <1>6, <2>1, <2>2
  <2>4. IsSequence(blocks) /\ Len(blocks) = 4
    BY <1>6, Tuples
  <2>5. a \in {-1} \cup (n .. n + 4 - 1) /\ b \in {-1} \cup (n .. n + 4 - 1)
    BY <1>2, <1>6
  <2>6. p \in Inums
    BY <1>2
  <2>7. inums = <<p, i>> /\ chunks = {inum_to_chunk(p), inum_to_chunk(i)}
    BY <1>6, <2>1
  <2> QED BY <1>1, <1>3, <2>1, <2>2, <2>3, <2>4, <2>5, <2>6, <2>7, Update
<1>8. /\ n \in Logged' /\ At(n)' = new.block /\ n + 1 \in Logged' /\ At(n + 1)' = block
      /\ a \in Logged' /\ At(a)' = up /\ b \in Logged' /\ At(b)' = file
  <2>1. 4 \in Nat /\ n \in Nat
    BY <1>2
  <2>2. /\ 4 >= 1 => n \in Logged' /\ At(n)' = blocks[1]
        /\ 4 >= 2 => n + 1 \in Logged' /\ At(n + 1)' = blocks[2]
        /\ 4 >= 3 => n + 2 \in Logged' /\ At(n + 2)' = blocks[3]
        /\ 4 >= 4 => n + 3 \in Logged' /\ At(n + 3)' = blocks[4]
    BY <1>7, <2>1, Placed
  <2>3. blocks[1] = new.block /\ blocks[2] = block /\ blocks[3] = up /\ blocks[4] = file
    BY <1>6
  <2> QED BY <1>6, <2>2, <2>3
<1>9. p \in MappedInodes' /\ InMemory(p)' = up /\ i \in MappedInodes' /\ InMemory(i)' = file
  <2>1. inode_map'[p] = a /\ inode_map'[i] = b
    BY <1>2, <1>3, <1>7 DEF Remapped
  <2> QED BY <1>2, <1>3, <1>8, <2>1, NewVersion
<1>10. /\ Fits(up)' /\ Distinct(up)' /\ up.type = "dir" /\ up.refs = node.refs + 1
       /\ EntriesIn(up)' = EntriesIn(node) \cup {<<name, i>>}
  <2>1. /\ Fits(one)' /\ Distinct(one)' /\ one.type = "dir" /\ one.refs = node.refs
        /\ EntriesIn(one)' = EntriesIn(node) \cup {<<name, i>>}
    BY <1>2, <1>3, <1>5, <1>7, <1>8, EntryAdded
  <2>2. PICK r : r = one.refs + 1
    OBVIOUS
  <2>3. r \in Nat \ {0} /\ up = [one EXCEPT !.refs = r]
    <3>1. one.refs \in Nat \ {0}
      BY <1>2, <2>1 DEF Fits, Nodes
    <3> QED BY <1>5, <2>2, <3>1 DEF Referenced
  <2> QED BY <2>1, <2>2, <2>3, Recounted
<1>11. /\ Fits(file)' /\ Distinct(file)' /\ file.type = "dir" /\ file.refs = 2
       /\ EntriesIn(file)' = {<<".", i>>, <<"..", p>>}
  <2>1. PICK k : k = n + 1
    OBVIOUS
  <2> QED BY <1>2, <1>3, <1>5, <1>8, <2>1, NewDir
<1>12. /\ Structure' /\ p \in Directories'
       /\ MappedInodes' \ {i} = MappedInodes \ {i} /\ Directories' \ {i} = Directories \ {i}
       /\ \A k \in MappedInodes \ {p, i} : InMemory(k)' = InMemory(k)
       /\ \A d \in Directories \ {p, i} : EntriesIn(InMemory(d))' = EntriesIn(InMemory(d))
  <2>1. chunks \in SUBSET Chunks /\ inum_to_chunk(p) \in chunks /\ inum_to_chunk(i) \in chunks
    BY <1>2, <1>3, <1>6, ChunkOf
  <2>2. \A k \in Inums \ {p, i} : inode_map'[k] = inode_map[k]
    BY <1>7 DEF Remapped
  <2>3. i \in MappedInodes' => Fits(InMemory(i))' /\ (InMemory(i)'.type = "dir" => Distinct(InMemory(i))')
    BY <1>9, <1>11
  <2> QED BY <1>3, <1>7, <1>9, <1>10, <2>1, <2>2, <2>3, TwoRenewed
<1>13. i \notin MappedInodes /\ i \notin Directories /\ i \in Directories'
  BY <1>9, <1>11 DEF Directories
<1>14. MappedInodes' = MappedInodes \cup {i} /\ Directories' = Directories \cup {i}
  BY <1>9, <1>12, <1>13
<1>15. Bindings' = With(With(With(Bindings, p, name, i), i, ".", i), i, "..", p)
  <2>1. PICK B, C : B = Bindings /\ C = Bindings'
    OBVIOUS
  <2>2. /\ \A d, e : <<d, e>> \in B <=> d \in Directories /\ e \in EntriesIn(InMemory(d))
        /\ \A d, e : <<d, e>> \in C <=> d \in Directories \cup {i} /\ e \in EntriesIn(InMemory(d))'
        /\ \A x \in B : x = <<x[1], x[2]>>
        /\ \A x \in C : x = <<x[1], x[2]>>
    BY <1>12, <1>14, <2>1, BindingsAre, BindingsAreAfter DEF Structure
  <2>3. /\ EntriesIn(InMemory(p))' = EntriesIn(InMemory(p)) \cup {<<name, i>>}
        /\ EntriesIn(InMemory(i))' = {<<".", i>>, <<"..", p>>}
    BY <1>1, <1>9, <1>10, <1>11
  <2>4. \A d \in Directories \ {p} : EntriesIn(InMemory(d))' = EntriesIn(InMemory(d))
    BY <1>12, <1>13
  <2> DEFINE X(d, e) == \/ <<d, e>> \in B \/ (d = p /\ e = <<name, i>>)
                        \/ (d = i /\ e = <<".", i>>) \/ (d = i /\ e = <<"..", p>>)
  <2>5. ASSUME NEW d, NEW e PROVE <<d, e>> \in C <=> X(d, e)
    <3>1. CASE d = i
      BY <1>3, <1>13, <2>2, <2>3, <3>1
    <3>2. CASE d = p
      BY <1>3, <2>2, <2>3, <3>2
    <3>3. CASE d # i /\ d # p
      BY <2>2, <2>4, <3>3
    <3> QED BY <3>1, <3>2, <3>3
  <2>6. PICK D : D = With(With(With(B, p, name, i), i, ".", i), i, "..", p)
    OBVIOUS
  <2>7. ASSUME NEW d, NEW e PROVE <<d, e>> \in D <=> X(d, e)
    BY <2>6 DEF With
  <2>8. \A x \in D : x = <<x[1], x[2]>>
    BY <2>2, <2>6 DEF With
  <2> HIDE DEF X
  <2>9. ASSUME NEW x PROVE x \in C <=> x \in D
    BY <2>2, <2>5, <2>7, <2>8
  <2> QED BY <2>1, <2>6, <2>9
<1>16. SameRefs({p}) /\ Refs(p)' = Refs(p) + 1 /\ Refs(i)' = 2
  <2>1. \A k \in MappedInodes : k # i
    OBVIOUS
  <2> QED BY <1>1, <1>9, <1>10, <1>11, <1>12, <2>1 DEF SameRefs, Refs
<1>17. /\ Contents' \ {i} = Contents \ {i}
       /\ (i \in Contents' <=> i \in Contents) => Contents' = Contents
  BY <1>3, <1>12, OtherContents
<1>18. i \notin Contents' /\ i \notin Contents
  BY <1>9, <1>11 DEF Contents
<1>19. Contents' = Contents
  BY <1>17, <1>18
<1> QED BY <1>2, <1>7, <1>12, <1>14, <1>15, <1>16, <1>19 DEF AddsDir

-----------------------------------------------------------------------------
\* file_link of a file under a name that is free.
LEMMA LinksName ==
    ASSUME Structure, NEW p \in Directories, NEW name \in Names,
           NEW i \in MappedInodes, InMemory(i).type = "reg", NEW node, node = InMemory(p),
           \A e \in EntriesIn(node) : e[1] # name, NEW n, n = Len(disk),
           NEW new \in AddDirEntry(node, name, i), NEW was, was = InMemory(i),
           Commit(<<new.block, WithEntry(node, new, n), Referenced(was)>>,
                  [inode_map EXCEPT ![p] = n + 1, ![i] = n + 2], <<p>>)
    PROVE  Structure' /\ AddsName(p, name, i) /\ Contents' = Contents /\ failed' = failed
<1>2. /\ Typed /\ Fits(node) /\ node.type = "dir" /\ Distinct(node) /\ p \in Inums /\ p \in MappedInodes
      /\ \A e \in EntriesIn(node) : e[1] # name
      /\ <<p, <<name, i>>>> \notin Bindings /\ n \in Nat
  <2>1. n \in Nat
    BY Sequence DEF Structure, Typed
  <2>2. \A e \in EntriesIn(node) : e[1] # name
    OBVIOUS
  <2>3. <<name, i>> \notin EntriesIn(node)
    BY <2>2
  <2> QED BY <2>1, <2>2, <2>3, DirectoryNode DEF Structure
<1>3. p # i /\ i \in Inums /\ Fits(was)
  BY <1>2 DEF MappedInodes, Structure, NodesOK
<1>5. PICK up, file : up = WithEntry(node, new, n) /\ file = Referenced(was)
  OBVIOUS
<1>6. PICK blocks, a, b, chunks : /\ blocks = <<new.block, up, file>> /\ a = n + 1 /\ b = n + 2
                                  /\ chunks = {inum_to_chunk(p)}
  OBVIOUS
<1>7. /\ Typed' /\ Extends /\ failed' = failed /\ WrittenTo(chunks)
      /\ Remapped(p, a, i, b) /\ Appended(n, 3, blocks)
  <2>1. PICK inums, map : inums = <<p>> /\ map = [inode_map EXCEPT ![p] = a, ![i] = b]
    OBVIOUS
  <2>2. 3 \in Nat
    OBVIOUS
  <2>3. Commit(blocks, map, inums)
    BY <1>5, <1>6, <2>1
  <2>4. IsSequence(blocks) /\ Len(blocks) = 3
    BY <1>6, Tuples
  <2>5. a \in {-1} \cup (n .. n + 3 - 1) /\ b \in {-1} \cup (n .. n + 3 - 1)
    BY <1>2, <1>6
  <2>6. p \in Inums
    BY <1>2
  <2>7. inums = <<p>> /\ chunks = {inum_to_chunk(p)}
    BY <1>6, <2>1
  <2> QED BY <1>3, <2>1, <2>2, <2>3, <2>4, <2>5, <2>6, <2>7, Update
<1>8. /\ n \in Logged' /\ At(n)' = new.block
      /\ a \in Logged' /\ At(a)' = up /\ b \in Logged' /\ At(b)' = file
  <2>1. 3 \in Nat /\ n \in Nat
    BY <1>2
  <2>2. /\ 3 >= 1 => n \in Logged' /\ At(n)' = blocks[1]
        /\ 3 >= 2 => n + 1 \in Logged' /\ At(n + 1)' = blocks[2]
        /\ 3 >= 3 => n + 2 \in Logged' /\ At(n + 2)' = blocks[3]
    BY <1>7, <2>1, Placed
  <2>3. blocks[1] = new.block /\ blocks[2] = up /\ blocks[3] = file
    BY <1>6
  <2> QED BY <1>6, <2>2, <2>3
<1>9. p \in MappedInodes' /\ InMemory(p)' = up /\ i \in MappedInodes' /\ InMemory(i)' = file
  <2>1. inode_map'[p] = a /\ inode_map'[i] = b
    BY <1>2, <1>3, <1>7 DEF Remapped
  <2> QED BY <1>2, <1>3, <1>8, <2>1, NewVersion
<1>10. /\ Fits(up)' /\ Distinct(up)' /\ up.type = "dir" /\ up.refs = node.refs
       /\ EntriesIn(up)' = EntriesIn(node) \cup {<<name, i>>}
  BY <1>2, <1>3, <1>5, <1>7, <1>8, EntryAdded
<1>11. /\ Fits(file)' /\ file.type = "reg" /\ file.refs = was.refs + 1 /\ SameButRefs(file, was)
  <2>1. PICK r : r = was.refs + 1
    OBVIOUS
  <2>2. r \in Nat \ {0} /\ file = [was EXCEPT !.refs = r]
    <3>1. was.refs \in Nat \ {0}
      BY <1>3 DEF Fits, Nodes
    <3> QED BY <1>5, <2>1, <3>1 DEF Referenced
  <2>3. Fits(was)'
    BY <1>2, <1>3, <1>7, Stays
  <2> QED BY <2>1, <2>2, <2>3, Recounted DEF SameButRefs
<1>12. /\ Structure' /\ p \in Directories'
       /\ MappedInodes' \ {i} = MappedInodes \ {i} /\ Directories' \ {i} = Directories \ {i}
       /\ \A k \in MappedInodes \ {p, i} : InMemory(k)' = InMemory(k)
       /\ \A d \in Directories \ {p, i} : EntriesIn(InMemory(d))' = EntriesIn(InMemory(d))
  <2>1. chunks \in SUBSET Chunks /\ inum_to_chunk(p) \in chunks
    BY <1>2, <1>3, <1>6, ChunkOf
  <2>2. \A k \in Inums \ {p, i} : inode_map'[k] = inode_map[k]
    BY <1>7 DEF Remapped
  <2>3. i \in MappedInodes' => Fits(InMemory(i))' /\ (InMemory(i)'.type = "dir" => Distinct(InMemory(i))')
    BY <1>9, <1>11
  <2>4. SameButRefs(InMemory(i)', InMemory(i))
    BY <1>9, <1>11
  <2> QED BY <1>3, <1>7, <1>9, <1>10, <2>1, <2>2, <2>3, <2>4, TwoRenewed
<1>13. i \notin Directories /\ i \notin Directories'
  BY <1>9, <1>11 DEF Directories
<1>14. MappedInodes' = MappedInodes /\ Directories' = Directories
  <2>1. ASSUME NEW k PROVE k \in MappedInodes' <=> k \in MappedInodes
    BY <1>9, <1>12
  <2>2. ASSUME NEW k PROVE k \in Directories' <=> k \in Directories
    BY <1>12, <1>13
  <2>3. MappedInodes' = MappedInodes
    BY <2>1
  <2>4. Directories' = Directories
    BY <2>2
  <2> QED BY <2>3, <2>4
<1>15. Bindings' = With(Bindings, p, name, i)
  <2>1. EntriesIn(InMemory(p))' = EntriesIn(InMemory(p)) \cup {<<name, i>>}
    BY <1>9, <1>10
  <2>2. \A d \in Directories \ {p} : EntriesIn(InMemory(d))' = EntriesIn(InMemory(d))
    BY <1>12, <1>13
  <2> QED BY <1>12, <1>14, <2>1, <2>2, OneDirectory DEF Structure
<1>16. SameRefs({i}) /\ Refs(i)' = Refs(i) + 1
  BY <1>9, <1>10, <1>11, <1>12 DEF SameRefs, Refs
<1>17. /\ Contents' \ {i} = Contents \ {i}
       /\ (i \in Contents' <=> i \in Contents) => Contents' = Contents
  BY <1>3, <1>12, OtherContents
<1>18. i \in Contents' <=> i \in Contents
  <2>1. file.pointers = was.pointers
    BY <1>11 DEF SameButRefs
  <2> QED BY <1>9, <1>11, <2>1 DEF Contents, PointedBy
<1>19. Contents' = Contents
  BY <1>17, <1>18
<1> QED BY <1>2, <1>7, <1>12, <1>14, <1>15, <1>16, <1>19 DEF AddsName

\* file_delete of the last name of a file.
LEMMA FreesFile ==
    ASSUME Structure, NEW p \in Directories, NEW name \in Names,
           NEW i \in MappedInodes, InMemory(i).type = "reg", NEW node, node = InMemory(p),
           <<name, i>> \in EntriesIn(node), NEW n, n = Len(disk), NEW was, was = InMemory(i),
           was.refs = 1,
           NEW k \in PtrIndex, NEW s \in Slots, k < node.size, At(node.pointers[k]).entries[s][1] = name,
           Commit(<<SetSlot(At(node.pointers[k]), s, FreeSlot), [node EXCEPT !.pointers[k] = n]>>,
                  [inode_map EXCEPT ![i] = -1, ![p] = n + 1], <<i, p>>)
    PROVE  Structure' /\ DropsFile(p, name, i) /\ Contents' = Contents \ {i} /\ failed' = failed
<1>2. /\ Typed /\ Fits(node) /\ node.type = "dir" /\ Distinct(node) /\ p \in Inums /\ p \in MappedInodes
      /\ n \in Nat /\ <<p, <<name, i>>>> \in Bindings
  <2>1. n \in Nat
    BY Sequence DEF Structure, Typed
  <2> QED BY <2>1, DirectoryNode DEF Structure
<1>3. p # i /\ i \in Inums /\ Fits(was)
  BY <1>2 DEF MappedInodes, Structure, NodesOK
<1>4. /\ k < node.size /\ EntryAt(node, <<k, s>>) = <<name, i>> /\ <<name, i>> # FreeSlot
  <2>1. <<k, s>> \in Places(node)
    BY <1>2, Constants DEF Places, Fits, Nodes
  <2>2. EntryAt(node, <<k, s>>) = At(node.pointers[k]).entries[s]
    BY DEF EntryAt
  <2>3. name # "-"
    BY Constants
  <2>4. EntryAt(node, <<k, s>>) # FreeSlot /\ <<name, i>> # FreeSlot
    BY <2>2, <2>3 DEF FreeSlot
  <2>5. EntryAt(node, <<k, s>>) \in EntriesIn(node)
    BY <1>2, <2>1, <2>4, EntriesAre
  <2>6. EntryAt(node, <<k, s>>) = <<name, i>>
    BY <1>2, <2>2, <2>5, BoundOnce
  <2> QED BY <2>4, <2>6
<1>5. PICK block, up, file : /\ block = SetSlot(At(node.pointers[k]), s, FreeSlot)
                             /\ up = [node EXCEPT !.pointers[k] = n] /\ file = Unreferenced(was)
  OBVIOUS
<1>6. PICK blocks, a, b, chunks : /\ blocks = <<block, up>> /\ a = n + 1 /\ b = -1
                                  /\ chunks = {inum_to_chunk(p), inum_to_chunk(i)}
  OBVIOUS
<1>7. /\ Typed' /\ Extends /\ failed' = failed /\ WrittenTo(chunks)
      /\ Remapped(i, b, p, a) /\ Appended(n, 2, blocks)
  <2>1. PICK inums, map : inums = <<i, p>> /\ map = [inode_map EXCEPT ![i] = b, ![p] = a]
    OBVIOUS
  <2>2. 2 \in Nat
    OBVIOUS
  <2>3. Commit(blocks, map, inums)
    BY <1>5, <1>6, <2>1
  <2>4. IsSequence(blocks) /\ Len(blocks) = 2
    BY <1>6, Tuples
  <2>5. a \in {-1} \cup (n .. n + 2 - 1) /\ b \in {-1} \cup (n .. n + 2 - 1)
    BY <1>2, <1>6
  <2>6. p \in Inums
    BY <1>2
  <2>7. inums \in {<<i, p>>, <<p, i>>} /\ chunks = {inum_to_chunk(i), inum_to_chunk(p)}
    BY <1>6, <2>1
  <2>8. map = [inode_map EXCEPT ![i] = b, ![p] = a]
    BY <2>1
  <2> QED BY <1>3, <2>2, <2>3, <2>4, <2>5, <2>6, <2>7, <2>8, Update
<1>8. n \in Logged' /\ At(n)' = block /\ a \in Logged' /\ At(a)' = up
  <2>1. 2 \in Nat /\ n \in Nat
    BY <1>2
  <2>2. /\ 2 >= 1 => n \in Logged' /\ At(n)' = blocks[1]
        /\ 2 >= 2 => n + 1 \in Logged' /\ At(n + 1)' = blocks[2]
    BY <1>7, <2>1, Placed
  <2>3. blocks[1] = block /\ blocks[2] = up
    BY <1>6
  <2> QED BY <1>6, <2>2, <2>3
<1>9. p \in MappedInodes' /\ InMemory(p)' = up /\ i \notin MappedInodes'
  <2>1. inode_map'[p] = a /\ inode_map'[i] = -1
    BY <1>2, <1>3, <1>6, <1>7 DEF Remapped
  <2>2. i \notin MappedInodes'
    BY <2>1 DEF MappedInodes
  <2> QED BY <1>2, <1>8, <2>1, <2>2, NewVersion
<1>10. /\ Fits(up)' /\ Distinct(up)' /\ up.type = "dir" /\ up.refs = node.refs
       /\ EntriesIn(up)' = EntriesIn(node) \ {<<name, i>>}
  BY <1>2, <1>4, <1>5, <1>7, <1>8, EntryRemoved
<1>12. /\ Structure' /\ p \in Directories'
       /\ MappedInodes' \ {i} = MappedInodes \ {i} /\ Directories' \ {i} = Directories \ {i}
       /\ \A m \in MappedInodes \ {p, i} : InMemory(m)' = InMemory(m)
       /\ \A d \in Directories \ {p, i} : EntriesIn(InMemory(d))' = EntriesIn(InMemory(d))
  <2>1. chunks \in SUBSET Chunks /\ inum_to_chunk(p) \in chunks /\ inum_to_chunk(i) \in chunks
    BY <1>2, <1>3, <1>6, ChunkOf
  <2>2. \A m \in Inums \ {p, i} : inode_map'[m] = inode_map[m]
    BY <1>7 DEF Remapped
  <2>3. i \in MappedInodes' => Fits(InMemory(i))' /\ (InMemory(i)'.type = "dir" => Distinct(InMemory(i))')
    BY <1>9
  <2> QED BY <1>3, <1>7, <1>9, <1>10, <2>1, <2>2, <2>3, TwoRenewed
<1>13. i \notin Directories /\ i \notin Directories'
  BY <1>9 DEF Directories
<1>14. MappedInodes' = MappedInodes \ {i} /\ Directories' = Directories
  <2>1. ASSUME NEW m PROVE m \in MappedInodes' <=> m \in MappedInodes \ {i}
    BY <1>9, <1>12
  <2>2. ASSUME NEW m PROVE m \in Directories' <=> m \in Directories
    BY <1>12, <1>13
  <2>3. MappedInodes' = MappedInodes \ {i}
    BY <2>1
  <2>4. Directories' = Directories
    BY <2>2
  <2> QED BY <2>3, <2>4
<1>15. Bindings' = Without(Bindings, p, name, i)
  <2>1. EntriesIn(InMemory(p))' = EntriesIn(InMemory(p)) \ {<<name, i>>}
    BY <1>9, <1>10
  <2>2. \A d \in Directories \ {p} : EntriesIn(InMemory(d))' = EntriesIn(InMemory(d))
    BY <1>12, <1>13
  <2> QED BY <1>12, <1>14, <2>1, <2>2, OneDirectory DEF Structure
<1>16. SameRefs({i})
  BY <1>9, <1>10, <1>12 DEF SameRefs, Refs
<1>17. Contents' \ {i} = Contents \ {i}
  BY <1>3, <1>12, OtherContents
<1>18. i \notin Contents'
  BY <1>9 DEF Contents
<1>19. Contents' = Contents \ {i}
  BY <1>17, <1>18
<1> QED BY <1>2, <1>7, <1>12, <1>13, <1>14, <1>15, <1>16, <1>19 DEF DropsFile, Refs

\* file_delete of a name of a file that has others.
LEMMA DropsLink ==
    ASSUME Structure, NEW p \in Directories, NEW name \in Names,
           NEW i \in MappedInodes, InMemory(i).type = "reg", NEW node, node = InMemory(p),
           <<name, i>> \in EntriesIn(node), NEW n, n = Len(disk), NEW was, was = InMemory(i),
           was.refs # 1,
           NEW k \in PtrIndex, NEW s \in Slots, k < node.size, At(node.pointers[k]).entries[s][1] = name,
           Commit(<<SetSlot(At(node.pointers[k]), s, FreeSlot), [node EXCEPT !.pointers[k] = n],
                    Unreferenced(was)>>,
                  [inode_map EXCEPT ![p] = n + 1, ![i] = n + 2], <<i, p>>)
    PROVE  Structure' /\ DropsName(p, name, i) /\ Contents' = Contents /\ failed' = failed
<1>2. /\ Typed /\ Fits(node) /\ node.type = "dir" /\ Distinct(node) /\ p \in Inums /\ p \in MappedInodes
      /\ n \in Nat /\ <<p, <<name, i>>>> \in Bindings
  <2>1. n \in Nat
    BY Sequence DEF Structure, Typed
  <2> QED BY <2>1, DirectoryNode DEF Structure
<1>3. p # i /\ i \in Inums /\ Fits(was)
  BY <1>2 DEF MappedInodes, Structure, NodesOK
<1>4. /\ k < node.size /\ EntryAt(node, <<k, s>>) = <<name, i>> /\ <<name, i>> # FreeSlot
  <2>1. <<k, s>> \in Places(node)
    BY <1>2, Constants DEF Places, Fits, Nodes
  <2>2. EntryAt(node, <<k, s>>) = At(node.pointers[k]).entries[s]
    BY DEF EntryAt
  <2>3. name # "-"
    BY Constants
  <2>4. EntryAt(node, <<k, s>>) # FreeSlot /\ <<name, i>> # FreeSlot
    BY <2>2, <2>3 DEF FreeSlot
  <2>5. EntryAt(node, <<k, s>>) \in EntriesIn(node)
    BY <1>2, <2>1, <2>4, EntriesAre
  <2>6. EntryAt(node, <<k, s>>) = <<name, i>>
    BY <1>2, <2>2, <2>5, BoundOnce
  <2> QED BY <2>4, <2>6
<1>5. PICK block, up, file : /\ block = SetSlot(At(node.pointers[k]), s, FreeSlot)
                             /\ up = [node EXCEPT !.pointers[k] = n] /\ file = Unreferenced(was)
  OBVIOUS
<1>6. PICK blocks, a, b, chunks : /\ blocks = <<block, up, file>> /\ a = n + 1 /\ b = n + 2
                                  /\ chunks = {inum_to_chunk(p), inum_to_chunk(i)}
  OBVIOUS
<1>7. /\ Typed' /\ Extends /\ failed' = failed /\ WrittenTo(chunks)
      /\ Remapped(p, a, i, b) /\ Appended(n, 3, blocks)
  <2>1. PICK inums, map : inums = <<i, p>> /\ map = [inode_map EXCEPT ![p] = a, ![i] = b]
    OBVIOUS
  <2>2. 3 \in Nat
    OBVIOUS
  <2>3. Commit(blocks, map, inums)
    BY <1>5, <1>6, <2>1
  <2>4. IsSequence(blocks) /\ Len(blocks) = 3
    BY <1>6, Tuples
  <2>5. a \in {-1} \cup (n .. n + 3 - 1) /\ b \in {-1} \cup (n .. n + 3 - 1)
    BY <1>2, <1>6
  <2>6. p \in Inums
    BY <1>2
  <2>7. inums = <<i, p>> /\ chunks = {inum_to_chunk(p), inum_to_chunk(i)}
    BY <1>6, <2>1
  <2> QED BY <1>3, <2>1, <2>2, <2>3, <2>4, <2>5, <2>6, <2>7, Update
<1>8. /\ n \in Logged' /\ At(n)' = block
      /\ a \in Logged' /\ At(a)' = up /\ b \in Logged' /\ At(b)' = file
  <2>1. 3 \in Nat /\ n \in Nat
    BY <1>2
  <2>2. /\ 3 >= 1 => n \in Logged' /\ At(n)' = blocks[1]
        /\ 3 >= 2 => n + 1 \in Logged' /\ At(n + 1)' = blocks[2]
        /\ 3 >= 3 => n + 2 \in Logged' /\ At(n + 2)' = blocks[3]
    BY <1>7, <2>1, Placed
  <2>3. blocks[1] = block /\ blocks[2] = up /\ blocks[3] = file
    BY <1>6
  <2> QED BY <1>6, <2>2, <2>3
<1>9. p \in MappedInodes' /\ InMemory(p)' = up /\ i \in MappedInodes' /\ InMemory(i)' = file
  <2>1. inode_map'[p] = a /\ inode_map'[i] = b
    BY <1>2, <1>3, <1>7 DEF Remapped
  <2> QED BY <1>2, <1>3, <1>8, <2>1, NewVersion
<1>10. /\ Fits(up)' /\ Distinct(up)' /\ up.type = "dir" /\ up.refs = node.refs
       /\ EntriesIn(up)' = EntriesIn(node) \ {<<name, i>>}
  BY <1>2, <1>4, <1>5, <1>7, <1>8, EntryRemoved
<1>11. /\ Fits(file)' /\ file.type = "reg" /\ file.refs = was.refs - 1
  <2>1. PICK r : r = was.refs - 1
    OBVIOUS
  <2>2. r \in Nat \ {0} /\ file = [was EXCEPT !.refs = r]
    <3>1. was.refs \in Nat \ {0} /\ was.refs # 1
      BY <1>3 DEF Fits, Nodes
    <3> QED BY <1>5, <2>1, <3>1 DEF Unreferenced
  <2>3. Fits(was)'
    BY <1>2, <1>3, <1>7, Stays
  <2>4. was.type = "reg"
    OBVIOUS
  <2>5. Fits(file)' /\ file.type = was.type /\ file.refs = r
    BY <2>2, <2>3, Recounted
  <2> QED BY <2>1, <2>4, <2>5
<1>12. /\ Structure' /\ p \in Directories'
       /\ MappedInodes' \ {i} = MappedInodes \ {i} /\ Directories' \ {i} = Directories \ {i}
       /\ \A m \in MappedInodes \ {p, i} : InMemory(m)' = InMemory(m)
       /\ \A d \in Directories \ {p, i} : EntriesIn(InMemory(d))' = EntriesIn(InMemory(d))
  <2>1. chunks \in SUBSET Chunks /\ inum_to_chunk(p) \in chunks /\ inum_to_chunk(i) \in chunks
    BY <1>2, <1>3, <1>6, ChunkOf
  <2>2. \A m \in Inums \ {p, i} : inode_map'[m] = inode_map[m]
    BY <1>7 DEF Remapped
  <2>3. i \in MappedInodes' => Fits(InMemory(i))' /\ (InMemory(i)'.type = "dir" => Distinct(InMemory(i))')
    BY <1>9, <1>11
  <2> QED BY <1>3, <1>7, <1>9, <1>10, <2>1, <2>2, <2>3, TwoRenewed
<1>13. i \notin Directories /\ i \notin Directories'
  BY <1>9, <1>11 DEF Directories
<1>14. MappedInodes' = MappedInodes /\ Directories' = Directories
  <2>1. ASSUME NEW m PROVE m \in MappedInodes' <=> m \in MappedInodes
    BY <1>9, <1>12
  <2>2. ASSUME NEW m PROVE m \in Directories' <=> m \in Directories
    BY <1>12, <1>13
  <2>3. MappedInodes' = MappedInodes
    BY <2>1
  <2>4. Directories' = Directories
    BY <2>2
  <2> QED BY <2>3, <2>4
<1>15. Bindings' = Without(Bindings, p, name, i)
  <2>1. EntriesIn(InMemory(p))' = EntriesIn(InMemory(p)) \ {<<name, i>>}
    BY <1>9, <1>10
  <2>2. \A d \in Directories \ {p} : EntriesIn(InMemory(d))' = EntriesIn(InMemory(d))
    BY <1>12, <1>13
  <2> QED BY <1>12, <1>14, <2>1, <2>2, OneDirectory DEF Structure
<1>16. SameRefs({i}) /\ Refs(i)' = Refs(i) - 1
  BY <1>9, <1>10, <1>11, <1>12 DEF SameRefs, Refs
<1>17. /\ Contents' \ {i} = Contents \ {i}
       /\ (i \in Contents' <=> i \in Contents) => Contents' = Contents
  BY <1>3, <1>12, OtherContents
<1>18. i \in Contents' <=> i \in Contents
  <2>1. file.pointers = was.pointers
    BY <1>5 DEF Unreferenced
  <2> QED BY <1>9, <1>11, <2>1 DEF Contents, PointedBy
<1>19. Contents' = Contents
  BY <1>17, <1>18
<1> QED BY <1>2, <1>7, <1>12, <1>14, <1>15, <1>16, <1>19 DEF DropsName

-----------------------------------------------------------------------------
\* A step that changes no entry changes no binding.
LEMMA NamesKept ==
    ASSUME NodesOK, NodesOK', Directories' = Directories,
           \A d \in Directories : EntriesIn(InMemory(d))' = EntriesIn(InMemory(d))
    PROVE  Bindings' = Bindings
<1>1. PICK B, C : B = Bindings /\ C = Bindings'
  OBVIOUS
<1>2. /\ \A d, e : <<d, e>> \in B <=> d \in Directories /\ e \in EntriesIn(InMemory(d))
      /\ \A d, e : <<d, e>> \in C <=> d \in Directories /\ e \in EntriesIn(InMemory(d))'
      /\ \A b \in B : b = <<b[1], b[2]>>
      /\ \A b \in C : b = <<b[1], b[2]>>
  BY <1>1, BindingsAre, BindingsAreAfter
<1>3. ASSUME NEW d, NEW e PROVE <<d, e>> \in C <=> <<d, e>> \in B
  BY <1>2
<1>4. ASSUME NEW b PROVE b \in C <=> b \in B
  BY <1>2, <1>3
<1> QED BY <1>1, <1>4

\* Steps that map nothing anew: a command that fails, and sync.
LEMMA NothingMapped ==
    ASSUME Structure, Typed', Extends, inode_map' = inode_map, cr' = cr
    PROVE  Structure' /\ SameNames /\ Contents' = Contents
<1>1. Structure'
  <2>1. WrittenTo({})
    BY DEF WrittenTo
  <2>2. \A i \in Inums \ {} : inode_map'[i] = inode_map[i]
    OBVIOUS
  <2> QED BY <2>1, <2>2, Rebuild
<1>2. ASSUME NEW i \in Inums
      PROVE  /\ i \in MappedInodes' <=> i \in MappedInodes
             /\ i \in MappedInodes => InMemory(i)' = InMemory(i)
             /\ i \in Directories' <=> i \in Directories
             /\ i \in Directories => EntriesIn(InMemory(i))' = EntriesIn(InMemory(i))
  BY Others
<1>3. MappedInodes \subseteq Inums /\ MappedInodes' \subseteq Inums
      /\ Directories \subseteq MappedInodes /\ Directories' \subseteq MappedInodes'
  BY DEF MappedInodes, Directories
<1>4. MappedInodes' = MappedInodes
  <2>1. \A i : i \in MappedInodes' <=> i \in MappedInodes
    BY <1>2, <1>3
  <2> QED BY <2>1
<1>5. Directories' = Directories
  <2>1. \A i : i \in Directories' <=> i \in Directories
    BY <1>2, <1>3
  <2> QED BY <2>1
<1>6. SameRefs({})
  BY <1>2, <1>3 DEF SameRefs, Refs
<1>7. Bindings' = Bindings
  <2>1. \A d \in Directories : EntriesIn(InMemory(d))' = EntriesIn(InMemory(d))
    BY <1>2, <1>3
  <2> QED BY <1>1, <1>5, <2>1, NamesKept DEF Structure
<1>8. Contents' = Contents
  <2>1. ASSUME NEW k PROVE k \in Contents' <=> k \in Contents
    BY <1>2, <1>3 DEF Contents, PointedBy
  <2> QED BY <2>1
<1> QED BY <1>1, <1>4, <1>5, <1>6, <1>7, <1>8 DEF SameNames

\* A step of the commands that fail.
LEMMA NothingChanged ==
    ASSUME Structure, UNCHANGED <<mode, disk, cr, inode_map>>
    PROVE  Structure' /\ SameNames /\ Contents' = Contents
<1>1. Logged' = Logged /\ \A a : At(a)' = At(a)
  BY DEF Logged, At
<1>2. Extends
  BY <1>1 DEF Extends
<1>3. Typed'
  BY <1>1 DEF Structure, Typed
<1> QED BY <1>2, <1>3, NothingMapped

\* sync writes the checkpoint region and nothing else.
LEMMA Syncs ==
    ASSUME Structure, sync
    PROVE  Structure' /\ SameNames /\ Contents' = Contents /\ failed' = failed
<1>1. /\ IsSequence(disk) /\ Len(disk) \in Nat /\ 1 \in 1 .. Len(disk)
      /\ disk' = [disk EXCEPT ![1] = CrBlock(cr)] /\ UNCHANGED <<mode, cr, inode_map, failed>>
  BY Sequence DEF Structure, Typed, sync
<1>2. /\ IsSequence(disk') /\ Len(disk') = Len(disk) /\ disk'[1] = CrBlock(cr)
      /\ \A a \in 1 .. Len(disk) : a # 1 => disk'[a] = disk[a]
  <2>1. ASSUME NEW e
        PROVE  /\ IsSequence([disk EXCEPT ![1] = e]) /\ Len([disk EXCEPT ![1] = e]) = Len(disk)
               /\ [disk EXCEPT ![1] = e][1] = e
               /\ \A a \in 1 .. Len(disk) : a # 1 => [disk EXCEPT ![1] = e][a] = disk[a]
    <3>1. IsSequence(disk) /\ 1 \in 1 .. Len(disk)
      BY <1>1
    <3> QED BY <3>1, Replace
  <2> QED BY <1>1, <2>1, Zenon
<1>3. Logged' = Logged
  BY <1>2 DEF Logged
<1>4. ASSUME NEW a \in Logged PROVE At(a)' = At(a)
  <2>1. a # -1 /\ a + 1 # 1 /\ a + 1 \in 1 .. Len(disk)
    BY <1>1 DEF Logged
  <2> QED BY <1>2, <2>1 DEF At
<1>5. Extends
  BY <1>3, <1>4 DEF Extends
<1>6. Typed'
  <2>1. disk'[1].block_type = "cp"
    BY <1>2 DEF CrBlock
  <2> QED BY <1>1, <1>2, <1>3, <2>1 DEF Structure, Typed
<1> QED BY <1>1, <1>5, <1>6, NothingMapped

\* file_write of a file.
LEMMA WritesFile ==
    ASSUME Structure, NEW i \in MappedInodes, InMemory(i).type = "reg",
           NEW was, was = InMemory(i), NEW n, n = Len(disk),
           NEW offset \in PtrIndex, NEW num_blks \in 0 .. NUM_INODE_PTRS,
           NEW last, last = Lesser(NUM_INODE_PTRS, offset + num_blks),
           NEW next, next = Rewritten(was, offset, last, n),
           Commit([k \in 1 .. last - offset |-> DataBlock] \o <<next>>,
                  [inode_map EXCEPT ![i] = n + last - offset], <<i>>)
    PROVE  /\ Structure' /\ SameNames /\ failed' = failed
           /\ Contents' \in {Contents, Contents \cup {i}}
<1>1. /\ Typed /\ n \in Nat /\ i \in Inums /\ Fits(was)
  BY Sequence DEF Structure, Typed, NodesOK, MappedInodes
<1>2. /\ offset \in Nat /\ last \in 0 .. NUM_INODE_PTRS /\ last \in Nat /\ last - offset \in Nat
  BY Constants DEF Lesser
<1>3. PICK q, a : q = last - offset /\ a = n + last - offset
  OBVIOUS
<1>4. q \in Nat /\ a = n + q /\ a \in Nat /\ q + 1 \in Nat /\ q + 1 \in 1 .. q + 1
  BY <1>1, <1>2, <1>3
<1>5. PICK data, blocks, map, chunks :
        /\ data = [k \in 1 .. q |-> DataBlock] /\ blocks = data \o <<next>>
        /\ map = [inode_map EXCEPT ![i] = a] /\ chunks = {inum_to_chunk(i), inum_to_chunk(i)}
  OBVIOUS
<1>6. IsSequence(data) /\ Len(data) = q /\ IsSequence(<<next>>) /\ Len(<<next>>) = 1 /\ <<next>>[1] = next
  <2>1. data = [k \in 1 .. q |-> data[k]]
    BY <1>5
  <2> QED BY <1>4, <2>1, ListOf, Tuples
<1>7. /\ IsSequence(blocks) /\ Len(blocks) = q + 1 /\ blocks[q + 1] = next
      /\ \A k \in 1 .. q : blocks[k] = DataBlock
  <2>1. PICK tail : tail = <<next>>
    OBVIOUS
  <2>2. /\ IsSequence(data \o tail) /\ Len(data \o tail) = Len(data) + Len(tail)
        /\ \A k \in 1 .. Len(data) : (data \o tail)[k] = data[k]
        /\ \A k \in 1 .. Len(tail) : (data \o tail)[Len(data) + k] = tail[k]
    BY <1>6, <2>1, Concat
  <2>3. 1 \in 1 .. Len(tail)
    BY <1>6, <2>1
  <2> QED BY <1>5, <1>6, <2>1, <2>2, <2>3
<1>8. Settled(n, blocks, map, chunks)
  <2>1. Commit(blocks, map, <<i>>)
    BY <1>3, <1>5
  <2>2. inode_map \in [Inums -> Logged \cup {-1}]
    BY <1>1 DEF Typed
  <2>3. map = [m \in Inums |-> map[m]] /\ \A m \in Inums : map[m] = IF m = i THEN a ELSE inode_map[m]
    BY <1>5, <2>2
  <2>4. a \in n .. n + Len(blocks) - 1
    BY <1>1, <1>4, <1>7
  <2>5. \A m \in Inums : map[m] \in Logged \cup {-1} \cup (n .. n + Len(blocks) - 1)
    BY <2>2, <2>3, <2>4
  <2>6. PICK inums : inums = <<i>>
    OBVIOUS
  <2> QED BY <1>1, <1>5, <1>7, <2>1, <2>3, <2>5, <2>6, Commits
<1>9. /\ Typed' /\ Extends /\ failed' = failed /\ WrittenTo(chunks)
      /\ inode_map'[i] = a /\ \A k \in Inums \ {i} : inode_map'[k] = inode_map[k]
      /\ \A k \in 1 .. q + 1 : n + k - 1 \in Logged' /\ At(n + k - 1)' = blocks[k]
  BY <1>1, <1>5, <1>7, <1>8 DEF Settled, Typed
<1>10. a \in Logged' /\ At(a)' = next
  <2>1. n + (q + 1) - 1 = a
    BY <1>1, <1>4
  <2> QED BY <1>4, <1>7, <1>9, <2>1
<1>11. ASSUME NEW k \in offset .. last - 1
       PROVE  n + k - offset \in Logged' /\ At(n + k - offset)' = DataBlock
  <2>1. PICK m : m = k - offset + 1
    OBVIOUS
  <2>2. m \in 1 .. q /\ m \in 1 .. q + 1 /\ n + m - 1 = n + k - offset
    <3>1. k \in Int /\ offset <= k /\ k <= last - 1 /\ offset \in Int /\ last \in Int /\ n \in Int
      BY <1>1, <1>2
    <3> QED BY <1>2, <1>3, <2>1, <3>1, SMTT(30)
  <2>3. At(n + m - 1)' = DataBlock /\ n + m - 1 \in Logged'
    BY <1>7, <1>9, <2>2
  <2> QED BY <2>2, <2>3
<1>12. Fits(next)' /\ next.type = "reg" /\ next.refs = was.refs
  <2>1. DataFrom(n, offset, last)
    BY <1>11 DEF DataFrom
  <2>2. was.type = "reg"
    OBVIOUS
  <2> QED BY <1>1, <1>2, <1>9, <2>1, <2>2, Written
<1>13. i \in MappedInodes' /\ InMemory(i)' = next
  BY <1>1, <1>9, <1>10, NewVersion
<1>14. Structure'
  <2>1. PICK changed : changed = {i}
    OBVIOUS
  <2>2. chunks \in SUBSET Chunks /\ changed \in SUBSET Inums /\ inum_to_chunk(i) \in chunks
    BY <1>1, <1>5, <2>1, ChunkOf
  <2>3. \A k \in Inums \ changed : inode_map'[k] = inode_map[k]
    BY <1>9, <2>1
  <2>4. \A k \in changed :
          /\ k \in MappedInodes' => Fits(InMemory(k))' /\ (InMemory(k)'.type = "dir" => Distinct(InMemory(k))')
          /\ inum_to_chunk(k) \notin chunks =>
                k \in MappedInodes /\ k \in MappedInodes' /\ SameButRefs(InMemory(k)', InMemory(k))
    BY <1>12, <1>13, <2>1, <2>2
  <2> QED BY <1>9, <2>2, <2>3, <2>4, Rebuild
<1>15. ASSUME NEW k \in Inums \ {i}
       PROVE  /\ k \in MappedInodes' <=> k \in MappedInodes
              /\ k \in MappedInodes => InMemory(k)' = InMemory(k)
              /\ k \in Directories' <=> k \in Directories
              /\ k \in Directories => EntriesIn(InMemory(k))' = EntriesIn(InMemory(k))
  BY <1>9, Others
<1>16. i \notin Directories /\ i \notin Directories'
  BY <1>12, <1>13 DEF Directories
<1>17. MappedInodes \subseteq Inums /\ MappedInodes' \subseteq Inums
       /\ Directories \subseteq MappedInodes /\ Directories' \subseteq MappedInodes'
  BY DEF MappedInodes, Directories
<1>18. MappedInodes' = MappedInodes
  <2>1. ASSUME NEW k PROVE k \in MappedInodes' <=> k \in MappedInodes
    BY <1>13, <1>15, <1>17
  <2> QED BY <2>1
<1>19. Directories' = Directories
  <2>1. ASSUME NEW k PROVE k \in Directories' <=> k \in Directories
    BY <1>15, <1>16, <1>17
  <2> QED BY <2>1
<1>20. SameRefs({})
  BY <1>12, <1>13, <1>15, <1>17 DEF SameRefs, Refs
<1>21. Bindings' = Bindings
  <2>1. \A d \in Directories : EntriesIn(InMemory(d))' = EntriesIn(InMemory(d))
    BY <1>15, <1>16, <1>17
  <2> QED BY <1>14, <1>19, <2>1, NamesKept DEF Structure
<1>22. Contents' \in {Contents, Contents \cup {i}}
  <2>1. ASSUME NEW k, k # i PROVE k \in Contents' <=> k \in Contents
    BY <1>15, <1>17, <2>1 DEF Contents, PointedBy
  <2>2. CASE i \in Contents'
    <3>1. ASSUME NEW k PROVE k \in Contents' <=> k \in Contents \cup {i}
      BY <2>1, <2>2
    <3> QED BY <3>1
  <2>3. CASE i \notin Contents'
    <3>1. \A k \in PtrIndex : was.pointers[k] # -1 => next.pointers[k] # -1
      <4>1. ASSUME NEW k \in PtrIndex, was.pointers[k] # -1 PROVE next.pointers[k] # -1
        <5>1. next.pointers[k] = IF k \in offset .. last - 1 THEN n + k - offset ELSE was.pointers[k]
          BY DEF Rewritten, InodeBlock
        <5>2. CASE k \in offset .. last - 1
          <6>1. k \in Int /\ offset <= k
            BY <1>2, <5>2
          <6>2. n + k - offset # -1
            BY <1>1, <1>2, <6>1
          <6> QED BY <5>1, <5>2, <6>2
        <5> QED BY <4>1, <5>1, <5>2
      <4> QED BY <4>1
    <3>2. next.type = "reg" /\ InMemory(i)' = next /\ i \in MappedInodes'
      BY <1>12, <1>13
    <3>3. i \notin Contents
      <4>1. PointedBy(next) = {}
        BY <2>3, <3>2 DEF Contents
      <4>2. \A k \in PtrIndex : next.pointers[k] = -1
        BY <4>1 DEF PointedBy
      <4>3. \A k \in PtrIndex : was.pointers[k] = -1
        BY <3>1, <4>2
      <4>4. PointedBy(was) = {}
        BY <4>3 DEF PointedBy
      <4> QED BY <4>4 DEF Contents
    <3>4. ASSUME NEW k PROVE k \in Contents' <=> k \in Contents
      BY <2>1, <2>3, <3>3
    <3> QED BY <3>4
  <2> QED BY <2>2, <2>3
<1> QED BY <1>9, <1>14, <1>18, <1>19, <1>20, <1>21, <1>22 DEF SameNames

-----------------------------------------------------------------------------
\* A walk ends at an inode, or where a name is missing or above it there is no
\* directory.
LEMMA WalkMapped ==
    ASSUME Structure, Rooted, Leads
    PROVE  \A p \in Paths : Walk[p] \in MappedInodes \cup {-1, NotDir}
<1> DEFINE P == {n \in Nat : \A p \in Paths : Len(p) = n => Walk[p] \in MappedInodes \cup {-1, NotDir}}
<1>1. 0 \in P
  <2>1. ASSUME NEW p \in Paths, Len(p) = 0 PROVE Walk[p] \in MappedInodes \cup {-1, NotDir}
    <3>1. p = <<>>
      BY <2>1, PathIsSeq, EmptySeq
    <3>2. Walk[p] = ROOT_INODE
      BY <2>1, <3>1, WalkStep
    <3> QED BY <3>2 DEF Rooted, Directories
  <2> QED BY <2>1
<1>2. ASSUME NEW n \in Nat, n \in P PROVE n + 1 \in P
  <2>1. ASSUME NEW p \in Paths, Len(p) = n + 1 PROVE Walk[p] \in MappedInodes \cup {-1, NotDir}
    <3>1. p \in NamedPaths
      BY <2>1, PathIsSeq, EmptySeq DEF NamedPaths
    <3>2. Front(p) \in Paths /\ Len(Front(p)) = n
      BY <2>1, <3>1, PathAbove DEF NamedPaths
    <3>3. PICK up : up = Walk[Front(p)]
      OBVIOUS
    <3>4. up \in MappedInodes \cup {-1, NotDir}
      BY <1>2, <3>2, <3>3
    <3>5. /\ up \in Inums \cup Missing /\ Walk[p] \in Inums \cup Missing
          /\ Walk[p] \in Inums => up \in Directories /\ <<LastName(p), Walk[p]>> \in EntriesIn(InMemory(up))
          /\ Walk[p] = NotMapped /\ up # NotMapped => up \in Inums \ MappedInodes
      BY <3>1, <3>3, WalkSays
    <3>6. NotMapped # -1 /\ NotMapped # NotDir /\ NotMapped \notin MappedInodes
          /\ -1 \notin Inums /\ NotDir \notin Inums
      BY DEF NotMapped, NotDir, MappedInodes, Inums
    <3>7. CASE Walk[p] \in Inums
      <4>1. <<up, <<LastName(p), Walk[p]>>>> \in Bindings
        BY <3>5, <3>7, BindingsAre DEF Structure
      <4>2. Walk[p] \in MappedInodes
        BY <4>1 DEF Leads
      <4> QED BY <4>2
    <3>8. Walk[p] # NotMapped
      BY <3>4, <3>5, <3>6
    <3> QED BY <3>5, <3>7, <3>8 DEF Missing
  <2> QED BY <2>1
<1>3. Nat \subseteq P
  <2> HIDE DEF P
  <2> QED BY <1>1, <1>2, SetInduction
<1> QED BY <1>3, PathIsSeq

\* A path to a regular file: its last entry, in its directory.
LEMMA RegularPath ==
    ASSUME Structure, Rooted, Leads, NEW p \in NamedPaths, NEW i, i = Walk[p],
           NEW up, up = Walk[Front(p)], IsRegular(p)
    PROVE  /\ i \in MappedInodes /\ InMemory(i).type = "reg" /\ Inode(i) = InMemory(i)
           /\ up \in Directories /\ Inode(up) = InMemory(up)
           /\ LastName(p) \in Names /\ <<LastName(p), i>> \in EntriesIn(InMemory(up))
<1>1. p \in Paths
  BY DEF NamedPaths
<1>2. i \in MappedInodes \cup {-1, NotDir} /\ i >= 0 /\ Inode(i).type = "reg"
  BY <1>1, WalkMapped DEF IsRegular
<1>3. i \in MappedInodes /\ i \in Inums
  BY <1>2 DEF NotDir, MappedInodes
<1> QED BY <1>2, <1>3, WalkSays, Reads

\* What stops a command is no inode that is not there.
LEMMA Failures ==
    ASSUME Structure, Rooted, Leads, NEW p \in Paths
    PROVE  WalkFailure(p) # "inode_address != -1" /\ WalkFailure(p) # "self.inode_map[inum] != -1"
<1>1. Walk[p] \in MappedInodes \cup {-1, NotDir}
  BY WalkMapped
<1>2. Walk[p] # NotMapped
  BY <1>1 DEF NotMapped, NotDir, MappedInodes, Inums
<1>3. ~(Walk[p] >= 0 /\ InodeAddr(Walk[p]) = -1)
  <2>1. CASE Walk[p] \in MappedInodes
    <3>1. inode_map[Walk[p]] # -1
      BY <2>1 DEF MappedInodes
    <3> QED BY <3>1, Reads
  <2>2. CASE Walk[p] \in {-1, NotDir}
    BY <2>2 DEF NotDir
  <2> QED BY <1>1, <2>1, <2>2
<1> QED BY <1>2, <1>3 DEF WalkFailure

-----------------------------------------------------------------------------
\* The program never stops at an assertion about the map.
Sound == failed \notin {"inode_address != -1", "self.inode_map[inum] != -1"}

\* A free path is bound to a new number, or to that of a file with another path.
Binds(p, i) ==
    LET d == Walk[Front(p)] name == LastName(p) IN
    /\ Walk[p] = -1 /\ Contents' = Contents
    /\ \/ AddsFile(d, name, i)
       \/ AddsDir(d, name, i)
       \/ AddsName(d, name, i) /\ i \notin Directories /\ \E q \in NamedPaths : Walk[q] = i

\* A path to a file is unbound.
Unbinds(p, i) ==
    LET d == Walk[Front(p)] name == LastName(p) IN
    /\ Walk[p] = i /\ i \in MappedInodes \ Directories
    /\ \/ DropsFile(d, name, i) /\ Contents' = Contents \ {i}
       \/ DropsName(d, name, i) /\ Contents' = Contents

\* At most, the file at a path gets contents.
Fills(p) ==
    /\ Walk[p] \in MappedInodes \ Directories
    /\ SameNames /\ Contents' = Contents \cup {Walk[p]}

\* Every step is one of those.
Step ==
    \/ \E p \in NamedPaths : \E i : Binds(p, i) \/ Unbinds(p, i)
    \/ \E p \in NamedPaths : Fills(p)
    \/ SameNames /\ Contents' = Contents

\* The inductive invariant.
IInv == Structure /\ Tallied /\ Sound

\* A command that stops the program changes nothing else.
LEMMA FailsSteps ==
    ASSUME IInv, NEW p \in Paths, NEW what, what \in {WalkFailure(p), "TypeError"}, Fails(what)
    PROVE  Structure' /\ Step /\ Sound'
<1>1. Structure' /\ SameNames /\ Contents' = Contents
  BY NothingChanged DEF Fails, IInv
<1>2. Sound'
  BY Failures DEF Sound, Fails, IInv, Tallied
<1> QED BY <1>1, <1>2 DEF Step

\* file_create, whatever it finds.
LEMMA CreateSteps ==
    ASSUME IInv, NEW path \in NamedPaths, NEW type \in {"reg", "dir"}, file_create(path, type)
    PROVE  Structure' /\ Step /\ Sound'
<1>1. path \in Paths
  BY DEF NamedPaths
<1>2. CASE Walk[path] < -1
  BY <1>1, <1>2, FailsSteps DEF file_create
<1>3. CASE ~(Walk[path] < -1)
  <2>1. PICK p, name : p = Walk[Front(path)] /\ name = LastName(path)
    OBVIOUS
  <2>2. /\ Walk[path] = -1 /\ p # -1
        /\ \E i \in allocate_inode : CreateIn(p, name, type, i)
    BY <1>3, <2>1 DEF file_create
  <2>3. PICK i \in allocate_inode : CreateIn(p, name, type, i)
    BY <2>2
  <2>4. i \in Inums \ MappedInodes
    BY DEF allocate_inode, FreeInodes, MappedInodes
  <2>5. p \in Directories /\ name \in Names /\ \A e \in EntriesIn(InMemory(p)) : e[1] # name
    BY <2>1, <2>2, WalkSays DEF IInv
  <2>6. CASE type = "reg"
    <3>1. Structure' /\ AddsFile(p, name, i) /\ Contents' = Contents /\ failed' = failed
      BY <2>3, <2>4, <2>5, <2>6, CreatesFile DEF IInv
    <3>2. Binds(path, i)
      BY <2>1, <2>2, <3>1 DEF Binds
    <3> QED BY <3>1, <3>2 DEF Step, IInv, Sound
  <2>7. CASE type = "dir"
    <3>1. Structure' /\ AddsDir(p, name, i) /\ Contents' = Contents /\ failed' = failed
      BY <2>3, <2>4, <2>5, <2>7, CreatesDir DEF IInv
    <3>2. Binds(path, i)
      BY <2>1, <2>2, <3>1 DEF Binds
    <3> QED BY <3>1, <3>2 DEF Step, IInv, Sound
  <2> QED BY <2>6, <2>7
<1> QED BY <1>2, <1>3

\* file_link, whatever it finds.
LEMMA LinkSteps ==
    ASSUME IInv, NEW src \in NamedPaths, NEW dst \in NamedPaths, file_link(src, dst)
    PROVE  Structure' /\ Step /\ Sound'
<1>1. src \in Paths /\ dst \in Paths
  BY DEF NamedPaths
<1>2. CASE WalkFailure(src) # ""
  BY <1>1, <1>2, FailsSteps DEF file_link
<1>3. CASE WalkFailure(src) = "" /\ Walk[dst] < -1
  BY <1>1, <1>3, FailsSteps DEF file_link
<1>4. CASE WalkFailure(src) = "" /\ ~(Walk[dst] < -1) /\ Walk[Front(dst)] = -1
  BY <1>1, <1>4, FailsSteps DEF file_link
<1>5. CASE WalkFailure(src) = "" /\ ~(Walk[dst] < -1) /\ Walk[Front(dst)] # -1
  <2>1. PICK i, p, name, n : i = Walk[src] /\ p = Walk[Front(dst)] /\ name = LastName(dst) /\ n = Len(disk)
    OBVIOUS
  <2>2. /\ IsRegular(src) /\ Walk[dst] = -1 /\ p # -1
        /\ \E new \in AddDirEntry(Inode(p), name, i) :
              Commit(<<new.block, WithEntry(Inode(p), new, n), Referenced(Inode(i))>>,
                     [inode_map EXCEPT ![p] = n + 1, ![i] = n + 2], <<p>>)
    BY <1>5, <2>1 DEF file_link
  <2>3. i \in MappedInodes /\ InMemory(i).type = "reg" /\ Inode(i) = InMemory(i)
    BY <2>1, <2>2, RegularPath DEF IInv, Tallied
  <2>4. p \in Directories /\ name \in Names /\ \A e \in EntriesIn(InMemory(p)) : e[1] # name
    BY <2>1, <2>2, WalkSays DEF IInv
  <2>5. PICK node, was : node = InMemory(p) /\ was = InMemory(i) /\ node = Inode(p) /\ was = Inode(i)
    BY <2>3, Reads DEF IInv
  <2>6. PICK new \in AddDirEntry(node, name, i) :
              Commit(<<new.block, WithEntry(node, new, n), Referenced(was)>>,
                     [inode_map EXCEPT ![p] = n + 1, ![i] = n + 2], <<p>>)
    BY <2>2, <2>5
  <2>7. \A e \in EntriesIn(node) : e[1] # name
    BY <2>4, <2>5
  <2>8. Structure' /\ AddsName(p, name, i) /\ Contents' = Contents /\ failed' = failed
    BY <2>1, <2>3, <2>4, <2>5, <2>6, <2>7, LinksName DEF IInv
  <2>9. Binds(dst, i)
    <3>1. i \notin Directories
      BY <2>3 DEF Directories
    <3> QED BY <2>1, <2>2, <2>8, <3>1 DEF Binds
  <2> QED BY <2>8, <2>9 DEF Step, IInv, Sound
<1> QED BY <1>2, <1>3, <1>4, <1>5

\* file_write, whatever it finds.
LEMMA WriteSteps ==
    ASSUME IInv, NEW path \in NamedPaths, NEW offset \in PtrIndex, NEW num_blks \in 0 .. NUM_INODE_PTRS,
           file_write(path, offset, num_blks)
    PROVE  Structure' /\ Step /\ Sound'
<1>1. path \in Paths
  BY DEF NamedPaths
<1>2. CASE WalkFailure(path) # ""
  BY <1>1, <1>2, FailsSteps DEF file_write
<1>3. CASE WalkFailure(path) = ""
  <2>1. PICK i, n, last : i = Walk[path] /\ n = Len(disk) /\ last = Lesser(NUM_INODE_PTRS, offset + num_blks)
    OBVIOUS
  <2>2. IsRegular(path)
    BY <1>3 DEF file_write
  <2>3. i \in MappedInodes /\ InMemory(i).type = "reg" /\ Inode(i) = InMemory(i)
    BY <2>1, <2>2, RegularPath DEF IInv, Tallied
  <2>4. PICK was, next : was = Inode(i) /\ next = Rewritten(was, offset, last, n)
    OBVIOUS
  <2>5. Commit([k \in 1 .. last - offset |-> DataBlock] \o <<next>>,
               [inode_map EXCEPT ![i] = n + last - offset], <<i>>)
    BY <1>3, <2>1, <2>4 DEF file_write, Rewritten
  <2>6. /\ Structure' /\ SameNames /\ failed' = failed
        /\ Contents' \in {Contents, Contents \cup {i}}
    BY <2>1, <2>3, <2>4, <2>5, WritesFile DEF IInv
  <2>7. Contents' = Contents \/ Fills(path)
    <3>1. i \notin Directories
      BY <2>3 DEF Directories
    <3> QED BY <2>1, <2>3, <2>6, <3>1 DEF Fills
  <2> QED BY <2>6, <2>7 DEF Step, IInv, Sound
<1> QED BY <1>2, <1>3

\* file_delete, whatever it finds.
LEMMA DeleteSteps ==
    ASSUME IInv, NEW path \in NamedPaths, file_delete(path)
    PROVE  Structure' /\ Step /\ Sound'
<1>1. path \in Paths
  BY DEF NamedPaths
<1>2. CASE WalkFailure(path) # ""
  BY <1>1, <1>2, FailsSteps DEF file_delete
<1>3. CASE WalkFailure(path) = ""
  <2>1. PICK i, p, name, n : i = Walk[path] /\ p = Walk[Front(path)] /\ name = LastName(path) /\ n = Len(disk)
    OBVIOUS
  <2>2. IsRegular(path)
    BY <1>3 DEF file_delete
  <2>3. /\ i \in MappedInodes /\ InMemory(i).type = "reg" /\ Inode(i) = InMemory(i)
        /\ p \in Directories /\ Inode(p) = InMemory(p)
        /\ name \in Names /\ <<name, i>> \in EntriesIn(InMemory(p))
    BY <2>1, <2>2, RegularPath DEF IInv, Tallied
  <2>4. inode_map[i] # -1
    BY <2>3 DEF MappedInodes
  <2>5. PICK node, was : node = InMemory(p) /\ was = InMemory(i) /\ node = Inode(p) /\ was = Inode(i)
    BY <2>3
  <2>6. \E k \in PtrIndex, s \in Slots :
          /\ k < node.size
          /\ At(node.pointers[k]).entries[s][1] = name
          /\ IF LastRef(was)
             THEN Commit(<<SetSlot(At(node.pointers[k]), s, FreeSlot), [node EXCEPT !.pointers[k] = n]>>,
                         [inode_map EXCEPT ![i] = -1, ![p] = n + 1], <<i, p>>)
             ELSE Commit(<<SetSlot(At(node.pointers[k]), s, FreeSlot), [node EXCEPT !.pointers[k] = n],
                           Unreferenced(was)>>,
                         [inode_map EXCEPT ![p] = n + 1, ![i] = n + 2], <<i, p>>)
    BY <1>3, <2>1, <2>4, <2>5 DEF file_delete
  <2>7. PICK k \in PtrIndex, s \in Slots :
          /\ k < node.size
          /\ At(node.pointers[k]).entries[s][1] = name
          /\ IF LastRef(was)
             THEN Commit(<<SetSlot(At(node.pointers[k]), s, FreeSlot), [node EXCEPT !.pointers[k] = n]>>,
                         [inode_map EXCEPT ![i] = -1, ![p] = n + 1], <<i, p>>)
             ELSE Commit(<<SetSlot(At(node.pointers[k]), s, FreeSlot), [node EXCEPT !.pointers[k] = n],
                           Unreferenced(was)>>,
                         [inode_map EXCEPT ![p] = n + 1, ![i] = n + 2], <<i, p>>)
    BY <2>6
  <2>8. <<name, i>> \in EntriesIn(node)
    BY <2>3, <2>5
  <2>9. CASE was.refs = 1
    <3>1. Structure' /\ DropsFile(p, name, i) /\ Contents' = Contents \ {i} /\ failed' = failed
      BY <2>1, <2>3, <2>5, <2>7, <2>8, <2>9, FreesFile DEF IInv, LastRef
    <3>2. Unbinds(path, i)
      BY <2>1, <2>3, <3>1 DEF Unbinds, Directories
    <3> QED BY <3>1, <3>2 DEF Step, IInv, Sound
  <2>10. CASE was.refs # 1
    <3>1. Structure' /\ DropsName(p, name, i) /\ Contents' = Contents /\ failed' = failed
      BY <2>1, <2>3, <2>5, <2>7, <2>8, <2>10, DropsLink DEF IInv, LastRef
    <3>2. Unbinds(path, i)
      BY <2>1, <2>3, <3>1 DEF Unbinds, Directories
    <3> QED BY <3>1, <3>2 DEF Step, IInv, Sound
  <2> QED BY <2>9, <2>10
<1> QED BY <1>2, <1>3

\* Every step keeps the invariant and does to the names what one of the forms says.
LEMMA NextStep == IInv /\ [Next]_vars => IInv' /\ Step
<1> SUFFICES ASSUME IInv, [Next]_vars PROVE IInv' /\ Step
  OBVIOUS
<1>1. Structure' /\ Step /\ Sound'
  <2>1. ASSUME NEW path \in NamedPaths, NEW type \in {"reg", "dir"}, file_create(path, type)
        PROVE  Structure' /\ Step /\ Sound'
    BY <2>1, CreateSteps
  <2>2. ASSUME NEW src \in NamedPaths, NEW dst \in NamedPaths, file_link(src, dst)
        PROVE  Structure' /\ Step /\ Sound'
    BY <2>2, LinkSteps
  <2>3. ASSUME NEW path \in NamedPaths, NEW offset \in PtrIndex, NEW num_blks \in 0 .. NUM_INODE_PTRS,
               file_write(path, offset, num_blks)
        PROVE  Structure' /\ Step /\ Sound'
    BY <2>3, WriteSteps
  <2>4. ASSUME NEW path \in NamedPaths, file_delete(path)
        PROVE  Structure' /\ Step /\ Sound'
    BY <2>4, DeleteSteps
  <2>5. CASE sync
    BY <2>5, Syncs DEF IInv, Sound, Step
  <2>6. CASE UNCHANGED vars
    <3>1. Structure' /\ SameNames /\ Contents' = Contents
      BY <2>6, NothingChanged DEF vars, IInv
    <3> QED BY <2>6, <3>1 DEF vars, IInv, Sound, Step
  <2> QED BY <2>1, <2>2, <2>3, <2>4, <2>5, <2>6 DEF Next
<1>2. Tallied'
  <2>1. Structure /\ Tallied
    BY DEF IInv
  <2> QED BY <1>1, <2>1, AddsFileTallies, AddsDirTallies, AddsNameTallies, DropsFileTallies,
             DropsNameTallies, SameNamesTallies DEF Step, Binds, Unbinds, Fills
<1> QED BY <1>1, <1>2 DEF IInv

-----------------------------------------------------------------------------
\* The root is in the first chunk.
LEMMA RootChunk == inum_to_chunk(ROOT_INODE) = 0 /\ 0 \in Chunks
<1> DEFINE K == NUM_INODES_PER_IMAP_CHUNK
<1>1. K \in Nat \ {0} /\ NUM_IMAP_PTRS_IN_CR \in Nat \ {0}
  BY LfsAssumption
<1>2. 0 = K * 0 + 0 /\ 0 \in 0 .. K - 1
  BY <1>1
<1> HIDE DEF K
<1>3. 0 \div K = 0
  BY <1>1, <1>2, DivModUnique
<1> QED BY <1>1, <1>3 DEF Chunks, K, inum_to_chunk, ROOT_INODE

\* The file system that the constructor makes is in order.
LEMMA InitInv ==
    ASSUME Init, ~mode.use_disk_cr
    PROVE  /\ IInv /\ MappedInodes = {ROOT_INODE} /\ Directories = {ROOT_INODE}
           /\ Bindings = {<<ROOT_INODE, <<".", ROOT_INODE>>>>, <<ROOT_INODE, <<"..", ROOT_INODE>>>>}
<1>1. PICK dots, root, chunk, top :
        /\ dots = NewDirBlock(ROOT_INODE, ROOT_INODE) /\ root = NewDirInode(1)
        /\ chunk = ImapChunk(inode_map, 0) /\ top = CrBlock(cr)
  OBVIOUS
<1>2. /\ disk = <<top, dots, root, chunk>> /\ IsSequence(disk) /\ Len(disk) = 4
      /\ disk[1] = top /\ disk[2] = dots /\ disk[3] = root /\ disk[4] = chunk
  <2>1. disk = <<top, dots, root, chunk>>
    BY <1>1 DEF Init, RootInode
  <2> QED BY <2>1, Tuples
<1>3. Logged = 1 .. 3 /\ At(1) = dots /\ At(2) = root /\ At(3) = chunk
  BY <1>2 DEF Logged, At
<1>4. /\ \A i \in Inums : inode_map[i] = IF i = ROOT_INODE THEN 2 ELSE -1
      /\ \A c \in Chunks : cr[c] = IF c = 0 THEN 3 ELSE -1
      /\ inode_map \in [Inums -> Logged \cup {-1}] /\ cr \in [Chunks -> Logged \cup {-1}]
  <2>1. /\ inode_map = [i \in Inums |-> IF i = ROOT_INODE THEN 2 ELSE -1]
        /\ cr = [c \in Chunks |-> IF c = 0 THEN 3 ELSE -1]
    BY DEF Init
  <2>2. 2 \in Logged /\ 3 \in Logged
    BY <1>3
  <2>3. /\ \A i \in Inums : inode_map[i] = IF i = ROOT_INODE THEN 2 ELSE -1
        /\ \A c \in Chunks : cr[c] = IF c = 0 THEN 3 ELSE -1
    BY <2>1
  <2>4. inode_map \in [Inums -> Logged \cup {-1}]
    BY <2>1, <2>2
  <2>5. cr \in [Chunks -> Logged \cup {-1}]
    BY <2>1, <2>2
  <2> QED BY <2>3, <2>4, <2>5
<1>5. Typed
  <2>1. mode \in Modes
    BY DEF Init
  <2>2. disk[1].block_type = "cp"
    BY <1>1, <1>2 DEF CrBlock
  <2> QED BY <1>2, <1>4, <2>1, <2>2 DEF Typed
<1>6. ROOT_INODE \in Inums /\ ROOT_INODE = 0
  BY Constants DEF ROOT_INODE
<1>7. /\ Fits(root) /\ Distinct(root) /\ root.type = "dir" /\ root.refs = 2
      /\ EntriesIn(root) = {<<".", 0>>, <<"..", 0>>}
  BY <1>1, <1>3, <1>6, DirWithDots
<1>8. MappedInodes = {0} /\ InMemory(0) = root /\ Directories = {0}
  <2>1. MappedInodes = {0}
    <3>1. ASSUME NEW i PROVE i \in MappedInodes <=> i = 0
      <4>1. i \in MappedInodes <=> i \in Inums /\ inode_map[i] # -1
        BY DEF MappedInodes
      <4>2. i \in Inums => (inode_map[i] = -1 <=> i # 0)
        BY <1>4, <1>6
      <4> QED BY <1>6, <4>1, <4>2
    <3> QED BY <3>1
  <2>2. InMemory(0) = root
    BY <1>3, <1>4, <1>6 DEF InMemory
  <2> QED BY <1>7, <2>1, <2>2 DEF Directories
<1>9. NodesOK
  BY <1>7, <1>8 DEF NodesOK
<1>10. \A c \in Chunks : cr[c] # -1 => c = 0 /\ Chunked(c) = chunk
  BY <1>2, <1>4 DEF Chunked
<1>11. Checkpoint
  <2>1. ASSUME NEW c \in Chunks, cr[c] # -1 PROVE Chunked(c).block_type = "imap"
    BY <1>1, <1>10, <2>1 DEF ImapChunk
  <2>2. ASSUME NEW i \in Inums, cr[inum_to_chunk(i)] = -1 PROVE inode_map[i] = -1
    BY <1>4, <2>2, RootChunk
  <2>3. ASSUME NEW i \in Inums, cr[inum_to_chunk(i)] # -1
        PROVE  /\ AddrInChunk(i) = -1 <=> inode_map[i] = -1
               /\ AddrInChunk(i) # -1 =>
                    /\ AddrInChunk(i) \in Logged /\ At(AddrInChunk(i)) \in Nodes
                    /\ SameButRefs(At(AddrInChunk(i)), InMemory(i))
    <3> DEFINE K == NUM_INODES_PER_IMAP_CHUNK
               r == i % K
    <3>1. inum_to_chunk(i) \in Chunks /\ r \in 0 .. K - 1 /\ inum_to_chunk(i) * K + r = i
      BY ChunkOf
    <3>2. inum_to_chunk(i) = 0 /\ Chunked(inum_to_chunk(i)) = chunk
      BY <1>10, <2>3, <3>1
    <3>3. AddrInChunk(i) = chunk.map[r]
      BY <3>2 DEF AddrInChunk
    <3> HIDE DEF r
    <3>4. chunk.map[r] = inode_map[0 * K + r]
      BY <1>1, <3>1 DEF ImapChunk
    <3>5. AddrInChunk(i) = inode_map[i]
      BY <3>1, <3>2, <3>3, <3>4
    <3>6. inode_map[i] # -1 => i = 0 /\ inode_map[i] = 2
      BY <1>4, <1>6
    <3>7. 2 \in Logged /\ At(2) = root /\ root \in Nodes /\ SameButRefs(root, root)
      BY <1>3, <1>7 DEF Fits, SameButRefs
    <3> QED BY <1>8, <3>5, <3>6, <3>7
  <2> QED BY <2>1, <2>2, <2>3 DEF Checkpoint
<1>12. Structure
  BY <1>5, <1>9, <1>11 DEF Structure
<1>13. Bindings = {<<0, <<".", 0>>>>, <<0, <<"..", 0>>>>}
  <2>1. /\ \A d, e : <<d, e>> \in Bindings <=> d = 0 /\ e \in {<<".", 0>>, <<"..", 0>>}
        /\ \A b \in Bindings : b = <<b[1], b[2]>>
    BY <1>7, <1>8, <1>9, BindingsAre
  <2>2. ASSUME NEW b \in Bindings PROVE b \in {<<0, <<".", 0>>>>, <<0, <<"..", 0>>>>}
    <3>1. <<b[1], b[2]>> \in Bindings
      BY <2>1
    <3>2. b[1] = 0 /\ b[2] \in {<<".", 0>>, <<"..", 0>>}
      BY <2>1, <3>1
    <3> QED BY <2>1, <3>2
  <2>3. <<0, <<".", 0>>>> \in Bindings /\ <<0, <<"..", 0>>>> \in Bindings
    BY <2>1
  <2> QED BY <2>2, <2>3
<1>14. LeadingTo(Bindings, 0) = {<<0, ".">>} \cup {<<0, "..">>}
  <2>1. Shaped(Bindings)
    BY <1>12, ShapedBindings
  <2>2. PICK B : B = Bindings
    OBVIOUS
  <2>3. \A name : <<0, name>> \in LeadingTo(B, 0) <=> <<0, <<name, 0>>>> \in B
    BY <2>1, <2>2, IsLeading
  <2>4. <<0, ".">> \in LeadingTo(B, 0) /\ <<0, "..">> \in LeadingTo(B, 0)
    BY <1>13, <2>2, <2>3
  <2>5. ASSUME NEW x \in LeadingTo(B, 0) PROVE x \in {<<0, ".">>} \cup {<<0, "..">>}
    <3>1. PICK b \in B : x = <<b[1], b[2][1]>>
      BY DEF LeadingTo
    <3> QED BY <1>13, <2>2, <3>1
  <2> QED BY <2>2, <2>4, <2>5
<1>15. Links
  <2>1. IsFiniteSet({<<0, ".">>}) /\ Cardinality({<<0, ".">>}) = 1
    BY FS_Singleton
  <2>2. PICK S, x : S = {<<0, ".">>} /\ x = <<0, "..">>
    OBVIOUS
  <2>3. IsFiniteSet(S \cup {x}) /\ Cardinality(S \cup {x}) = Cardinality(S) + 1
    <3>1. x \notin S
      BY <2>2
    <3> QED BY <2>1, <2>2, <3>1, CountOneMore
  <2>4. LeadingTo(Bindings, 0) = S \cup {x}
    BY <1>14, <2>2
  <2>5. IsFiniteSet(LeadingTo(Bindings, 0)) /\ Cardinality(LeadingTo(Bindings, 0)) = 2
    BY <2>1, <2>2, <2>3, <2>4
  <2> QED BY <1>7, <1>8, <2>5 DEF Links
<1>16. Leads /\ Rooted
  BY <1>6, <1>8, <1>13 DEF Leads, Rooted
<1>17. Sound
  BY DEF Init, Sound
<1> QED BY <1>6, <1>8, <1>12, <1>13, <1>15, <1>16, <1>17 DEF IInv, Tallied

\* The invariant holds throughout.
LEMMA Invariance == Spec /\ ~mode.use_disk_cr => []IInv
<1>1. Init /\ ~mode.use_disk_cr => IInv
  BY InitInv
<1>2. IInv /\ [Next]_vars => IInv'
  BY NextStep
<1> QED BY <1>1, <1>2, PTL DEF Spec

-----------------------------------------------------------------------------
\* With the inode map in memory, every pointer of the maps leads to a block of
\* the kind that get_inode_from_inumber and __lookup assert.
THEOREM TypesCorrect == Spec /\ ~mode.use_disk_cr => []TypeOK
<1>1. IInv => TypeOK
  <2> SUFFICES ASSUME IInv PROVE TypeOK
    OBVIOUS
  <2>1. Typed /\ NodesOK /\ Checkpoint /\ Len(disk) \in Nat
    BY Sequence DEF IInv, Structure, Typed
  <2>2. Logged \subseteq Addresses /\ \A a \in Logged : a # -1
    BY <2>1 DEF Logged, Addresses
  <2>3. mode \in Modes /\ cr \in [Chunks -> Addresses \cup {-1}] /\ disk[1].block_type = "cp"
    BY <2>1, <2>2 DEF Typed
  <2>4. ASSUME NEW c \in Chunks, cr[c] # -1 PROVE At(cr[c]).block_type = "imap"
    <3>1. At(cr[c]) = Chunked(c)
      BY <2>4 DEF At, Chunked
    <3> QED BY <2>1, <2>4, <3>1 DEF Checkpoint
  <2>5. ASSUME NEW i \in Inums, inode_map[i] # -1
        PROVE  /\ inode_map[i] \in Addresses
               /\ At(inode_map[i]) \in InodeBlocks
               /\ \A a \in PointedBy(At(inode_map[i])) :
                    At(a).block_type = (IF At(inode_map[i]).type = "dir" THEN "dir" ELSE "data")
    <3>1. inode_map[i] \in Addresses
      BY <2>1, <2>2, <2>5 DEF Typed
    <3>2. PICK node : node = At(inode_map[i])
      OBVIOUS
    <3>3. Fits(node)
      BY <2>1, <2>5, <3>2 DEF NodesOK, MappedInodes, InMemory
    <3>4. node \in InodeBlocks
      BY <2>2, <3>3 DEF Fits, Nodes, InodeBlocks
    <3>5. ASSUME NEW a \in PointedBy(node)
          PROVE  At(a).block_type = (IF node.type = "dir" THEN "dir" ELSE "data")
      <4>1. PICK k \in PtrIndex : a = node.pointers[k] /\ a # -1
        BY DEF PointedBy
      <4>2. CASE node.type = "dir"
        <5>1. At(a) \in DirBlocks
          BY <3>3, <4>1, <4>2 DEF Fits
        <5> QED BY <4>2, <5>1 DEF DirBlocks
      <4>3. CASE node.type = "reg"
        BY <3>3, <4>1, <4>3 DEF Fits
      <4> QED BY <3>3, <4>2, <4>3 DEF Fits, Nodes
    <3> QED BY <3>1, <3>2, <3>4, <3>5
  <2> QED BY <2>3, <2>4, <2>5 DEF TypeOK
<1> QED BY <1>1, Invariance, PTL

\* Reference counts are the numbers of directory entries, after any sequence
\* of file_create, file_link, file_write, file_delete and sync.
THEOREM LinkCountsCorrect == Spec /\ ~mode.use_disk_cr => []LinkCountsMatchEntries
<1>1. IInv => LinkCountsMatchEntries
  <2> SUFFICES ASSUME IInv, NEW i \in MappedInodes
               PROVE  InMemory(i).refs = Cardinality(EntriesOf(i))
    BY DEF LinkCountsMatchEntries
  <2>1. EntriesOf(i) = LeadingTo(Bindings, i)
    BY EntriesOfAre DEF IInv, Structure, MappedInodes
  <2> QED BY <2>1 DEF IInv, Tallied, Links
<1> QED BY <1>1, Invariance, PTL

\* What the checkpoint region on disk leads to when it is up to date.
LEMMA OnDisk ==
    ASSUME Structure, disk[1].map = cr, NEW i \in Inums, cr[inum_to_chunk(i)] # -1
    PROVE  /\ At(0).map = cr /\ AddrOnDisk(i) = AddrInChunk(i)
           /\ AddrOnDisk(i) = -1 <=> i \notin MappedInodes
           /\ i \in MappedInodes =>
                At(AddrOnDisk(i)) \in Nodes /\ SameButRefs(At(AddrOnDisk(i)), InMemory(i))
<1>1. At(0) = disk[1]
  BY DEF At
<1>2. At(cr[inum_to_chunk(i)]) = Chunked(inum_to_chunk(i))
  BY DEF At, Chunked
<1>3. AddrOnDisk(i) = AddrInChunk(i)
  BY <1>1, <1>2 DEF AddrOnDisk, AddrInChunk
<1> QED BY <1>1, <1>3 DEF Structure, Checkpoint, MappedInodes

\* Whenever the checkpoint region on disk is that in memory, it leads to the
\* file system in memory (update_imap, cr_sync).
THEOREM CheckpointCorrect == Spec /\ ~mode.use_disk_cr => []CheckpointIsCurrent
<1>1. IInv => CheckpointIsCurrent
  <2> SUFFICES ASSUME IInv, disk[1].map = cr, NEW i \in Inums
               PROVE  IF cr[inum_to_chunk(i)] = -1 THEN inode_map[i] = -1
                      ELSE IF inode_map[i] = -1 THEN AddrOnDisk(i) = -1
                      ELSE /\ AddrOnDisk(i) # -1
                           /\ At(AddrOnDisk(i)) = [InMemory(i) EXCEPT !.refs = At(AddrOnDisk(i)).refs]
    BY DEF CheckpointIsCurrent
  <2>1. CASE cr[inum_to_chunk(i)] = -1
    BY <2>1 DEF IInv, Structure, Checkpoint
  <2>2. CASE cr[inum_to_chunk(i)] # -1 /\ inode_map[i] = -1
    <3>1. i \notin MappedInodes
      BY <2>2 DEF MappedInodes
    <3> QED BY <2>2, <3>1, OnDisk DEF IInv
  <2>3. CASE cr[inum_to_chunk(i)] # -1 /\ inode_map[i] # -1
    <3>1. i \in MappedInodes
      BY <2>3 DEF MappedInodes
    <3>2. PICK one, two : one = At(AddrOnDisk(i)) /\ two = InMemory(i)
      OBVIOUS
    <3>3. AddrOnDisk(i) # -1 /\ one \in Nodes /\ SameButRefs(one, two)
      BY <2>3, <3>1, <3>2, OnDisk DEF IInv
    <3>4. two \in Nodes
      BY <3>1, <3>2 DEF IInv, Structure, NodesOK, Fits
    <3>5. one = [two EXCEPT !.refs = one.refs]
      BY <3>3, <3>4 DEF Nodes, SameButRefs
    <3> QED BY <2>3, <3>2, <3>3, <3>5
  <2> QED BY <2>1, <2>2, <2>3
<1> QED BY <1>1, Invariance, PTL

\* A name found in a directory leads to an inode: with the inode map in memory
\* get_inode_from_inumber's assertion never fails (NamesLeadToInodes).  Through
\* the checkpoint region on disk it may, after a file_link.
THEOREM NamesLead == Spec /\ ~mode.use_disk_cr => []NamesLeadToInodes
<1>1. IInv => NamesLeadToInodes
  BY DEF IInv, Sound, NamesLeadToInodes
<1> QED BY <1>1, Invariance, PTL

-----------------------------------------------------------------------------
\* The path names and the inode numbers they lead to.
Tree == [p \in Paths |-> IF Walk[p] < 0 THEN -1 ELSE Walk[p]]

\* A path leads where the name it ends in leads, in the directory above.
IsTree(T, B) ==
    /\ T[<<>>] = ROOT_INODE
    /\ \A p \in Paths : T[p] \in Inums \cup {-1}
    /\ \A p \in NamedPaths, i \in Inums : T[p] = i <=> <<T[Front(p)], <<LastName(p), i>>>> \in B

\* The walk is one.
TreeFacts ==
    Structure /\ Tallied =>
        IsTree(Tree, Bindings) /\ \A p \in Paths : Tree[p] \in MappedInodes \cup {-1}

\* The root is a path.
LEMMA RootPath == <<>> \in Paths /\ NamedPaths \subseteq Paths
<1>1. <<>> \in [1 .. 0 -> Names] /\ 0 \in 0 .. MaxDepth
  BY LfsAssumption
<1> QED BY <1>1 DEF Paths, NamedPaths

\* It holds.
LEMMA TreeFactsHold == TreeFacts /\ TreeFacts'
<1>1. TreeFacts
  <2> SUFFICES ASSUME Structure, Tallied
               PROVE  IsTree(Tree, Bindings) /\ \A p \in Paths : Tree[p] \in MappedInodes \cup {-1}
    BY DEF TreeFacts
  <2>1. -1 \notin Inums /\ NotDir = -3 /\ MappedInodes \subseteq Inums /\ \A i \in Inums : ~(i < 0)
    BY DEF NotDir, MappedInodes, Inums
  <2>2. ASSUME NEW p \in Paths
        PROVE  /\ Tree[p] \in MappedInodes \cup {-1}
               /\ \A i \in Inums : Tree[p] = i <=> Walk[p] = i
    <3>1. Walk[p] \in MappedInodes \cup {-1, NotDir}
      BY WalkMapped DEF Tallied
    <3>2. Tree[p] = IF Walk[p] < 0 THEN -1 ELSE Walk[p]
      BY DEF Tree
    <3> QED BY <2>1, <3>1, <3>2
  <2>3. Tree[<<>>] = ROOT_INODE
    <3>1. Walk[<<>>] = ROOT_INODE
      BY WalkStep, RootPath
    <3> QED BY <2>2, <3>1, RootPath, Constants
  <2>4. ASSUME NEW p \in NamedPaths, NEW i \in Inums
        PROVE  Tree[p] = i <=> <<Tree[Front(p)], <<LastName(p), i>>>> \in Bindings
    <3>1. p \in Paths /\ Front(p) \in Paths
      BY PathAbove DEF NamedPaths
    <3>2. PICK up, at : up = Walk[Front(p)] /\ at = Walk[p]
      OBVIOUS
    <3>3. /\ at \in MappedInodes \cup {-1, NotDir}
          /\ at \in Inums => up \in Directories /\ <<LastName(p), at>> \in EntriesIn(InMemory(up))
          /\ at = -1 /\ up # -1 =>
               up \in Directories /\ \A e \in EntriesIn(InMemory(up)) : e[1] # LastName(p)
          /\ at = NotDir => up \notin Directories
      BY <3>1, <3>2, WalkSays, WalkMapped DEF Tallied
    <3>4. \A d, e : <<d, e>> \in Bindings <=> d \in Directories /\ e \in EntriesIn(InMemory(d))
      BY BindingsAre DEF Structure
    <3>5. Directories \subseteq Inums
      BY DEF Directories, MappedInodes
    <3>6. ASSUME Tree[p] = i PROVE <<Tree[Front(p)], <<LastName(p), i>>>> \in Bindings
      <4>1. at = i /\ up \in Directories
        BY <2>2, <3>1, <3>2, <3>3, <3>6
      <4>2. Tree[Front(p)] = up
        BY <2>2, <3>1, <3>2, <3>5, <4>1
      <4> QED BY <3>3, <3>4, <4>1, <4>2
    <3>7. ASSUME <<Tree[Front(p)], <<LastName(p), i>>>> \in Bindings PROVE Tree[p] = i
      <4>1. PICK d, e : d = Tree[Front(p)] /\ e = <<LastName(p), i>>
        OBVIOUS
      <4>2. d \in Directories /\ e \in EntriesIn(InMemory(d)) /\ e[1] = LastName(p) /\ e[2] = i
        BY <3>4, <3>7, <4>1
      <4>3. up = d
        BY <2>2, <3>1, <3>2, <3>5, <4>1, <4>2
      <4>4. at \in Inums
        <5>1. at # NotDir /\ up # -1
          BY <2>1, <3>3, <3>5, <4>2, <4>3
        <5>2. at # -1
          BY <3>3, <4>2, <4>3, <5>1
        <5> QED BY <2>1, <3>3, <5>1, <5>2
      <4>5. PICK f : f = <<LastName(p), at>>
        OBVIOUS
      <4>6. f \in EntriesIn(InMemory(d)) /\ f[1] = LastName(p) /\ f[2] = at
        BY <3>3, <4>3, <4>4, <4>5
      <4>7. PICK node : node = InMemory(d)
        OBVIOUS
      <4>8. Fits(node) /\ node.type = "dir" /\ Distinct(node)
        BY <4>2, <4>7 DEF Structure, NodesOK, Directories
      <4>9. e = f
        BY <4>2, <4>6, <4>7, <4>8, BoundOnce
      <4>10. Walk[p] = i
        BY <3>2, <4>2, <4>6, <4>9
      <4> QED BY <2>2, <3>1, <4>10
    <3> QED BY <3>6, <3>7
  <2>5. \A p \in Paths : Tree[p] \in Inums \cup {-1}
    BY <2>1, <2>2
  <2> QED BY <2>2, <2>3, <2>4, <2>5 DEF IsTree
<1> QED BY <1>1, PTL

\* There is one tree to a set of bindings.
LEMMA OneTree ==
    ASSUME NEW T, NEW U, NEW B, IsTree(T, B), IsTree(U, B)
    PROVE  \A p \in Paths : T[p] = U[p]
<1> DEFINE P == {n \in Nat : \A p \in Paths : Len(p) = n => T[p] = U[p]}
<1>1. 0 \in P
  <2>1. ASSUME NEW p \in Paths, Len(p) = 0 PROVE T[p] = U[p]
    <3>1. p = <<>>
      BY <2>1, PathIsSeq, EmptySeq
    <3> QED BY <3>1 DEF IsTree
  <2> QED BY <2>1
<1>2. ASSUME NEW n \in Nat, n \in P PROVE n + 1 \in P
  <2>1. ASSUME NEW p \in Paths, Len(p) = n + 1 PROVE T[p] = U[p]
    <3>1. p \in NamedPaths /\ p # <<>>
      BY <2>1, PathIsSeq, EmptySeq DEF NamedPaths
    <3>2. Front(p) \in Paths /\ Len(Front(p)) = n
      BY <2>1, <3>1, PathAbove
    <3>3. T[Front(p)] = U[Front(p)]
      BY <1>2, <3>2
    <3>4. \A i \in Inums : T[p] = i <=> U[p] = i
      BY <3>1, <3>3 DEF IsTree
    <3>5. T[p] \in Inums \cup {-1} /\ U[p] \in Inums \cup {-1}
      BY DEF IsTree
    <3> QED BY <3>4, <3>5
  <2> QED BY <2>1
<1>3. Nat \subseteq P
  <2> HIDE DEF P
  <2> QED BY <1>1, <1>2, SetInduction
<1> QED BY <1>3, PathIsSeq

-----------------------------------------------------------------------------
\* A directory has one name.
OneName ==
    \A i, d, e \in Directories, x, y \in Names :
        <<d, <<x, i>>>> \in Bindings /\ <<e, <<y, i>>>> \in Bindings => d = e /\ x = y

\* The root has none.
RootNameless == \A d \in Directories, x \in Names : <<d, <<x, ROOT_INODE>>>> \notin Bindings

\* The dots lead to directories.
DotsUpward ==
    \A d \in Directories, x \in Dots, i \in Inums : <<d, <<x, i>>>> \in Bindings => i \in Directories

\* There is a path to every name.
Reached ==
    \A d \in Directories, x \in Names, i \in Inums : <<d, <<x, i>>>> \in Bindings =>
        \E p \in NamedPaths : Tree[Front(p)] = d /\ LastName(p) = x

\* The directories are a tree, and its root is the root.
Treelike == OneName /\ RootNameless /\ DotsUpward /\ Reached

\* In a tree there is one path to a directory.
LEMMA OnePath ==
    ASSUME Structure, Tallied, Treelike
    PROVE  \A p, q \in Paths : Tree[p] \in Directories /\ Tree[p] = Tree[q] => p = q
<1>1. IsTree(Tree, Bindings)
  BY TreeFactsHold DEF TreeFacts
<1>2. /\ Directories \subseteq Inums
      /\ \A d, e : <<d, e>> \in Bindings => d \in Directories
  BY BindingsAre DEF Directories, MappedInodes, Structure
<1> DEFINE P == {n \in Nat : \A p, q \in Paths :
                    Len(p) = n /\ Tree[p] \in Directories /\ Tree[p] = Tree[q] => p = q}
<1>3. ASSUME NEW p \in NamedPaths, Tree[p] \in Directories
      PROVE  /\ Tree[Front(p)] \in Directories /\ LastName(p) \in Names
             /\ <<Tree[Front(p)], <<LastName(p), Tree[p]>>>> \in Bindings
             /\ Tree[p] # ROOT_INODE
  <2>1. Tree[p] \in Inums
    BY <1>2, <1>3
  <2>2. <<Tree[Front(p)], <<LastName(p), Tree[p]>>>> \in Bindings
    BY <1>1, <2>1 DEF IsTree
  <2>3. LastName(p) \in Names
    BY PathAbove DEF NamedPaths
  <2>4. Tree[p] # ROOT_INODE
    BY <1>2, <2>2, <2>3 DEF Treelike, RootNameless
  <2> QED BY <1>2, <2>2, <2>3, <2>4
<1>4. 0 \in P
  <2>1. ASSUME NEW p \in Paths, NEW q \in Paths, Len(p) = 0, Tree[p] \in Directories, Tree[p] = Tree[q]
        PROVE  p = q
    <3>1. p = <<>> /\ Tree[p] = ROOT_INODE
      BY <1>1, <2>1, PathIsSeq, EmptySeq DEF IsTree
    <3>2. q \notin NamedPaths
      BY <1>3, <2>1, <3>1
    <3> QED BY <3>1, <3>2 DEF NamedPaths
  <2> QED BY <2>1
<1>5. ASSUME NEW n \in Nat, n \in P PROVE n + 1 \in P
  <2>1. ASSUME NEW p \in Paths, NEW q \in Paths, Len(p) = n + 1, Tree[p] \in Directories, Tree[p] = Tree[q]
        PROVE  p = q
    <3>1. p \in NamedPaths
      BY <2>1, PathIsSeq, EmptySeq DEF NamedPaths
    <3>2. q \in NamedPaths
      BY <1>1, <1>3, <2>1, <3>1 DEF IsTree, NamedPaths
    <3>3. /\ Front(p) \in Paths /\ Front(q) \in Paths /\ Len(Front(p)) = n
          /\ p = Append(Front(p), LastName(p)) /\ q = Append(Front(q), LastName(q))
      BY <2>1, <3>1, <3>2, PathAbove DEF NamedPaths
    <3>4. Tree[Front(p)] = Tree[Front(q)] /\ LastName(p) = LastName(q) /\ Tree[Front(p)] \in Directories
      <4>1. PICK i, d, e, x, y : /\ i = Tree[p] /\ d = Tree[Front(p)] /\ e = Tree[Front(q)]
                                 /\ x = LastName(p) /\ y = LastName(q)
        OBVIOUS
      <4>2. /\ i \in Directories /\ d \in Directories /\ e \in Directories /\ x \in Names /\ y \in Names
            /\ <<d, <<x, i>>>> \in Bindings /\ <<e, <<y, i>>>> \in Bindings
        BY <1>3, <2>1, <3>1, <3>2, <4>1
      <4> QED BY <4>1, <4>2 DEF Treelike, OneName
    <3>5. Front(p) = Front(q)
      BY <1>5, <3>3, <3>4
    <3> QED BY <3>3, <3>4, <3>5
  <2> QED BY <2>1
<1>6. Nat \subseteq P
  <2> HIDE DEF P
  <2> QED BY <1>4, <1>5, SetInduction
<1>7. \A p \in Paths : Len(p) \in P
  <2> HIDE DEF P
  <2> QED BY <1>6, PathIsSeq
<1> QED BY <1>7

\* What the name of p in the directory d is bound to becomes v; other names stay,
\* and v, if it is a directory, is a new one without names.
Rebinding(p, d, v) ==
    /\ Tree[Front(p)] = d /\ d \in Directories /\ Tree[p] \notin Directories
    /\ v \in Inums \cup {-1} /\ v \notin Directories
    /\ Directories \subseteq Directories' /\ Directories' \subseteq Directories \cup {v}
    /\ v \in Directories' => v \notin MappedInodes
    /\ \A e \in Directories', x \in Names, j \in Inums :
          <<e, <<x, j>>>> \in Bindings' <=> IF e = d /\ x = LastName(p) THEN j = v
                                           ELSE <<e, <<x, j>>>> \in Bindings

\* The tree changes at that path, and nowhere else.
LEMMA TreeRebound ==
    ASSUME Structure, Tallied, Treelike, Structure', Tallied',
           NEW p \in NamedPaths, NEW d, NEW v, Rebinding(p, d, v)
    PROVE  Tree' = [Tree EXCEPT ![p] = v]
<1> DEFINE U == [Tree EXCEPT ![p] = v]
<1>1. /\ IsTree(Tree, Bindings) /\ IsTree(Tree', Bindings')
      /\ \A q \in Paths : Tree[q] \in MappedInodes \cup {-1}
      /\ Tree = [q \in Paths |-> Tree[q]] /\ Tree' = [q \in Paths |-> Tree'[q]]
  BY TreeFactsHold DEF TreeFacts, IsTree, Tree
<1>2. /\ \A e, f : <<e, f>> \in Bindings => e \in Directories
      /\ \A e, f : <<e, f>> \in Bindings' => e \in Directories'
      /\ -1 \notin Inums /\ MappedInodes \subseteq Inums /\ Directories \subseteq MappedInodes
  BY BindingsAre, BindingsAreAfter, Constants DEF Directories, MappedInodes, Structure
<1>3. \A q \in Paths : U[q] = IF q = p THEN v ELSE Tree[q]
  BY <1>1, RootPath
<1>4. \A q \in NamedPaths : /\ q \in Paths /\ Front(q) \in Paths /\ LastName(q) \in Names /\ Front(q) # q
                            /\ q = Append(Front(q), LastName(q))
  <2>1. ASSUME NEW q \in NamedPaths
        PROVE  /\ q \in Paths /\ Front(q) \in Paths /\ LastName(q) \in Names /\ Front(q) # q
               /\ q = Append(Front(q), LastName(q))
    BY PathAbove DEF NamedPaths
  <2> QED BY <2>1
<1>5. IsTree(U, Bindings')
  <2> HIDE DEF U
  <2>1. U[<<>>] = ROOT_INODE
    BY <1>1, <1>3, RootPath DEF IsTree, NamedPaths
  <2>2. \A q \in Paths : U[q] \in Inums \cup {-1}
    BY <1>1, <1>3 DEF IsTree, Rebinding
  <2>3. ASSUME NEW q \in NamedPaths, NEW i \in Inums
        PROVE  U[q] = i <=> <<U[Front(q)], <<LastName(q), i>>>> \in Bindings'
    <3>1. PICK e, x : e = Tree[Front(q)] /\ x = LastName(q)
      OBVIOUS
    <3>2. x \in Names /\ (Tree[q] = i <=> <<e, <<x, i>>>> \in Bindings)
      BY <1>1, <1>4, <3>1 DEF IsTree
    <3>3. CASE q = p
      <4>1. U[q] = v /\ U[Front(q)] = d
        BY <1>3, <1>4, <3>3 DEF Rebinding
      <4>2. <<d, <<x, i>>>> \in Bindings' <=> i = v
        BY <3>1, <3>2, <3>3 DEF Rebinding
      <4> QED BY <3>1, <4>1, <4>2
    <3>4. CASE q # p /\ Front(q) = p
      <4>1. U[q] # i
        <5>1. e \notin Directories
          BY <3>1, <3>4 DEF Rebinding
        <5> QED BY <1>2, <1>3, <1>4, <3>2, <3>4, <5>1
      <4>2. U[Front(q)] = v
        BY <1>3, <1>4, <3>4
      <4>3. <<v, <<x, i>>>> \notin Bindings'
        <5>1. v # d /\ v \notin Directories
          BY DEF Rebinding
        <5>2. CASE v \notin Directories'
          BY <1>2, <5>2
        <5>3. CASE v \in Directories'
          <6>1. <<v, <<x, i>>>> \notin Bindings
            BY <1>2, <5>1
          <6> QED BY <3>2, <5>1, <5>3, <6>1 DEF Rebinding
        <5> QED BY <5>2, <5>3
      <4> QED BY <3>1, <4>1, <4>2, <4>3
    <3>5. CASE q # p /\ Front(q) # p
      <4>1. U[q] = Tree[q] /\ U[Front(q)] = e
        BY <1>3, <1>4, <3>1, <3>5
      <4>2. CASE e \in Directories
        <5>1. ~(e = d /\ x = LastName(p))
          <6> SUFFICES ASSUME e = d, x = LastName(p) PROVE FALSE
            OBVIOUS
          <6>1. Tree[Front(q)] \in Directories /\ Tree[Front(q)] = Tree[Front(p)]
            BY <3>1, <4>2 DEF Rebinding
          <6>2. Front(q) = Front(p)
            BY <1>4, <6>1, OnePath
          <6> QED BY <1>4, <3>1, <3>5, <6>2
        <5>2. e \in Directories'
          BY <4>2 DEF Rebinding
        <5>3. <<e, <<x, i>>>> \in Bindings' <=> <<e, <<x, i>>>> \in Bindings
          BY <3>2, <5>1, <5>2 DEF Rebinding
        <5> QED BY <3>1, <3>2, <4>1, <5>3
      <4>3. CASE e \notin Directories
        <5>1. e \in MappedInodes \cup {-1}
          BY <1>1, <1>4, <3>1
        <5>2. e \notin Directories'
          <6>1. e = v => e \notin Directories' \/ e \notin MappedInodes
            BY DEF Rebinding
          <6>2. -1 \notin Directories'
            BY Constants DEF Directories, MappedInodes
          <6> QED BY <4>3, <5>1, <6>1, <6>2 DEF Rebinding
        <5> QED BY <1>2, <3>1, <3>2, <4>1, <4>3, <5>2
      <4> QED BY <4>2, <4>3
    <3> QED BY <3>3, <3>4, <3>5
  <2> QED BY <2>1, <2>2, <2>3 DEF IsTree
<1>6. \A q \in Paths : Tree'[q] = U[q]
  <2> HIDE DEF U
  <2>1. PICK T, B : T = Tree' /\ B = Bindings'
    OBVIOUS
  <2>2. IsTree(T, B) /\ IsTree(U, B)
    BY <1>1, <1>5, <2>1
  <2> QED BY <2>1, <2>2, OneTree
<1>7. U = [q \in Paths |-> U[q]]
  BY <1>1
<1> HIDE DEF U
<1>8. Tree' = U
  BY <1>1, <1>6, <1>7
<1> QED BY <1>8 DEF U

\* So the directories stay a tree when, of the dots, new ones lead to directories.
LEMMA TreelikeKept ==
    ASSUME Structure, Tallied, Treelike, Structure', Tallied',
           NEW p \in NamedPaths, NEW d, NEW v, Rebinding(p, d, v),
           \A e \in Directories', x \in Dots, j \in Inums :
              <<e, <<x, j>>>> \in Bindings' => <<e, <<x, j>>>> \in Bindings \/ j \in Directories'
    PROVE  Treelike'
<1>1. PICK B, C, D, E, M : /\ B = Bindings /\ C = Bindings' /\ D = Directories /\ E = Directories'
                           /\ M = MappedInodes
  OBVIOUS
<1>2. /\ \A e, f : <<e, f>> \in B => e \in D
      /\ \A e, x, j : <<e, <<x, j>>>> \in B => j \in M
      /\ E \subseteq Inums
  <2>1. \A e, f : <<e, f>> \in B => e \in D
    BY <1>1, BindingsAre DEF Structure
  <2>2. ASSUME NEW e, NEW x, NEW j, <<e, <<x, j>>>> \in B PROVE j \in M
    <3>1. PICK b : b = <<e, <<x, j>>>>
      OBVIOUS
    <3>2. b \in Bindings /\ b[2][2] = j
      BY <1>1, <2>2, <3>1
    <3> QED BY <1>1, <3>2 DEF Tallied, Leads
  <2> QED BY <1>1, <2>1, <2>2 DEF Directories, MappedInodes
<1>3. /\ d \in D /\ Tree[Front(p)] = d /\ Tree[p] \notin D /\ v \notin D /\ D \subseteq E
      /\ \A i \in E : i \in M => i \in D
      /\ \A e \in E, x \in Names, j \in Inums :
            <<e, <<x, j>>>> \in C <=> IF e = d /\ x = LastName(p) THEN j = v
                                      ELSE <<e, <<x, j>>>> \in B
      /\ v \in E => v \notin M
  BY <1>1 DEF Rebinding
<1>4. ASSUME NEW i \in E, NEW e \in E, NEW f \in E, NEW x \in Names, NEW y \in Names,
             <<e, <<x, i>>>> \in C, <<f, <<y, i>>>> \in C
      PROVE  e = f /\ x = y
  <2>1. i \in Inums
    BY <1>2
  <2>2. CASE <<e, <<x, i>>>> \in B /\ <<f, <<y, i>>>> \in B
    <3>1. e \in D /\ f \in D /\ i \in D
      BY <1>2, <1>3, <2>2
    <3> QED BY <1>1, <2>2, <3>1 DEF Treelike, OneName
  <2>3. CASE <<e, <<x, i>>>> \notin B
    <3>1. e = d /\ x = LastName(p) /\ i = v
      BY <1>3, <1>4, <2>1, <2>3
    <3>2. <<f, <<y, i>>>> \notin B
      BY <1>2, <1>3, <3>1
    <3> QED BY <1>3, <1>4, <2>1, <3>1, <3>2
  <2>4. CASE <<f, <<y, i>>>> \notin B
    <3>1. f = d /\ y = LastName(p) /\ i = v
      BY <1>3, <1>4, <2>1, <2>4
    <3>2. <<e, <<x, i>>>> \notin B
      BY <1>2, <1>3, <3>1
    <3> QED BY <1>3, <1>4, <2>1, <3>1, <3>2
  <2> QED BY <2>2, <2>3, <2>4
<1>5. ASSUME NEW e \in E, NEW x \in Names PROVE <<e, <<x, ROOT_INODE>>>> \notin C
  <2>1. ROOT_INODE \in Inums /\ v # ROOT_INODE
    BY <1>1, <1>3, Constants DEF Tallied, Rooted
  <2>2. <<e, <<x, ROOT_INODE>>>> \notin B
    BY <1>1, <1>2 DEF Treelike, RootNameless
  <2> QED BY <1>3, <2>1, <2>2
<1>6. ASSUME NEW e \in E, NEW x \in Dots, NEW j \in Inums, <<e, <<x, j>>>> \in C PROVE j \in E
  <2>1. <<e, <<x, j>>>> \in B => j \in D
    BY <1>1, <1>2 DEF Treelike, DotsUpward
  <2> QED BY <1>1, <1>3, <1>6, <2>1
<1>7. ASSUME NEW e \in E, NEW x \in Names, NEW j \in Inums, <<e, <<x, j>>>> \in C
      PROVE  \E q \in NamedPaths : Tree'[Front(q)] = e /\ LastName(q) = x
  <2>1. Tree' = [Tree EXCEPT ![p] = v] /\ \A q \in Paths : q # p => Tree'[q] = Tree[q]
    <3>1. Tree' = [Tree EXCEPT ![p] = v]
      BY TreeRebound
    <3> QED BY <3>1 DEF Tree
  <2>2. \A q \in NamedPaths : Front(q) \in Paths /\ Front(q) # q
    <3>1. ASSUME NEW q \in NamedPaths PROVE Front(q) \in Paths /\ Front(q) # q
      BY PathAbove DEF NamedPaths
    <3> QED BY <3>1
  <2>3. CASE e = d /\ x = LastName(p)
    BY <1>3, <2>1, <2>2, <2>3
  <2>4. CASE ~(e = d /\ x = LastName(p))
    <3>1. <<e, <<x, j>>>> \in B /\ e \in D
      BY <1>2, <1>3, <1>7, <2>4
    <3>2. PICK q \in NamedPaths : Tree[Front(q)] = e /\ LastName(q) = x
      BY <1>1, <3>1 DEF Treelike, Reached
    <3>3. Front(q) # p
      BY <1>3, <3>1, <3>2
    <3> QED BY <2>1, <2>2, <3>2, <3>3
  <2> QED BY <2>3, <2>4
<1>8. OneName' /\ RootNameless'
  BY <1>1, <1>4, <1>5 DEF OneName, RootNameless
<1>9. DotsUpward'
  BY <1>1, <1>6 DEF DotsUpward
<1>10. Reached'
  BY <1>1, <1>7 DEF Reached
<1> QED BY <1>8, <1>9, <1>10 DEF Treelike

\* A step that changes no names changes nothing in the tree.
LEMMA TreeSame ==
    ASSUME Structure, Tallied, Treelike, Structure', Tallied', SameNames
    PROVE  Tree' = Tree /\ Treelike'
<1>1. PICK B, T, U : B = Bindings /\ T = Tree /\ U = Tree' /\ Bindings' = B /\ Directories' = Directories
  BY DEF SameNames
<1>2. IsTree(T, B) /\ IsTree(U, B)
  BY <1>1, TreeFactsHold DEF TreeFacts, IsTree
<1>3. \A p \in Paths : T[p] = U[p]
  BY <1>2, OneTree
<1>4. T = [p \in Paths |-> T[p]] /\ U = [p \in Paths |-> U[p]]
  BY <1>1 DEF Tree
<1>5. Tree' = Tree
  BY <1>1, <1>3, <1>4
<1> QED BY <1>1, <1>5 DEF Treelike, OneName, RootNameless, DotsUpward, Reached

-----------------------------------------------------------------------------
\* A bound path: one name more in its directory, under a number that is new, or that a
\* file has already.
LEMMA BindsSays ==
    ASSUME Structure, Tallied, Structure', NEW p \in NamedPaths, NEW i, Binds(p, i)
    PROVE  /\ Rebinding(p, Tree[Front(p)], i) /\ Tree[p] = -1 /\ i \in Inums
           /\ Directories' \in {Directories, Directories \cup {i}}
           /\ \/ i \notin MappedInodes
              \/ Directories' = Directories /\ \E q \in NamedPaths : Tree[q] = i
           /\ \A e \in Directories', x \in Dots, j \in Inums :
                <<e, <<x, j>>>> \in Bindings' => <<e, <<x, j>>>> \in Bindings \/ j \in Directories'
<1>1. PICK d, name, B, C : d = Walk[Front(p)] /\ name = LastName(p) /\ B = Bindings /\ C = Bindings'
  OBVIOUS
<1>2. /\ p \in Paths /\ Front(p) \in Paths /\ name \in Names /\ Names \cap Dots = {}
      /\ MappedInodes \subseteq Inums /\ Directories \subseteq MappedInodes
      /\ -1 \notin Inums /\ \A j \in Inums : ~(j < 0)
  BY <1>1, PathAbove, Constants DEF NamedPaths, MappedInodes, Directories, Inums
<1>3. \/ AddsFile(d, name, i)
      \/ AddsDir(d, name, i)
      \/ AddsName(d, name, i) /\ i \notin Directories /\ \E q \in NamedPaths : Walk[q] = i
  BY <1>1 DEF Binds
<1>4. /\ d \in Directories /\ i \in Inums /\ i \notin Directories
      /\ Directories' \in {Directories, Directories \cup {i}}
      /\ \/ i \notin MappedInodes
         \/ Directories' = Directories /\ \E q \in NamedPaths : Walk[q] = i
  BY <1>2, <1>3 DEF AddsFile, AddsDir, AddsName
<1>5. Walk[p] = -1
  BY DEF Binds
<1>6. \A q \in Paths : /\ Walk[q] \in Inums => Tree[q] = Walk[q]
                       /\ Walk[q] = -1 => Tree[q] = -1
  BY <1>2 DEF Tree
<1>7. Tree[Front(p)] = d /\ Tree[p] = -1
  BY <1>1, <1>2, <1>4, <1>5, <1>6
<1>8. \A j \in Inums : <<d, <<name, j>>>> \notin B
  <2>1. IsTree(Tree, B)
    BY <1>1, TreeFactsHold DEF TreeFacts
  <2> QED BY <1>1, <1>2, <1>7, <2>1 DEF IsTree
<1>9. \/ C = With(B, d, name, i)
      \/ /\ C = With(With(With(B, d, name, i), i, ".", i), i, "..", d)
         /\ i \in Directories'
  BY <1>1, <1>3 DEF AddsFile, AddsDir, AddsName
<1>10. ASSUME NEW e, NEW x \in Names, NEW j \in Inums
       PROVE  <<e, <<x, j>>>> \in C <=> <<e, <<x, j>>>> \in B \/ (e = d /\ x = name /\ j = i)
  <2>1. x # "." /\ x # ".."
    BY <1>2 DEF Dots
  <2> QED BY <1>9, <2>1 DEF With
<1>11. ASSUME NEW e, NEW x \in Names, NEW j \in Inums
       PROVE  <<e, <<x, j>>>> \in C <=> IF e = d /\ x = name THEN j = i ELSE <<e, <<x, j>>>> \in B
  BY <1>8, <1>10
<1>12. ASSUME NEW e, NEW x \in Dots, NEW j \in Inums, <<e, <<x, j>>>> \in C
       PROVE  <<e, <<x, j>>>> \in B \/ j \in Directories'
  <2>1. x # name
    BY <1>2
  <2>2. d \in Directories'
    BY <1>4
  <2> QED BY <1>9, <1>12, <2>1, <2>2 DEF With
<1>13. -1 \notin Directories /\ (i \in Directories' => i \notin MappedInodes)
  BY <1>2, <1>4
<1>14. Rebinding(p, d, i)
  BY <1>1, <1>4, <1>7, <1>11, <1>13 DEF Rebinding
<1>15. \/ i \notin MappedInodes
       \/ Directories' = Directories /\ \E q \in NamedPaths : Tree[q] = i
  BY <1>4, <1>6, RootPath
<1> QED BY <1>1, <1>4, <1>7, <1>12, <1>14, <1>15

\* An unbound path: one name less in its directory.  Contents go with the inode.
LEMMA UnbindsSays ==
    ASSUME Structure, Tallied, Structure', NEW p \in NamedPaths, NEW i, Unbinds(p, i)
    PROVE  /\ Rebinding(p, Tree[Front(p)], -1) /\ Tree[p] = i /\ i \in Inums \ Directories
           /\ Directories' = Directories
           /\ Contents' = {j \in Contents : j \in MappedInodes'}
           /\ \A e \in Directories', x \in Dots, j \in Inums :
                <<e, <<x, j>>>> \in Bindings' => <<e, <<x, j>>>> \in Bindings \/ j \in Directories'
<1>1. PICK d, name, B, C : d = Walk[Front(p)] /\ name = LastName(p) /\ B = Bindings /\ C = Bindings'
  OBVIOUS
<1>2. /\ p \in Paths /\ Front(p) \in Paths /\ name \in Names /\ Names \cap Dots = {}
      /\ MappedInodes \subseteq Inums /\ Directories \subseteq MappedInodes /\ Contents \subseteq MappedInodes
      /\ -1 \notin Inums /\ \A j \in Inums : ~(j < 0)
  BY <1>1, PathAbove, Constants DEF NamedPaths, MappedInodes, Directories, Inums, Contents
<1>3. /\ Walk[p] = i /\ i \in MappedInodes /\ i \notin Directories /\ d \in Directories
      /\ Directories' = Directories /\ C = Without(B, d, name, i)
      /\ \/ MappedInodes' = MappedInodes \ {i} /\ Contents' = Contents \ {i}
         \/ MappedInodes' = MappedInodes /\ Contents' = Contents
  BY <1>1 DEF Unbinds, DropsFile, DropsName
<1>4. Tree[Front(p)] = d /\ Tree[p] = i
  BY <1>1, <1>2, <1>3 DEF Tree
<1>5. \A j \in Inums : <<d, <<name, j>>>> \in B <=> j = i
  <2>1. IsTree(Tree, B)
    BY <1>1, TreeFactsHold DEF TreeFacts
  <2> QED BY <1>1, <1>2, <1>4, <2>1 DEF IsTree
<1>6. ASSUME NEW e, NEW x, NEW j \in Inums
      PROVE  <<e, <<x, j>>>> \in C <=> <<e, <<x, j>>>> \in B /\ ~(e = d /\ x = name /\ j = i)
  BY <1>3 DEF Without
<1>7. ASSUME NEW e, NEW x \in Names, NEW j \in Inums
      PROVE  <<e, <<x, j>>>> \in C <=> IF e = d /\ x = name THEN j = -1 ELSE <<e, <<x, j>>>> \in B
  BY <1>2, <1>5, <1>6
<1>8. Rebinding(p, d, -1)
  BY <1>1, <1>2, <1>3, <1>4, <1>7 DEF Rebinding
<1>9. Contents' = {j \in Contents : j \in MappedInodes'}
  BY <1>2, <1>3
<1> QED BY <1>1, <1>2, <1>3, <1>4, <1>6, <1>8, <1>9

\* Every step keeps the directories a tree.
LEMMA TreelikeNext == IInv /\ Treelike /\ [Next]_vars => Treelike'
<1> SUFFICES ASSUME IInv, Treelike, [Next]_vars PROVE Treelike'
  OBVIOUS
<1>1. Structure /\ Tallied /\ Structure' /\ Tallied' /\ Step
  BY NextStep DEF IInv
<1>2. ASSUME NEW p \in NamedPaths, NEW i, Binds(p, i) PROVE Treelike'
  BY <1>1, <1>2, BindsSays, TreelikeKept
<1>3. ASSUME NEW p \in NamedPaths, NEW i, Unbinds(p, i) PROVE Treelike'
  BY <1>1, <1>3, UnbindsSays, TreelikeKept
<1>4. CASE SameNames
  BY <1>1, <1>4, TreeSame
<1> QED BY <1>1, <1>2, <1>3, <1>4 DEF Step, Fills

\* At first there is the root, and nothing in it but the dots.
LEMMA InitTree ==
    ASSUME Init, ~mode.use_disk_cr
    PROVE  Treelike /\ Tree = [p \in Paths |-> IF p = <<>> THEN ROOT_INODE ELSE -1]
<1>1. /\ Structure /\ Tallied /\ MappedInodes = {ROOT_INODE} /\ Directories = {ROOT_INODE}
      /\ Bindings = {<<ROOT_INODE, <<".", ROOT_INODE>>>>, <<ROOT_INODE, <<"..", ROOT_INODE>>>>}
  BY InitInv DEF IInv
<1>2. /\ \A e, x, j : <<e, <<x, j>>>> \in Bindings => x \in Dots /\ j = ROOT_INODE
      /\ Names \cap Dots = {} /\ ROOT_INODE \in Inums /\ -1 \notin Inums
  BY <1>1, Constants DEF Dots
<1>3. Treelike
  BY <1>1, <1>2 DEF Treelike, OneName, RootNameless, DotsUpward, Reached
<1>4. PICK T, U, B : /\ T = Tree /\ U = [p \in Paths |-> IF p = <<>> THEN ROOT_INODE ELSE -1]
                     /\ B = Bindings
  OBVIOUS
<1>5. IsTree(T, B)
  BY <1>1, <1>4, TreeFactsHold DEF TreeFacts
<1>6. IsTree(U, B)
  <2>1. U[<<>>] = ROOT_INODE /\ \A p \in Paths : U[p] \in Inums \cup {-1}
    BY <1>2, <1>4, RootPath
  <2>2. ASSUME NEW p \in NamedPaths, NEW i \in Inums
        PROVE  U[p] # i /\ <<U[Front(p)], <<LastName(p), i>>>> \notin B
    <3>1. LastName(p) \in Names /\ U[p] = -1
      BY <1>4, PathAbove DEF NamedPaths
    <3> QED BY <1>2, <1>4, <3>1
  <2> QED BY <2>1, <2>2 DEF IsTree
<1>7. \A p \in Paths : T[p] = U[p]
  BY <1>5, <1>6, OneTree
<1>8. T = [p \in Paths |-> T[p]] /\ U = [p \in Paths |-> U[p]]
  BY <1>4 DEF Tree
<1> QED BY <1>3, <1>4, <1>7, <1>8

\* The directories are always a tree.
LEMMA TreelikeInvariance == Spec /\ ~mode.use_disk_cr => [](IInv /\ Treelike)
<1>1. Init /\ ~mode.use_disk_cr => Treelike
  BY InitTree
<1>2. IInv /\ Treelike /\ [Next]_vars => Treelike'
  BY TreelikeNext
<1> QED BY <1>1, <1>2, Invariance, PTL DEF Spec

-----------------------------------------------------------------------------
\* What module Namespace says, with the names of this one.
LEMMA NamespaceSays ==
    /\ N!Bound = {p \in Paths : Tree[p] # -1}
    /\ N!Named = {Tree[p] : p \in {q \in Paths : Tree[q] # -1}}
    /\ N!Vacant = {p \in Paths \ {<<>>} : Tree[Front(p)] \in Directories /\ Tree[p] = -1}
    /\ \A p, i : N!Rebind(p, i) <=> Tree'[p] = i /\ Tree' = [Tree EXCEPT ![p] = i]
    /\ \A p, i : N!Create(p, i) <=> /\ N!Rebind(p, i) /\ i \notin N!Named
                                    /\ Directories' \in {Directories, Directories \cup {i}}
                                    /\ Contents' = Contents
    /\ \A p, i : N!Link(p, i) <=> /\ N!Rebind(p, i) /\ i \in N!Named \ Directories
                                  /\ Directories' = Directories /\ Contents' = Contents
    /\ \A p : N!Unlink(p) <=> /\ N!Rebind(p, -1) /\ Tree[p] \notin Directories
                              /\ Contents' = Contents \cap {Tree[q] : q \in N!Bound \ {p}}
                              /\ Directories' = Directories
    /\ \A p : N!Write(p) <=> /\ Tree[p] \notin Directories \cup Contents
                             /\ Contents' = Contents \cup {Tree[p]}
                             /\ Tree' = Tree /\ Directories' = Directories
    /\ Tree' = Tree /\ Directories' = Directories /\ Contents' = Contents => UNCHANGED N!nvars
<1>1. /\ N!Bound = {p \in Paths : Tree[p] # -1}
      /\ N!Vacant = {p \in Paths \ {<<>>} : Tree[Front(p)] \in Directories /\ Tree[p] = -1}
  BY DEF N!Bound, N!Vacant, N!Parent, Front, Tree
<1>2. N!Named = {Tree[p] : p \in {q \in Paths : Tree[q] # -1}}
  BY <1>1 DEF N!Named, Tree
<1>3. \A p, i : N!Rebind(p, i) <=> Tree'[p] = i /\ Tree' = [Tree EXCEPT ![p] = i]
  BY DEF N!Rebind, Tree
<1>4. \A p, i : N!Create(p, i) <=> /\ N!Rebind(p, i) /\ i \notin N!Named
                                    /\ Directories' \in {Directories, Directories \cup {i}}
                                    /\ Contents' = Contents
  BY DEF N!Create, Contents
<1>5. \A p, i : N!Link(p, i) <=> /\ N!Rebind(p, i) /\ i \in N!Named \ Directories
                                  /\ Directories' = Directories /\ Contents' = Contents
  BY DEF N!Link, Contents
<1>6. \A p : N!Unlink(p) <=> /\ N!Rebind(p, -1) /\ Tree[p] \notin Directories
                              /\ Contents' = Contents \cap {Tree[q] : q \in N!Bound \ {p}}
                              /\ Directories' = Directories
  BY DEF N!Unlink, Contents, Tree
<1>7. \A p : N!Write(p) <=> /\ Tree[p] \notin Directories \cup Contents
                             /\ Contents' = Contents \cup {Tree[p]}
                             /\ Tree' = Tree /\ Directories' = Directories
  BY DEF N!Write, Contents, Tree
<1>8. Tree' = Tree /\ Directories' = Directories /\ Contents' = Contents => UNCHANGED N!nvars
  BY DEF N!nvars, Contents, Tree
<1> QED BY <1>1, <1>2, <1>3, <1>4, <1>5, <1>6, <1>7, <1>8

\* A file that is there has a path: it is counted, so an entry leads to it, which is
\* a name, for dots lead to directories, and names have paths.
FilesNamed ==
    Structure /\ Tallied /\ Treelike =>
        \A i \in MappedInodes \ Directories : \E p \in Paths : Tree[p] = i

\* It holds.
LEMMA FilesNamedHolds == FilesNamed /\ FilesNamed'
<1>1. FilesNamed
  <2> SUFFICES ASSUME Structure, Tallied, Treelike, NEW i \in MappedInodes \ Directories
               PROVE  \E p \in Paths : Tree[p] = i
    BY DEF FilesNamed
  <2>1. i \in Inums /\ InMemory(i).refs \in Nat \ {0}
    BY DEF MappedInodes, Structure, NodesOK, Fits, Nodes
  <2>2. LeadingTo(Bindings, i) # {}
    <3>1. Cardinality(LeadingTo(Bindings, i)) # 0
      BY <2>1 DEF Tallied, Links
    <3> QED BY <3>1, FS_EmptySet
  <2>3. PICK b \in Bindings : b[2][2] = i
    BY <2>2 DEF LeadingTo
  <2>4. PICK d, x : d = b[1] /\ x = b[2][1]
    OBVIOUS
  <2>5. d \in Directories /\ x \in Names \cup Dots /\ <<d, <<x, i>>>> \in Bindings
    BY <2>3, <2>4 DEF Bindings
  <2>6. x \in Names
    BY <2>1, <2>5 DEF Treelike, DotsUpward
  <2>7. PICK p \in NamedPaths : Tree[Front(p)] = d /\ LastName(p) = x
    BY <2>1, <2>5, <2>6 DEF Treelike, Reached
  <2>8. Tree[p] = i
    BY <2>1, <2>5, <2>7, TreeFactsHold DEF TreeFacts, IsTree
  <2> QED BY <2>7, <2>8, RootPath
<1> QED BY <1>1, PTL

\* A bound path is a file or a directory created, or a file linked.
LEMMA BindsRefines ==
    ASSUME Structure, Tallied, Treelike, Structure', Tallied', NEW p \in NamedPaths, NEW i, Binds(p, i)
    PROVE  N!NNext
<1>1. /\ Rebinding(p, Tree[Front(p)], i) /\ Tree[p] = -1 /\ i \in Inums
      /\ Directories' \in {Directories, Directories \cup {i}}
      /\ \/ i \notin MappedInodes
         \/ Directories' = Directories /\ \E q \in NamedPaths : Tree[q] = i
  BY BindsSays
<1>2. Tree' = [Tree EXCEPT ![p] = i] /\ Tree'[p] = i
  <2>1. Tree' = [Tree EXCEPT ![p] = i]
    BY <1>1, TreeRebound
  <2> QED BY <2>1, RootPath DEF Tree
<1>3. N!Rebind(p, i)
  BY <1>2, NamespaceSays
<1>4. p \in N!Vacant
  BY <1>1, NamespaceSays DEF Rebinding, NamedPaths
<1>5. Contents' = Contents /\ i \notin Directories /\ i # -1
  BY <1>1, Constants DEF Binds, Rebinding
<1>6. CASE i \notin MappedInodes
  <2>1. \A q \in Paths : Tree[q] \in MappedInodes \cup {-1}
    BY TreeFactsHold DEF TreeFacts
  <2>2. i \notin N!Named
    BY <1>6, <2>1, NamespaceSays
  <2>3. N!Create(p, i)
    BY <1>1, <1>3, <1>5, <2>2, NamespaceSays
  <2> QED BY <1>1, <1>4, <2>3 DEF N!NNext
<1>7. CASE Directories' = Directories /\ \E q \in NamedPaths : Tree[q] = i
  <2>1. i \in N!Named
    BY <1>5, <1>7, RootPath, NamespaceSays
  <2>2. N!Link(p, i)
    BY <1>3, <1>5, <1>7, <2>1, NamespaceSays
  <2> QED BY <1>1, <1>4, <2>2 DEF N!NNext
<1> QED BY <1>1, <1>6, <1>7

\* An unbound path is an unlink: what keeps an inode keeps a path, and contents go
\* with the inode.
LEMMA UnbindsRefines ==
    ASSUME Structure, Tallied, Treelike, Structure', Tallied', Treelike',
           NEW p \in NamedPaths, NEW i, Unbinds(p, i)
    PROVE  N!NNext
<1>1. /\ Rebinding(p, Tree[Front(p)], -1) /\ Tree[p] = i /\ i \in Inums \ Directories
      /\ Directories' = Directories
      /\ Contents' = {j \in Contents : j \in MappedInodes'}
  BY UnbindsSays
<1>2. Tree' = [Tree EXCEPT ![p] = -1]
  BY <1>1, TreeRebound
<1>3. Tree'[p] = -1 /\ \A q \in Paths : q # p => Tree'[q] = Tree[q]
  BY <1>2, RootPath DEF Tree
<1>4. N!Rebind(p, -1)
  BY <1>2, <1>3, NamespaceSays
<1>5. -1 \notin Inums /\ MappedInodes \subseteq Inums
  BY Constants DEF MappedInodes
<1>6. p \in N!Bound
  BY <1>1, <1>5, RootPath, NamespaceSays
<1>7. ASSUME NEW j PROVE j \in Contents' <=> j \in Contents /\ \E q \in N!Bound \ {p} : Tree[q] = j
  <2>1. ASSUME j \in Contents' PROVE \E q \in N!Bound \ {p} : Tree[q] = j
    <3>1. j \in Contents /\ j \in MappedInodes' /\ j # -1 /\ j \in Inums
      BY <1>1, <1>5, <2>1 DEF Contents
    <3>2. j \notin Directories'
      BY <1>1, <3>1 DEF Contents, Directories
    <3>3. PICK q \in Paths : Tree'[q] = j
      BY <3>1, <3>2, FilesNamedHolds DEF FilesNamed
    <3>4. q # p /\ Tree[q] = j
      BY <1>3, <3>1, <3>3
    <3> QED BY <3>1, <3>4, NamespaceSays
  <2>2. ASSUME j \in Contents, NEW q \in N!Bound \ {p}, Tree[q] = j PROVE j \in Contents'
    <3>1. q \in Paths /\ q # p /\ Tree[q] # -1
      BY <2>2, NamespaceSays
    <3>2. Tree'[q] = j /\ j # -1
      BY <1>3, <2>2, <3>1
    <3>3. \A r \in Paths : Tree'[r] \in MappedInodes' \cup {-1}
      BY TreeFactsHold DEF TreeFacts
    <3>4. j \in MappedInodes'
      BY <3>1, <3>2, <3>3
    <3> QED BY <1>1, <2>2, <3>4
  <2>3. j \in Contents' => j \in Contents
    BY <1>1
  <2> QED BY <2>1, <2>2, <2>3
<1>8. Contents' = Contents \cap {Tree[q] : q \in N!Bound \ {p}}
  <2> DEFINE left == {Tree[q] : q \in N!Bound \ {p}}
  <2>1. \A j : j \in left <=> \E q \in N!Bound \ {p} : Tree[q] = j
    OBVIOUS
  <2> HIDE DEF left
  <2>2. \A j : j \in Contents' <=> j \in Contents \cap left
    BY <1>7, <2>1
  <2>3. Contents' = Contents \cap left
    BY <2>2
  <2> QED BY <2>3 DEF left
<1>9. N!Unlink(p)
  BY <1>1, <1>4, <1>8, NamespaceSays
<1> QED BY <1>6, <1>9 DEF N!NNext

\* A file that gets contents is written to.
LEMMA FillsRefines ==
    ASSUME Structure, Tallied, Treelike, Structure', Tallied', NEW p \in NamedPaths, Fills(p)
    PROVE  N!NNext \/ UNCHANGED N!nvars
<1>1. PICK i : i = Walk[p]
  OBVIOUS
<1>2. /\ i \in MappedInodes \ Directories /\ SameNames /\ Contents' = Contents \cup {i}
      /\ Directories' = Directories
  BY <1>1 DEF Fills, SameNames
<1>3. Tree' = Tree
  BY <1>2, TreeSame
<1>4. Tree[p] = i /\ i # -1 /\ p \in Paths
  BY <1>1, <1>2, RootPath DEF Tree, MappedInodes, Inums
<1>5. CASE i \in Contents
  <2>1. Contents' = Contents
    BY <1>2, <1>5
  <2> QED BY <1>2, <1>3, <2>1, NamespaceSays
<1>6. CASE i \notin Contents
  <2>1. N!Write(p) /\ p \in N!Bound
    BY <1>2, <1>3, <1>4, <1>6, NamespaceSays
  <2> QED BY <2>1 DEF N!NNext
<1> QED BY <1>5, <1>6

\* The file system begins as the namespace does.
LEMMA InitRefines == Init /\ ~mode.use_disk_cr => N!NInit
<1> SUFFICES ASSUME Init, ~mode.use_disk_cr PROVE N!NInit
  OBVIOUS
<1>1. /\ Tree = [p \in Paths |-> IF p = <<>> THEN ROOT_INODE ELSE -1]
      /\ Directories = {ROOT_INODE} /\ MappedInodes = {ROOT_INODE}
  BY InitTree, InitInv
<1>2. Contents = {}
  BY <1>1 DEF Contents, Directories
<1> QED BY <1>1, <1>2 DEF N!NInit, Tree, Contents

\* With the inode map in memory the log is a namespace with hard links: what
\* file_create, file_link, file_delete and file_write log as new versions of
\* directories, inodes and maps is, seen through path names, to bind a free name, to
\* bind one more, to unbind one and to give a file its contents; sync and what fails
\* change nothing.
THEOREM NamespaceKept == Spec /\ ~mode.use_disk_cr => ImplementsNamespace
<1> DEFINE Known == IInv /\ Treelike
<1>1. Known /\ Known' /\ [Next]_vars => [N!NNext]_(N!nvars)
  <2> SUFFICES ASSUME Known, Known', [Next]_vars PROVE N!NNext \/ UNCHANGED N!nvars
    OBVIOUS
  <2>1. /\ Structure /\ Tallied /\ Treelike /\ Structure' /\ Tallied' /\ Treelike'
        /\ Step
    BY NextStep DEF IInv
  <2>2. ASSUME NEW p \in NamedPaths, NEW i, Binds(p, i) PROVE N!NNext
    BY <2>1, <2>2, BindsRefines
  <2>3. ASSUME NEW p \in NamedPaths, NEW i, Unbinds(p, i) PROVE N!NNext
    BY <2>1, <2>3, UnbindsRefines
  <2>4. ASSUME NEW p \in NamedPaths, Fills(p) PROVE N!NNext \/ UNCHANGED N!nvars
    BY <2>1, <2>4, FillsRefines
  <2>5. CASE SameNames /\ Contents' = Contents
    <3>1. Tree' = Tree /\ Directories' = Directories
      BY <2>1, <2>5, TreeSame DEF SameNames
    <3> QED BY <2>5, <3>1, NamespaceSays
  <2> QED BY <2>1, <2>2, <2>3, <2>4, <2>5 DEF Step
<1>2. Spec /\ ~mode.use_disk_cr => []Known
  BY TreelikeInvariance
<1> HIDE DEF Known
<1> QED BY <1>1, <1>2, InitRefines, PTL DEF Spec, ImplementsNamespace, N!NSpec

=============================================================================
