----------------------------- MODULE FfsProofs -----------------------------
(***************************************************************************)
(* What the tables of ffs.py say of each other as long as nothing has gone *)
(* astray, that only what ErrorsAreExplained names ends the program, and   *)
(* where allocate_blocks puts a file, for every disk and command file.     *)
(***************************************************************************)
EXTENDS Ffs, SequenceTheorems, WellFoundedInduction, TLAPS, FiniteSetTheorems

-----------------------------------------------------------------------------
\* What these proofs need to know of numbers.

\* The definition of \div and %, for a positive divisor.
LEMMA DivModFact ==
    ASSUME NEW a \in Int, NEW d \in Nat \ {0}
    PROVE  a \div d \in Int /\ a % d \in 0 .. d - 1 /\ a = d * (a \div d) + (a % d)
OBVIOUS

\* A larger number of rows is larger by a whole row.
LEMMA MulMonotone ==
    ASSUME NEW d \in Nat \ {0}, NEW x \in Int, NEW y \in Int, x < y
    PROVE  d * x + d <= d * y
OBVIOUS

\* A number has one row and one place in it.
LEMMA SameCell ==
    ASSUME NEW d \in Nat \ {0}, NEW x \in Int, NEW y \in Int,
           NEW r \in 0 .. d - 1, NEW s \in 0 .. d - 1, d * x + r = d * y + s
    PROVE  x = y /\ r = s
<1>1. ~(x < y)
  <2> SUFFICES ASSUME x < y PROVE FALSE
    OBVIOUS
  <2> QED
    BY MulMonotone
<1>2. ~(y < x)
  <2> SUFFICES ASSUME y < x PROVE FALSE
    OBVIOUS
  <2> QED
    BY MulMonotone
<1> QED
  BY <1>1, <1>2

\* The quotient and the remainder are the only ones.
LEMMA DivModUnique ==
    ASSUME NEW a \in Int, NEW d \in Nat \ {0}, NEW q \in Int, NEW r \in 0 .. d - 1,
           a = d * q + r
    PROVE  a \div d = q /\ a % d = r
BY DivModFact, SameCell

\* The quotient of a natural number is one.
LEMMA DivNat ==
    ASSUME NEW a \in Nat, NEW d \in Nat \ {0}
    PROVE  a \div d \in Nat
<1>1. a \div d >= 0
  <2> SUFFICES ASSUME a \div d < 0 PROVE FALSE
    BY DivModFact
  <2>1. d * (a \div d) + d <= d * 0
    BY DivModFact, MulMonotone
  <2> QED
    BY <2>1, DivModFact
<1> QED
  BY <1>1, DivModFact

\* A quotient below k is a number below k times the divisor.
LEMMA DivLess ==
    ASSUME NEW a \in Nat, NEW d \in Nat \ {0}, NEW k \in Nat
    PROVE  a \div d < k <=> a < d * k
<1> DEFINE q == a \div d
           r == a % d
<1>1. q \in Nat /\ r \in 0 .. d - 1 /\ a = d * q + r
  <2>1. q \in Nat
    BY DivNat
  <2>2. r \in 0 .. d - 1 /\ a = d * q + r
    BY DivModFact
  <2> QED
    BY <2>1, <2>2
<1> HIDE DEF q, r
<1>2. q < k => d * q + d <= d * k
  BY <1>1, MulMonotone
<1>3. k < q => d * k + d <= d * q
  BY <1>1, MulMonotone
<1>4. q < k <=> a < d * k
  <2>1. d * q \in Int /\ d * k \in Int /\ (k = q => d * k = d * q)
    BY <1>1
  <2>2. CASE q < k
    BY <1>1, <1>2, <2>1, <2>2
  <2>3. CASE k < q
    BY <1>1, <1>3, <2>1, <2>3
  <2>4. CASE k = q
    BY <1>1, <2>1, <2>4
  <2> QED
    BY <1>1, <2>2, <2>3, <2>4
<1> QED
  BY <1>4 DEF q

\* Going at most once around a circle of d places.
LEMMA Wrap ==
    ASSUME NEW d \in Nat \ {0}, NEW x \in -d .. 2 * d - 1
    PROVE  /\ x < 0 => x % d = x + d
           /\ x >= 0 /\ x < d => x % d = x
           /\ x >= d => x % d = x - d
<1>1. CASE x < 0
  BY <1>1, DivModUnique, x = d * (-1) + (x + d)
<1>2. CASE x \in 0 .. d - 1
  BY <1>2, DivModUnique, x = d * 0 + x
<1>3. CASE x >= d
  BY <1>3, DivModUnique, x = d * 1 + (x - d)
<1> QED
  BY <1>1, <1>2, <1>3

\* A set of numbers that is not empty has a smallest one.
LEMMA SmallestNumber ==
    ASSUME NEW T, T \subseteq Nat, T # {}
    PROVE  \E x \in T : \A y \in T : x <= y
<1> DEFINE R == {r \in Nat \X Nat : r[1] < r[2]}
<1>1. IsWellFoundedOn(R, Nat)
  BY NatLessThanWellFounded DEF OpToRel
<1>2. PICK x \in T : \A y \in T : ~(<<y, x>> \in R)
  <2> HIDE DEF R
  <2> QED BY <1>1, WFMin
<1>3. ASSUME NEW y \in T PROVE ~(y < x)
  <2> DEFINE r == <<y, x>>
  <2>1. r \in Nat \X Nat
    OBVIOUS
  <2>2. r \notin R
    BY <1>2
  <2> QED BY <2>1, <2>2
<1> QED BY <1>3

\* A set with 0 and the successor of each of its numbers has all numbers.
LEMMA SetInduction ==
    ASSUME NEW P, 0 \in P, \A n \in Nat : n \in P => n + 1 \in P
    PROVE  Nat \subseteq P
<1> DEFINE T == Nat \ P
<1> SUFFICES ASSUME T # {} PROVE FALSE
  OBVIOUS
<1>1. PICK x \in T : \A y \in T : x <= y
  <2> HIDE DEF T
  <2>1. T \subseteq Nat
    BY DEF T
  <2> QED BY <2>1, SmallestNumber
<1>2. x \in Nat /\ x # 0 /\ x - 1 \in Nat /\ (x - 1) + 1 = x
  OBVIOUS
<1>3. x - 1 \notin T
  BY <1>1, <1>2
<1> QED BY <1>2, <1>3

\* What is defined from a first value and from each value to the next exists.
StaysIn(S, n, next) == \A k \in 1 .. n, x \in S : next[<<k, x>>] \in S
Computed(S, first, n, next) ==
    \E f \in [0 .. n -> S] : f[0] = first /\ \A k \in 1 .. n : f[k] = next[<<k, f[k - 1]>>]

\* Values from S, when next stays in S.
LEMMA Recursion ==
    ASSUME NEW S, NEW first \in S, NEW n \in Nat, NEW next, StaysIn(S, n, next)
    PROVE  Computed(S, first, n, next)
<1> DEFINE Upto(m, f) == f[0] = first /\ \A k \in 1 .. m : f[k] = next[<<k, f[k - 1]>>]
           P == {m \in Nat : m <= n => \E f \in [0 .. m -> S] : Upto(m, f)}
<1>1. 0 \in P
  <2> DEFINE f == [k \in 0 .. 0 |-> first]
  <2>1. f \in [0 .. 0 -> S] /\ Upto(0, f)
    OBVIOUS
  <2> QED BY <2>1
<1>2. ASSUME NEW m \in Nat, m \in P PROVE m + 1 \in P
  <2> SUFFICES ASSUME m + 1 <= n PROVE \E g \in [0 .. m + 1 -> S] : Upto(m + 1, g)
    OBVIOUS
  <2>1. PICK f \in [0 .. m -> S] : Upto(m, f)
    BY <1>2
  <2> DEFINE g == [k \in 0 .. m + 1 |-> IF k = m + 1 THEN next[<<m + 1, f[m]>>] ELSE f[k]]
  <2>2. next[<<m + 1, f[m]>>] \in S
    BY <2>1 DEF StaysIn
  <2>3. g \in [0 .. m + 1 -> S] /\ g[0] = first
    BY <2>1, <2>2
  <2>4. ASSUME NEW k \in 1 .. m + 1 PROVE g[k] = next[<<k, g[k - 1]>>]
    <3>1. CASE k = m + 1
      <4>1. k - 1 = m /\ m \in 0 .. m + 1 /\ m # m + 1
        BY <3>1
      <4>2. g[k] = next[<<k, f[m]>>] /\ g[k - 1] = f[m]
        BY <3>1, <4>1
      <4> QED BY <4>2
    <3>2. CASE k # m + 1
      <4>1. k \in 1 .. m /\ k - 1 \in 0 .. m + 1 /\ k - 1 # m + 1
        BY <3>2
      <4>2. g[k] = f[k] /\ g[k - 1] = f[k - 1]
        BY <3>2, <4>1
      <4> QED BY <2>1, <4>1, <4>2
    <3> QED BY <3>1, <3>2
  <2> HIDE DEF g
  <2>5. Upto(m + 1, g)
    BY <2>3, <2>4
  <2> QED BY <2>3, <2>5
<1>3. Nat \subseteq P
  <2> HIDE DEF P
  <2> QED BY <1>1, <1>2, SetInduction
<1> QED BY <1>3 DEF Computed

-----------------------------------------------------------------------------
\* The numbers below n, and the number of place i in group g, with n in each group.
Below(n) == 0 .. n - 1
At(n, g, i) == g * n + i

\* The numbers of inodes and of blocks, of what has a name, of what is owned.
Inums == Below(disk.groups * disk.inodes)
BlockNumbers == Below(disk.groups * disk.blocks)
Live == {name_to_inode_map[p] : p \in Bound}
Owned == UNION {inodes[i].blocks : i \in Live}
Directories == {p \in Bound : inodes[name_to_inode_map[p]].type = "directory"}
Children(p) == {q \in Bound \ {<<>>} : Front(q) = p}

\* A number has one name.
NamesOK ==
    /\ name_to_inode_map \in [Paths -> Inums \cup {-1}]
    /\ name_to_inode_map[<<>>] = 0
    /\ \A p, q \in Bound : name_to_inode_map[p] = name_to_inode_map[q] => p = q

\* What has a name is a file or a directory with blocks of its own; what has
\* none is no directory.
NodesOK ==
    /\ Live \subseteq DOMAIN inodes
    /\ \A i \in Live : /\ inodes[i].blocks \subseteq BlockNumbers
                       /\ inodes[i].type \in {"regular", "directory"}
    /\ \A i \in DOMAIN inodes : inodes[i].type = "directory" => i \in Live

\* The entries of a directory are the names below its path.
TreeOK ==
    /\ <<>> \in Directories
    /\ \A p \in Bound \ {<<>>} : Front(p) \in Directories
    /\ DOMAIN dir_data = {name_to_inode_map[p] : p \in Directories}
    /\ \A p \in Directories :
          dir_data[name_to_inode_map[p]] =
              {Entry(Last(q), name_to_inode_map[q]) : q \in Children(p)}

\* Places that are in use show the number of their file.
InodeBitsOK ==
    inode_bitmap = [g \in Groups |-> [i \in Below(disk.inodes) |->
          IF At(disk.inodes, g, i) \in Live THEN At(disk.inodes, g, i) ELSE FREE]]
DataBitsOK ==
    /\ data_bitmap \in [Groups -> [Below(disk.blocks) -> Live \cup {FREE}]]
    /\ \A g \in Groups, i \in Below(disk.blocks), n \in Live :
          data_bitmap[g][i] = n <=> At(disk.blocks, g, i) \in inodes[n].blocks

CountersOK ==
    /\ total_inodes_free = disk.groups * disk.inodes - Cardinality(Live)
    /\ total_data_free = disk.groups * disk.blocks - Cardinality(Owned)
    /\ symbol_map = Live /\ available_symbols = Symbols - Cardinality(Live)

Books == /\ NamesOK /\ NodesOK /\ TreeOK
         /\ InodeBitsOK /\ DataBitsOK /\ CountersOK
IInv ==
    /\ disk \in Disks /\ strayed \in BOOLEAN
    /\ ~strayed => Books
    /\ ErrorsAreExplained

-----------------------------------------------------------------------------
\* The sizes of a disk.
LEMMA DiskSizes ==
    ASSUME disk \in Disks
    PROVE  /\ disk.groups \in Nat \ {0} /\ disk.blocks \in Nat \ {0} /\ disk.inodes \in Nat \ {0}
           /\ disk.contig \in Nat \ {0} /\ disk.faraway \in Nat \ {0} /\ disk.large \in Nat
           /\ disk.spreadInodes \in BOOLEAN /\ disk.spreadData \in BOOLEAN
           /\ disk.groups * disk.inodes <= MaxInodes /\ MaxInodes \in Nat
BY FfsAssumption DEF FfsAssumption

LEMMA PlaceOfNumber ==
    ASSUME NEW G \in Nat, NEW n \in Nat \ {0}, NEW b \in Below(G * n)
    PROVE  b \div n \in Below(G) /\ b % n \in Below(n) /\ b = At(n, b \div n, b % n)
<1>1. G * n \in Nat
  OBVIOUS
<1>2. b \in Nat /\ b < n * G
  BY <1>1 DEF Below
<1>3. b \div n \in Nat /\ b \div n < G
  BY <1>2, DivNat, DivLess
<1>4. b % n \in 0 .. n - 1 /\ b = n * (b \div n) + (b % n)
  BY <1>2, DivModFact
<1> QED BY <1>3, <1>4 DEF Below, At

LEMMA NumberOfPlace ==
    ASSUME NEW G \in Nat, NEW n \in Nat \ {0}, NEW g \in Below(G), NEW i \in Below(n)
    PROVE  At(n, g, i) \in Below(G * n) /\ At(n, g, i) \div n = g /\ At(n, g, i) % n = i
<1>1. g * n + i \in Nat /\ g * n + i = n * g + i /\ i \in 0 .. n - 1
  BY DEF Below
<1>2. n * g + n <= n * G
  BY MulMonotone DEF Below
<1>3. g * n + i < G * n
  BY <1>1, <1>2
<1>4. (g * n + i) \div n = g /\ (g * n + i) % n = i
  BY <1>1, DivModUnique DEF Below
<1> QED BY <1>1, <1>3, <1>4 DEF Below, At

\* Two places have two numbers.
LEMMA PlacesDiffer ==
    ASSUME NEW G \in Nat, NEW n \in Nat \ {0}, NEW g \in Below(G), NEW i \in Below(n),
           NEW h \in Below(G), NEW j \in Below(n), At(n, g, i) = At(n, h, j)
    PROVE  g = h /\ i = j
BY NumberOfPlace

\* Numbers up to a bound are finitely many.
LEMMA BelowIsFinite ==
    ASSUME NEW n \in Nat, NEW T, T \subseteq Below(n)
    PROVE  IsFiniteSet(T) /\ Cardinality(T) \in Nat /\ Cardinality(T) <= n
<1>1. IsFiniteSet(0 .. n - 1) /\ Cardinality(0 .. n - 1) = n
  BY FS_Interval
<1>2. IsFiniteSet(T) /\ Cardinality(T) <= n
  BY <1>1, FS_Subset DEF Below
<1> QED BY <1>2, FS_CardinalityType

LEMMA AllBelow ==
    ASSUME NEW n \in Nat
    PROVE  IsFiniteSet(Below(n)) /\ Cardinality(Below(n)) = n
BY FS_Interval DEF Below

\* A finite set of numbers has an upper bound.
LEMMA FiniteIsBounded ==
    ASSUME NEW T, T \subseteq Nat, IsFiniteSet(T)
    PROVE  \E n \in Nat : \A x \in T : x <= n
<1> DEFINE Bounded(U) == \E n \in Nat : \A x \in U : x <= n
           P == {c \in Nat : \A U : U \subseteq Nat /\ IsFiniteSet(U) /\ Cardinality(U) = c => Bounded(U)}
<1>1. 0 \in P
  <2> SUFFICES ASSUME NEW U, U \subseteq Nat, IsFiniteSet(U), Cardinality(U) = 0 PROVE Bounded(U)
    OBVIOUS
  <2>1. U = {}
    BY FS_EmptySet
  <2> QED BY <2>1
<1>2. ASSUME NEW c \in Nat, c \in P PROVE c + 1 \in P
  <2> SUFFICES ASSUME NEW U, U \subseteq Nat, IsFiniteSet(U), Cardinality(U) = c + 1 PROVE Bounded(U)
    OBVIOUS
  <2>1. PICK x : x \in U
    <3>1. c + 1 # 0
      OBVIOUS
    <3> QED BY <3>1, FS_EmptySet, Zenon
  <2>2. IsFiniteSet(U \ {x}) /\ Cardinality(U \ {x}) = c
    <3>1. IsFiniteSet(U \ {x}) /\ Cardinality(U \ {x}) = Cardinality(U) - 1
      BY <2>1, FS_RemoveElement, Zenon
    <3> QED BY <3>1
  <2>3. PICK n \in Nat : \A y \in U \ {x} : y <= n
    BY <1>2, <2>2
  <2>4. \A y \in U : y <= n + x
    BY <2>1, <2>3
  <2>5. n + x \in Nat
    BY <2>1
  <2> QED BY <2>4, <2>5
<1>3. Nat \subseteq P
  <2> HIDE DEF P
  <2> QED BY <1>1, <1>2, SetInduction
<1> QED BY <1>3, FS_CardinalityType

\* Smallest and greatest numbers, the operators of the library.
LEMMA MinIsLeast ==
    ASSUME NEW T, T \subseteq Nat, T # {}
    PROVE  Min(T) \in T /\ \A y \in T : Min(T) <= y
BY SmallestNumber DEF Min

LEMMA MaxIsGreatest ==
    ASSUME NEW T, T \subseteq Nat, T # {}, IsFiniteSet(T)
    PROVE  Max(T) \in T /\ \A y \in T : y <= Max(T)
<1>1. PICK n \in Nat : \A x \in T : x <= n
  BY FiniteIsBounded
<1> DEFINE D == {n - x : x \in T}
<1>2. D \subseteq Nat /\ D # {}
  <2>1. \A x \in T : n - x \in Nat
    BY <1>1
  <2> QED BY <2>1
<1>3. PICK m \in D : \A y \in D : m <= y
  <2> HIDE DEF D
  <2> QED BY <1>2, SmallestNumber
<1>4. PICK x \in T : m = n - x
  BY <1>3
<1>5. \A y \in T : y <= x
  <2> TAKE y \in T
  <2>1. m <= n - y
    BY <1>3
  <2> QED BY <1>4, <2>1
<1> QED BY <1>5 DEF Max

\* The values of finitely many arguments.
LEMMA ValuesAreFinite ==
    ASSUME NEW S, IsFiniteSet(S), NEW f
    PROVE  IsFiniteSet({f[x] : x \in S}) /\ Cardinality({f[x] : x \in S}) <= Cardinality(S)
<1> DEFINE T == {f[x] : x \in S}
           m == [x \in S |-> f[x]]
<1>1. m \in Surjection(S, T)
  BY DEF Surjection
<1> HIDE DEF T, m
<1>2. IsFiniteSet(T) /\ Cardinality(T) <= Cardinality(S)
  BY <1>1, FS_Surjection
<1> QED BY <1>2 DEF T

\* The search for the greatest value finds one.
LEMMA FirstMaxIsGreatest ==
    ASSUME NEW S, S \subseteq Nat, S # {}, IsFiniteSet(S), NEW f \in [S -> Nat]
    PROVE  FirstMax(f) \in S /\ \A h \in S : f[h] <= f[FirstMax(f)]
<1> DEFINE V == {f[g] : g \in S}
<1>1. V \subseteq Nat /\ V # {} /\ IsFiniteSet(V)
  BY ValuesAreFinite
<1>2. Max(V) \in V /\ \A y \in V : y <= Max(V)
  <2> HIDE DEF V
  <2> QED BY <1>1, MaxIsGreatest
<1> DEFINE B == {g \in S : f[g] = Max(V)}
<1>3. B \subseteq Nat /\ B # {}
  BY <1>2
<1>4. PICK g \in B : \A h \in B : g <= h
  <2> HIDE DEF B
  <2> QED BY <1>3, SmallestNumber
<1>5. g \in DOMAIN f /\ \A h \in DOMAIN f : f[h] <= f[g] /\ (f[h] = f[g] => g <= h)
  BY <1>2, <1>4
<1>6. FirstMax(f) \in DOMAIN f /\ \A h \in DOMAIN f : f[h] <= f[FirstMax(f)]
  <2> HIDE DEF B, V
  <2> QED BY <1>5 DEF FirstMax
<1> QED BY <1>6

-----------------------------------------------------------------------------
\* Pieces that have nothing in common.
Apart(F, S) ==
    /\ \A g \in S : IsFiniteSet(F[g])
    /\ \A g, h \in S : g # h => F[g] \cap F[h] = {}
Together(F, S) == UNION {F[g] : g \in S}

LEMMA OnePieceMore ==
    ASSUME NEW F, NEW S, IsFiniteSet(S), Apart(F, S), NEW x \in S
    PROVE  /\ IsFiniteSet(Together(F, S)) /\ IsFiniteSet(Together(F, S \ {x}))
           /\ Cardinality(F[x]) \in Nat /\ Cardinality(Together(F, S \ {x})) \in Nat
           /\ Cardinality(Together(F, S)) = Cardinality(F[x]) + Cardinality(Together(F, S \ {x}))
<1>1. IsFiniteSet({F[g] : g \in S \ {x}})
  <2>1. IsFiniteSet(S \ {x})
    BY FS_RemoveElement
  <2> QED BY <2>1, ValuesAreFinite
<1>2. IsFiniteSet(F[x]) /\ IsFiniteSet(Together(F, S \ {x}))
  BY <1>1, FS_UNION DEF Apart, Together
<1>3. Together(F, S) = F[x] \cup Together(F, S \ {x}) /\ F[x] \cap Together(F, S \ {x}) = {}
  BY DEF Apart, Together
<1>4. Cardinality(F[x] \cap Together(F, S \ {x})) = 0
  BY <1>3, FS_EmptySet
<1> HIDE DEF Together
<1>5. /\ IsFiniteSet(F[x] \cup Together(F, S \ {x}))
      /\ Cardinality(F[x] \cup Together(F, S \ {x})) =
            Cardinality(F[x]) + Cardinality(Together(F, S \ {x}))
                - Cardinality(F[x] \cap Together(F, S \ {x}))
  BY <1>2, FS_Union
<1>6. Cardinality(F[x]) \in Nat /\ Cardinality(Together(F, S \ {x})) \in Nat
  BY <1>2, FS_CardinalityType
<1> QED BY <1>2, <1>3, <1>4, <1>5, <1>6

\* The sum of the sizes of such pieces is the size of them together.
SumSpec(fun, S, iter) ==
    iter = [s \in SUBSET S |->
               IF s = {} THEN 0
               ELSE fun[CHOOSE x \in s : TRUE] + iter[s \ {CHOOSE x \in s : TRUE}]]

LEMMA SumOfSizes ==
    ASSUME NEW F, NEW S, IsFiniteSet(S), Apart(F, S), NEW fun,
           DOMAIN fun = S, \A g \in S : fun[g] = Cardinality(F[g])
    PROVE  SumFunction(fun) = Cardinality(Together(F, S))
<1> DEFINE Size(s) == Cardinality(Together(F, s))
           c(s) == CHOOSE x \in s : TRUE
<1>1. ASSUME NEW s \in SUBSET S, s # {}
      PROVE  /\ c(s) \in s /\ s \ {c(s)} \in SUBSET S
             /\ Size(s) = fun[c(s)] + Size(s \ {c(s)})
  <2>1. c(s) \in s
    BY <1>1
  <2>2. IsFiniteSet(s) /\ Apart(F, s)
    BY FS_Subset DEF Apart
  <2> HIDE DEF c
  <2>3. Size(s) = Cardinality(F[c(s)]) + Size(s \ {c(s)})
    BY <2>1, <2>2, OnePieceMore
  <2> HIDE DEF Size
  <2> QED BY <2>1, <2>3
<1>2. Size({}) = 0
  BY FS_EmptySet DEF Together
<1> DEFINE w == [s \in SUBSET S |-> Size(s)]
<1>3. SumSpec(fun, S, w)
  <2> SUFFICES ASSUME NEW s \in SUBSET S
               PROVE  w[s] = IF s = {} THEN 0 ELSE fun[c(s)] + w[s \ {c(s)}]
    BY DEF SumSpec
  <2> HIDE DEF Size, c
  <2> QED BY <1>1, <1>2
<1> DEFINE iter == CHOOSE i : SumSpec(fun, S, i)
<1>4. SumSpec(fun, S, iter)
  <2> HIDE DEF w
  <2> QED BY <1>3
<1> HIDE DEF iter
<1>5. ASSUME NEW s \in SUBSET S
      PROVE  iter[s] = IF s = {} THEN 0 ELSE fun[c(s)] + iter[s \ {c(s)}]
  BY <1>4 DEF SumSpec
<1> DEFINE P == {n \in Nat : \A s \in SUBSET S : Cardinality(s) = n => iter[s] = Size(s)}
<1> HIDE DEF Size, c
<1>6. 0 \in P
  <2> SUFFICES ASSUME NEW s \in SUBSET S, Cardinality(s) = 0 PROVE iter[s] = Size(s)
    OBVIOUS
  <2>1. s = {}
    BY FS_Subset, FS_EmptySet
  <2> QED BY <1>2, <1>5, <2>1
<1>7. ASSUME NEW n \in Nat, n \in P PROVE n + 1 \in P
  <2> SUFFICES ASSUME NEW s \in SUBSET S, Cardinality(s) = n + 1 PROVE iter[s] = Size(s)
    OBVIOUS
  <2>1. s # {}
    <3>1. n + 1 # 0
      OBVIOUS
    <3> QED BY <3>1, FS_EmptySet, Zenon
  <2>2. Cardinality(s \ {c(s)}) = n
    <3>1. IsFiniteSet(s) /\ c(s) \in s
      BY <1>1, <2>1, FS_Subset
    <3>2. Cardinality(s \ {c(s)}) = Cardinality(s) - 1
      BY <3>1, FS_RemoveElement, Zenon
    <3> QED BY <3>2
  <2>3. iter[s \ {c(s)}] = Size(s \ {c(s)})
    BY <1>1, <1>7, <2>1, <2>2
  <2> QED BY <1>1, <1>5, <2>1, <2>3
<1>8. Nat \subseteq P
  <2> HIDE DEF P
  <2> QED BY <1>6, <1>7, SetInduction
<1>9. iter[S] = Size(S)
  BY <1>8, FS_CardinalityType
<1>10. SumFunction(fun) = iter[S]
  BY DEF SumFunction, SumFunctionOnSet, FoldFunctionOnSet, MapThenFoldSet, SumSpec, iter
<1> QED BY <1>9, <1>10 DEF Size

-----------------------------------------------------------------------------
\* The free numbers of a bitmap with n places in a group, and those of one group.
IsBitmap(bm, n) == DOMAIN bm = Groups /\ \A g \in Groups : DOMAIN bm[g] = Below(n)
FreeOf(bm, n) == {b \in Below(disk.groups * n) : bm[b \div n][b % n] = FREE}
FreeIn(bm, n, g) == {b \in FreeOf(bm, n) : b \div n = g}

LEMMA GroupsBelow ==
    ASSUME disk \in Disks
    PROVE  /\ Groups = Below(disk.groups) /\ IsFiniteSet(Groups)
           /\ Cardinality(Groups) = disk.groups /\ Groups \subseteq Nat /\ 0 \in Groups
<1>1. Groups = Below(disk.groups)
  BY DEF Groups, Below
<1>2. disk.groups \in Nat \ {0}
  BY DiskSizes
<1> QED BY <1>1, <1>2, AllBelow DEF Below

LEMMA FreeCount ==
    ASSUME disk \in Disks, NEW n \in Nat \ {0}, NEW bm, IsBitmap(bm, n), NEW g \in Groups
    PROVE  /\ get_free_count(bm[g]) = Cardinality(FreeIn(bm, n, g))
           /\ IsFiniteSet(FreeIn(bm, n, g))
           /\ get_free_count(bm[g]) \in Nat /\ get_free_count(bm[g]) <= n
           /\ get_free_count(bm[g]) = 0 <=> \A i \in Below(n) : bm[g][i] # FREE
<1> DEFINE I == {i \in DOMAIN bm[g] : bm[g][i] = FREE}
           m == [i \in I |-> At(n, g, i)]
<1>1. DOMAIN bm[g] = Below(n) /\ disk.groups \in Nat /\ g \in Below(disk.groups)
  BY DiskSizes, GroupsBelow DEF IsBitmap
<1>2. I \subseteq Below(n)
  BY <1>1
<1>3. IsFiniteSet(I) /\ Cardinality(I) \in Nat /\ Cardinality(I) <= n
  <2> HIDE DEF I
  <2> QED BY <1>2, BelowIsFinite
<1>4. \A i \in I : m[i] \in FreeIn(bm, n, g)
  <2> SUFFICES ASSUME NEW i \in I PROVE At(n, g, i) \in FreeIn(bm, n, g)
    OBVIOUS
  <2>1. /\ At(n, g, i) \in Below(disk.groups * n)
        /\ At(n, g, i) \div n = g /\ At(n, g, i) % n = i
    BY <1>1, <1>2, NumberOfPlace
  <2>2. bm[g][i] = FREE
    OBVIOUS
  <2> QED BY <2>1, <2>2 DEF FreeIn, FreeOf
<1>5. \A i, j \in I : m[i] = m[j] => i = j
  BY <1>1, <1>2, PlacesDiffer
<1>6. \A b \in FreeIn(bm, n, g) : \E i \in I : m[i] = b
  <2> SUFFICES ASSUME NEW b \in FreeIn(bm, n, g) PROVE \E i \in I : m[i] = b
    OBVIOUS
  <2>1. b \in Below(disk.groups * n) /\ bm[b \div n][b % n] = FREE /\ b \div n = g
    BY DEF FreeIn, FreeOf
  <2>2. b % n \in Below(n) /\ b = At(n, b \div n, b % n)
    BY <1>1, <2>1, PlaceOfNumber
  <2>3. b % n \in I
    BY <1>1, <2>1, <2>2
  <2> QED BY <2>1, <2>2, <2>3
<1>7. m \in Bijection(I, FreeIn(bm, n, g))
  <2>1. m \in [I -> FreeIn(bm, n, g)]
    BY <1>4
  <2> HIDE DEF I
  <2> QED BY <1>5, <1>6, <2>1 DEF Bijection, Injection, Surjection, IsInjective
<1>8. IsFiniteSet(FreeIn(bm, n, g)) /\ Cardinality(FreeIn(bm, n, g)) = Cardinality(I)
  <2> HIDE DEF I, m
  <2> QED BY <1>3, <1>7, FS_Bijection DEF ExistsBijection
<1>9. Cardinality(I) = 0 <=> \A i \in Below(n) : bm[g][i] # FREE
  <2>1. Cardinality(I) = 0 <=> I = {}
    <3> HIDE DEF I
    <3> QED BY <1>3, FS_EmptySet
  <2> QED BY <1>1, <2>1
<1> QED BY <1>3, <1>8, <1>9 DEF get_free_count

\* do_verify adds up the free places of all groups.
LEMMA TotalFree ==
    ASSUME disk \in Disks, NEW n \in Nat \ {0}, NEW bm, IsBitmap(bm, n)
    PROVE  /\ SumFunction([g \in Groups |-> get_free_count(bm[g])]) = Cardinality(FreeOf(bm, n))
           /\ IsFiniteSet(FreeOf(bm, n))
<1> DEFINE F == [g \in Groups |-> FreeIn(bm, n, g)]
           fun == [g \in Groups |-> get_free_count(bm[g])]
<1>1. disk.groups \in Nat /\ disk.groups * n \in Nat
  BY DiskSizes
<1>2. IsFiniteSet(Groups) /\ Groups = Below(disk.groups)
  BY GroupsBelow
<1>3. Apart(F, Groups)
  <2>1. \A g \in Groups : IsFiniteSet(F[g])
    BY FreeCount
  <2>2. \A g, h \in Groups : g # h => F[g] \cap F[h] = {}
    BY DEF FreeIn
  <2> QED BY <2>1, <2>2 DEF Apart
<1>4. \A g \in Groups : fun[g] = Cardinality(F[g])
  BY FreeCount
<1>5. Together(F, Groups) = FreeOf(bm, n)
  <2>1. \A b \in FreeOf(bm, n) : b \div n \in Groups
    BY <1>1, <1>2, PlaceOfNumber DEF FreeOf
  <2>2. \A b \in FreeOf(bm, n) : b \in F[b \div n]
    BY <2>1 DEF FreeIn
  <2> QED BY <2>1, <2>2 DEF Together, FreeIn
<1>6. SumFunction(fun) = Cardinality(Together(F, Groups))
  <2>1. DOMAIN fun = Groups
    OBVIOUS
  <2> HIDE DEF F, fun
  <2> QED BY <1>2, <1>3, <1>4, <2>1, SumOfSizes
<1>7. IsFiniteSet(FreeOf(bm, n))
  <2> DEFINE all == disk.groups * n
  <2>1. FreeOf(bm, n) \subseteq Below(all)
    BY DEF FreeOf
  <2> HIDE DEF all
  <2> QED BY <1>1, <2>1, BelowIsFinite DEF all
<1> QED BY <1>5, <1>6, <1>7

\* What is not used is free.
LEMMA FreeAndUsed ==
    ASSUME disk \in Disks, NEW n \in Nat \ {0}, NEW bm, NEW Used,
           Used \subseteq Below(disk.groups * n),
           \A b \in Below(disk.groups * n) : bm[b \div n][b % n] = FREE <=> b \notin Used
    PROVE  /\ IsFiniteSet(Used) /\ Cardinality(Used) \in Nat
           /\ Cardinality(FreeOf(bm, n)) = disk.groups * n - Cardinality(Used)
<1> DEFINE all == disk.groups * n
           All == Below(all)
<1>1. all \in Nat
  BY DiskSizes
<1>2. IsFiniteSet(All) /\ Cardinality(All) = all
  <2> HIDE DEF all
  <2> QED BY <1>1, AllBelow
<1>3. FreeOf(bm, n) = All \ Used /\ All \cap Used = Used
  BY DEF FreeOf
<1>4. IsFiniteSet(Used) /\ Cardinality(Used) \in Nat
  <2>1. Used \subseteq All
    OBVIOUS
  <2> HIDE DEF all
  <2> QED BY <1>1, <2>1, BelowIsFinite
<1>5. Cardinality(All \ Used) = Cardinality(All) - Cardinality(All \cap Used)
  <2> HIDE DEF All
  <2> QED BY <1>2, FS_Difference
<1> QED BY <1>2, <1>3, <1>4, <1>5

-----------------------------------------------------------------------------
\* What the books say of the bitmaps and of the counters.
LEMMA LiveIsFinite ==
    ASSUME disk \in Disks, NamesOK
    PROVE  /\ Live \subseteq Inums /\ IsFiniteSet(Live) /\ Cardinality(Live) \in Nat
           /\ 0 \in Live /\ <<>> \in Bound /\ Bound \subseteq Paths
           /\ IsFiniteSet(Bound) /\ Cardinality(Bound) = Cardinality(Live)
<1> DEFINE all == disk.groups * disk.inodes
           m == [p \in Bound |-> name_to_inode_map[p]]
<1>1. all \in Nat
  BY DiskSizes
<1>2. Live \subseteq Below(all) /\ Live \subseteq Inums
  BY DEF NamesOK, Live, Bound, Inums
<1> HIDE DEF all
<1>3. IsFiniteSet(Live) /\ Cardinality(Live) \in Nat
  BY <1>1, <1>2, BelowIsFinite
<1>4. <<>> \in Bound /\ 0 \in Live
  BY FfsAssumption DEF NamesOK, Bound, Live, FfsAssumption
<1>5. m \in Bijection(Bound, Live)
  <2>1. m \in [Bound -> Live]
    BY DEF Live
  <2>2. \A p, q \in Bound : m[p] = m[q] => p = q
    BY DEF NamesOK
  <2>3. \A i \in Live : \E p \in Bound : m[p] = i
    BY DEF Live
  <2> HIDE DEF m
  <2> QED BY <2>1, <2>2, <2>3 DEF Bijection, Injection, Surjection, IsInjective
<1>6. IsFiniteSet(Bound) /\ Cardinality(Bound) = Cardinality(Live)
  <2> HIDE DEF m
  <2>1. m \in Injection(Bound, Live) /\ ExistsBijection(Bound, Live)
    BY <1>5 DEF Bijection, ExistsBijection
  <2>2. IsFiniteSet(Bound)
    BY <1>3, <2>1, FS_Injection
  <2> QED BY <2>1, <2>2, FS_Bijection
<1> QED BY <1>2, <1>3, <1>4, <1>6 DEF Bound

LEMMA DataBooks ==
    ASSUME disk \in Disks, NamesOK, NodesOK, DataBitsOK
    PROVE  /\ IsBitmap(data_bitmap, disk.blocks) /\ Owned \subseteq BlockNumbers
           /\ \A b \in BlockNumbers :
                 data_bitmap[b \div disk.blocks][b % disk.blocks] = FREE <=> b \notin Owned
           /\ \A b \in BlockNumbers, i \in Live :
                 data_bitmap[b \div disk.blocks][b % disk.blocks] = i <=> b \in inodes[i].blocks
           /\ IsFiniteSet(Owned) /\ Cardinality(Owned) \in Nat
           /\ Cardinality(FreeOf(data_bitmap, disk.blocks))
                 = disk.groups * disk.blocks - Cardinality(Owned)
<1>1. disk.groups \in Nat \ {0} /\ disk.blocks \in Nat \ {0}
  BY DiskSizes
<1>2. IsBitmap(data_bitmap, disk.blocks)
  BY DEF IsBitmap, DataBitsOK
<1>3. Owned \subseteq BlockNumbers
  BY DEF Owned, NodesOK
<1>4. \A i \in Live : i # FREE
  BY LiveIsFinite DEF Inums, Below, FREE
<1>5. ASSUME NEW b \in BlockNumbers
      PROVE  /\ data_bitmap[b \div disk.blocks][b % disk.blocks] \in Live \cup {FREE}
             /\ \A i \in Live : data_bitmap[b \div disk.blocks][b % disk.blocks] = i
                                    <=> b \in inodes[i].blocks
  <2>1. /\ b \div disk.blocks \in Groups /\ b % disk.blocks \in Below(disk.blocks)
        /\ b = At(disk.blocks, b \div disk.blocks, b % disk.blocks)
    BY <1>1, PlaceOfNumber, GroupsBelow DEF BlockNumbers
  <2> QED BY <2>1 DEF DataBitsOK
<1>6. ASSUME NEW b \in BlockNumbers
      PROVE  data_bitmap[b \div disk.blocks][b % disk.blocks] = FREE <=> b \notin Owned
  BY <1>4, <1>5 DEF Owned
<1>7. /\ IsFiniteSet(Owned) /\ Cardinality(Owned) \in Nat
      /\ Cardinality(FreeOf(data_bitmap, disk.blocks))
            = disk.groups * disk.blocks - Cardinality(Owned)
  BY <1>1, <1>3, <1>6, FreeAndUsed DEF BlockNumbers
<1> QED BY <1>2, <1>3, <1>5, <1>6, <1>7

LEMMA InodeBooks ==
    ASSUME disk \in Disks, NamesOK, InodeBitsOK
    PROVE  /\ IsBitmap(inode_bitmap, disk.inodes)
           /\ \A g \in Groups, i \in Below(disk.inodes) :
                 inode_bitmap[g][i] = FREE <=> At(disk.inodes, g, i) \notin Live
           /\ Cardinality(FreeOf(inode_bitmap, disk.inodes))
                 = disk.groups * disk.inodes - Cardinality(Live)
<1>1. disk.groups \in Nat \ {0} /\ disk.inodes \in Nat \ {0}
  BY DiskSizes
<1>2. IsBitmap(inode_bitmap, disk.inodes)
  BY DEF IsBitmap, InodeBitsOK
<1>3. \A i \in Live : i # FREE
  BY LiveIsFinite DEF Inums, Below, FREE
<1>4. \A g \in Groups, i \in Below(disk.inodes) :
         inode_bitmap[g][i] = IF At(disk.inodes, g, i) \in Live THEN At(disk.inodes, g, i) ELSE FREE
  BY DEF InodeBitsOK
<1>5. \A g \in Groups, i \in Below(disk.inodes) :
         inode_bitmap[g][i] = FREE <=> At(disk.inodes, g, i) \notin Live
  BY <1>3, <1>4
<1>6. ASSUME NEW b \in Inums
      PROVE  inode_bitmap[b \div disk.inodes][b % disk.inodes] = FREE <=> b \notin Live
  <2>1. /\ b \div disk.inodes \in Groups /\ b % disk.inodes \in Below(disk.inodes)
        /\ b = At(disk.inodes, b \div disk.inodes, b % disk.inodes)
    BY <1>1, PlaceOfNumber, GroupsBelow DEF Inums
  <2> QED BY <1>5, <2>1
<1>7. Live \subseteq Inums
  BY LiveIsFinite
<1>8. Cardinality(FreeOf(inode_bitmap, disk.inodes))
         = disk.groups * disk.inodes - Cardinality(Live)
  BY <1>1, <1>6, <1>7, FreeAndUsed DEF Inums
<1> QED BY <1>2, <1>5, <1>8

\* do_verify finds nothing wrong with such books.
LEMMA BooksVerify == disk \in Disks /\ Books => do_verify
<1> SUFFICES ASSUME disk \in Disks, Books PROVE do_verify
  OBVIOUS
<1>1. NamesOK /\ NodesOK /\ InodeBitsOK /\ DataBitsOK /\ CountersOK
  BY DEF Books
<1>2. disk.groups \in Nat \ {0} /\ disk.blocks \in Nat \ {0} /\ disk.inodes \in Nat \ {0}
  BY DiskSizes
<1> DEFINE data == SumFunction([g \in Groups |-> get_free_count(data_bitmap[g])])
           nodes == SumFunction([g \in Groups |-> get_free_count(inode_bitmap[g])])
<1>3. data = disk.groups * disk.blocks - Cardinality(Owned) /\ Cardinality(Owned) \in Nat
  BY <1>1, <1>2, DataBooks, TotalFree
<1>4. nodes = disk.groups * disk.inodes - Cardinality(Live) /\ Cardinality(Live) \in Nat
  BY <1>1, <1>2, InodeBooks, LiveIsFinite, TotalFree
<1>5. total_data_free = data /\ total_inodes_free = nodes
  BY <1>1, <1>3, <1>4 DEF CountersOK
<1>6. ASSUME NEW p \in Bound, NEW b \in inodes[name_to_inode_map[p]].blocks
      PROVE  data_bitmap[b \div disk.blocks][b % disk.blocks] = name_to_inode_map[p]
  <2>1. name_to_inode_map[p] \in Live
    BY DEF Live
  <2>2. b \in BlockNumbers
    BY <1>1, <2>1 DEF NodesOK
  <2> QED BY <1>1, <2>1, <2>2, DataBooks
<1> HIDE DEF data, nodes
<1>7. /\ (disk.groups * disk.blocks - data) + total_data_free = disk.groups * disk.blocks
      /\ (disk.groups * disk.inodes - nodes) + total_inodes_free = disk.groups * disk.inodes
  <2>1. data \in Int /\ nodes \in Int /\ disk.groups * disk.blocks \in Int /\ disk.groups * disk.inodes \in Int
    BY <1>2, <1>3, <1>4
  <2> QED BY <1>5, <2>1
<1> QED BY <1>6, <1>7, Zenon DEF do_verify, data, nodes

\* They are what BooksBalance asks for: dump and -T find what they look for.
LEMMA BooksBalanced ==
    ASSUME disk \in Disks, Books
    PROVE  BooksBalance
<1>1. NamesOK /\ NodesOK /\ TreeOK /\ InodeBitsOK /\ DataBitsOK /\ CountersOK
  BY DEF Books
<1>2. disk.groups \in Nat \ {0} /\ disk.blocks \in Nat \ {0} /\ disk.inodes \in Nat \ {0}
  BY DiskSizes
<1>3. Cardinality(Live) = Cardinality(Bound)
  BY <1>1, LiveIsFinite
<1>4. \A g \in Groups, i \in 0 .. disk.inodes - 1 :
         inode_bitmap[g][i] = IF g * disk.inodes + i \in Live THEN g * disk.inodes + i ELSE FREE
  BY <1>1 DEF InodeBitsOK, Below, At
<1>5. \A i \in Live, b \in Owned :
         b \in inodes[i].blocks <=> data_bitmap[b \div disk.blocks][b % disk.blocks] = i
  BY <1>1, DataBooks
<1>6. SpansAreFound
  <2>1. \A p \in Bound : name_to_inode_map[p] \in Live
    BY DEF Live
  <2>2. ASSUME NEW p \in Bound \ Regular, NEW e \in dir_data[name_to_inode_map[p]]
        PROVE  \/ inodes[e.inode].type = "directory"
               \/ \E q \in Regular : name_to_inode_map[q] = e.inode
    <3>1. inodes[name_to_inode_map[p]].type \in {"regular", "directory"}
      BY <1>1, <2>1 DEF NodesOK
    <3>2. p \in Directories
      BY <3>1 DEF Regular, Directories
    <3>3. PICK q \in Children(p) : e = Entry(Last(q), name_to_inode_map[q])
      BY <1>1, <3>2 DEF TreeOK
    <3>4. q \in Bound /\ e.inode = name_to_inode_map[q]
      BY <3>3 DEF Children, Entry
    <3>5. inodes[name_to_inode_map[q]].type \in {"regular", "directory"}
      BY <1>1, <2>1, <3>4 DEF NodesOK
    <3> QED BY <3>4, <3>5 DEF Regular
  <2>3. \A p, q \in Regular : p # q => name_to_inode_map[p] # name_to_inode_map[q]
    BY <1>1 DEF NamesOK, Regular
  <2> QED BY <2>2, <2>3 DEF SpansAreFound
<1>7. SymbolsAreFound
  <2>1. symbol_map = Live
    BY <1>1 DEF CountersOK
  <2>2. ASSUME NEW g \in Groups
        PROVE  {data_bitmap[g][i] : i \in DOMAIN data_bitmap[g]}
                  \cup {inode_bitmap[g][i] : i \in DOMAIN inode_bitmap[g]} \subseteq Live \cup {FREE}
    <3>1. \A i \in DOMAIN data_bitmap[g] : data_bitmap[g][i] \in Live \cup {FREE}
      BY <1>1 DEF DataBitsOK
    <3>2. \A i \in DOMAIN inode_bitmap[g] : inode_bitmap[g][i] \in Live \cup {FREE}
      BY <1>1 DEF InodeBitsOK
    <3> QED BY <3>1, <3>2
  <2> QED BY <2>1, <2>2 DEF SymbolsAreFound, Live
<1> QED BY <1>1, <1>3, <1>4, <1>5, <1>6, <1>7, Zenon DEF BooksBalance, CountersOK, Live, Owned

-----------------------------------------------------------------------------
\* The choice of a group.  Free inodes of the groups from one on are counted.
LEMMA RangeCount ==
    ASSUME disk \in Disks, IsBitmap(inode_bitmap, disk.inodes),
           NEW group \in Groups, NEW how_many \in Nat \ {0}
    PROVE  /\ find_free_inodes_in_range(group, how_many) \in Nat
           /\ how_many = 1 =>
                 find_free_inodes_in_range(group, how_many) = get_free_count(inode_bitmap[group])
<1> DEFINE S == 0 .. how_many - 1
           G(k) == (group + k) % disk.groups
           Free(k) == FreeIn(inode_bitmap, disk.inodes, G(k))
           F == [k \in S |-> {k} \X Free(k)]
           fun == [k \in S |-> get_free_count(inode_bitmap[G(k)])]
<1>1. disk.groups \in Nat \ {0} /\ disk.inodes \in Nat \ {0} /\ group \in Below(disk.groups)
  BY DiskSizes, GroupsBelow
<1>2. \A k \in S : G(k) \in Groups
  <2> SUFFICES ASSUME NEW k \in S PROVE G(k) \in Groups
    OBVIOUS
  <2>1. group + k \in Int
    BY <1>1 DEF Below
  <2>2. G(k) \in 0 .. disk.groups - 1
    BY <1>1, <2>1, DivModFact
  <2> QED BY <2>2 DEF Groups
<1>3. IsFiniteSet(S)
  BY FS_Interval
<1> HIDE DEF G
<1>4. ASSUME NEW k \in S
      PROVE  /\ IsFiniteSet(F[k]) /\ fun[k] = Cardinality(F[k])
             /\ Cardinality(F[k]) = get_free_count(inode_bitmap[G(k)])
  <2>1. IsFiniteSet(Free(k)) /\ get_free_count(inode_bitmap[G(k)]) = Cardinality(Free(k))
        /\ get_free_count(inode_bitmap[G(k)]) \in Nat
    BY <1>1, <1>2, FreeCount
  <2> HIDE DEF Free
  <2>2. IsFiniteSet({k}) /\ Cardinality({k}) = 1
    BY FS_Singleton
  <2>3. IsFiniteSet({k} \X Free(k)) /\ Cardinality({k} \X Free(k)) = 1 * Cardinality(Free(k))
    BY <2>1, <2>2, FS_Product
  <2> QED BY <2>1, <2>3
<1>5. Apart(F, S)
  <2>1. \A k, l \in S : k # l => F[k] \cap F[l] = {}
    OBVIOUS
  <2> HIDE DEF F, S
  <2> QED BY <1>4, <2>1 DEF Apart
<1>6. SumFunction(fun) = Cardinality(Together(F, S)) /\ IsFiniteSet(Together(F, S))
  <2>1. DOMAIN fun = S
    OBVIOUS
  <2>2. IsFiniteSet({F[k] : k \in S})
    <3> HIDE DEF F, S
    <3> QED BY <1>3, ValuesAreFinite
  <2>3. \A T \in {F[k] : k \in S} : IsFiniteSet(T)
    BY <1>4
  <2> HIDE DEF F, fun, S
  <2>4. IsFiniteSet(Together(F, S))
    BY <2>2, <2>3, FS_UNION DEF Together
  <2> QED BY <1>3, <1>4, <1>5, <2>1, <2>4, SumOfSizes
<1>7. find_free_inodes_in_range(group, how_many) = SumFunction(fun)
  BY DEF find_free_inodes_in_range, G
<1>8. ASSUME how_many = 1
      PROVE  SumFunction(fun) = get_free_count(inode_bitmap[group])
  <2>1. S = {0}
    BY <1>8
  <2>2. Together(F, S) = F[0]
    BY <2>1 DEF Together
  <2>3. G(0) = group
    <3>1. group + 0 = group /\ group % disk.groups = group
      BY <1>1, Wrap DEF Below
    <3> QED BY <3>1 DEF G
  <2> HIDE DEF F, fun
  <2> QED BY <1>4, <1>6, <2>1, <2>2, <2>3
<1> HIDE DEF fun, F, S
<1> QED BY <1>6, <1>7, <1>8, FS_CardinalityType

\* find_free_inodes_near meets every other group.
LEMMA NearMeetsAll ==
    ASSUME disk \in Disks, NEW t \in Groups
    PROVE  /\ \A i \in 0 .. disk.groups - 2 : Near(t, i) \in Groups
           /\ \A h \in Groups \ {t} : \E i \in 0 .. disk.groups - 2 : Near(t, i) = h
<1> DEFINE G == disk.groups
<1>1. G \in Nat \ {0} /\ Groups = 0 .. G - 1
  BY DiskSizes DEF Groups
<1>2. ASSUME NEW i \in 0 .. G - 2 PROVE Near(t, i) \in Groups
  <2>1. i \div 2 \in Int
    BY DivModFact
  <2>2. t + 1 + i \div 2 \in Int /\ t - 1 - i \div 2 \in Int
    BY <1>1, <2>1
  <2> HIDE DEF G
  <2>3. (t + 1 + i \div 2) % G \in 0 .. G - 1 /\ (t - 1 - i \div 2) % G \in 0 .. G - 1
    BY <1>1, <2>2, DivModFact
  <2> QED BY <1>1, <2>3 DEF Near, G
<1>3. ASSUME NEW h \in Groups, h # t PROVE \E i \in 0 .. G - 2 : Near(t, i) = h
  <2> HIDE DEF G
  <2> DEFINE a == IF h > t THEN h - t ELSE h - t + G
  <2>1. a \in 1 .. G - 1 /\ a \in Int
    BY <1>1, <1>3
  <2>2. t + a \in -G .. 2 * G - 1 /\ (t + a = h \/ t + a = h + G)
    BY <1>1
  <2>3. (t + a) % G = h
    BY <1>1, <2>2, Wrap
  <2>4. t - (G - a) \in -G .. 2 * G - 1 /\ (t - (G - a) = h \/ t - (G - a) = h - G)
    BY <1>1, <2>1
  <2>5. (t - (G - a)) % G = h
    BY <1>1, <2>4, Wrap
  <2> HIDE DEF a
  <2>6. CASE 2 * a <= G
    <3> DEFINE i == 2 * (a - 1)
    <3>1. i \in 0 .. G - 2
      BY <1>1, <2>1, <2>6
    <3>2. i % 2 = 0 /\ i \div 2 = a - 1
      BY <2>1, DivModUnique, i = 2 * (a - 1) + 0, 2 \in Nat \ {0}
    <3> HIDE DEF i
    <3>3. t + 1 + i \div 2 = t + a
      BY <1>1, <2>1, <3>2
    <3>4. Near(t, i) = (t + a) % G
      BY <3>2, <3>3 DEF Near, G
    <3> QED BY <2>3, <3>1, <3>4
  <2>7. CASE ~(2 * a <= G)
    <3> DEFINE i == 2 * (G - a - 1) + 1
    <3>1. i \in 0 .. G - 2
      BY <1>1, <2>1, <2>7
    <3>2. i % 2 = 1 /\ i \div 2 = G - a - 1
      BY <1>1, <2>1, DivModUnique, 2 \in Nat \ {0}
    <3> HIDE DEF i
    <3>3. t - 1 - i \div 2 = t - (G - a)
      BY <1>1, <2>1, <3>2
    <3>4. Near(t, i) = (t - (G - a)) % G
      BY <3>2, <3>3 DEF Near, G
    <3> QED BY <2>5, <3>1, <3>4
  <2> QED BY <2>6, <2>7
<1> QED BY <1>2, <1>3

\* While an inode is free the group that is picked exists, and has a free inode
\* if groups are looked at one by one.
LEMMA PickedGroup ==
    ASSUME disk \in Disks, NamesOK, InodeBitsOK, CountersOK, total_inodes_free # 0,
           NEW parent \in Bound, NEW type
    PROVE  /\ pick_group(parent, type) \in Groups
           /\ disk.faraway = 1 => get_free_count(inode_bitmap[pick_group(parent, type)]) > 0
<1> DEFINE free(g) == get_free_count(inode_bitmap[g])
<1>1. /\ disk.groups \in Nat \ {0} /\ disk.inodes \in Nat \ {0} /\ disk.faraway \in Nat \ {0}
      /\ IsBitmap(inode_bitmap, disk.inodes)
  BY DiskSizes, InodeBooks
<1>2. \A g \in Groups : free(g) \in Nat
  BY <1>1, FreeCount
<1>3. PICK g0 \in Groups : free(g0) > 0
  <2>1. Cardinality(FreeOf(inode_bitmap, disk.inodes)) # 0
    BY InodeBooks DEF CountersOK
  <2>2. FreeOf(inode_bitmap, disk.inodes) # {}
    BY <2>1, FS_EmptySet
  <2>3. PICK b \in Inums : inode_bitmap[b \div disk.inodes][b % disk.inodes] = FREE
    BY <2>2 DEF FreeOf, Inums
  <2>4. b \div disk.inodes \in Groups /\ b % disk.inodes \in Below(disk.inodes)
    BY <1>1, PlaceOfNumber, GroupsBelow DEF Inums
  <2>5. free(b \div disk.inodes) # 0 /\ free(b \div disk.inodes) \in Nat
    BY <1>1, <2>3, <2>4, FreeCount
  <2> QED BY <2>4, <2>5
<1> HIDE DEF free
<1> DEFINE target == GroupOf(name_to_inode_map[parent])
           most == find_most_free_inodes_multiple(disk.faraway)
<1>4. target \in Groups
  <2>1. name_to_inode_map[parent] \in Inums
    BY LiveIsFinite DEF Live
  <2> QED BY <1>1, <2>1, PlaceOfNumber, GroupsBelow DEF Inums, GroupOf
<1>5. most \in Groups /\ (disk.faraway = 1 => free(most) > 0)
  <2> DEFINE S == {h \in Groups : h % disk.faraway = 0}
             f == [g \in S |-> find_free_inodes_in_range(g, disk.faraway)]
  <2>1. S \subseteq Nat /\ S # {} /\ IsFiniteSet(S)
    <3>1. 0 % disk.faraway = 0
      BY <1>1, Wrap
    <3>2. IsFiniteSet(Groups) /\ Groups \subseteq Nat /\ 0 \in Groups
      BY GroupsBelow
    <3> QED BY <3>1, <3>2, FS_Subset
  <2>2. f \in [S -> Nat]
    BY <1>1, RangeCount
  <2>3. most = FirstMax(f)
    BY DEF find_most_free_inodes_multiple
  <2>4. FirstMax(f) \in S /\ \A h \in S : f[h] <= f[FirstMax(f)]
    <3> HIDE DEF S, f
    <3> QED BY <2>1, <2>2, FirstMaxIsGreatest
  <2>5. ASSUME disk.faraway = 1 PROVE free(most) > 0
    <3>1. \A h \in Groups : h \in S /\ f[h] = free(h)
      <4> SUFFICES ASSUME NEW h \in Groups PROVE h \in S /\ f[h] = free(h)
        OBVIOUS
      <4>1. h \in Nat
        BY GroupsBelow
      <4>2. h % 1 = 0
        BY <4>1, DivModFact
      <4>3. find_free_inodes_in_range(h, 1) = free(h)
        BY <1>1, RangeCount DEF free
      <4> QED BY <2>5, <4>2, <4>3
    <3> HIDE DEF f, S
    <3>2. free(g0) <= free(most) /\ most \in Groups
      BY <2>3, <2>4, <3>1 DEF S
    <3> QED BY <1>2, <1>3, <3>2
  <2> QED BY <2>3, <2>4, <2>5
<1>6. ASSUME ~(free(target) > 0)
      PROVE  find_free_inodes_near(target) \in Groups /\ free(find_free_inodes_near(target)) > 0
  <2> DEFINE found == {i \in 0 .. disk.groups - 2 : free(Near(target, i)) > 0}
  <2>1. g0 \in Groups \ {target}
    BY <1>3, <1>6
  <2>2. found # {} /\ found \subseteq Nat
    <3>1. PICK i \in 0 .. disk.groups - 2 : Near(target, i) = g0
      BY <1>4, <2>1, NearMeetsAll
    <3> QED BY <1>3, <3>1
  <2>3. Min(found) \in found
    <3> HIDE DEF found
    <3> QED BY <2>2, MinIsLeast
  <2>4. find_free_inodes_near(target) = Near(target, Min(found))
    <3>1. found = {i \in 0 .. disk.groups - 2 : get_free_count(inode_bitmap[Near(target, i)]) > 0}
      BY DEF free
    <3> HIDE DEF found
    <3> QED BY <2>2, <3>1 DEF find_free_inodes_near
  <2>5. Near(target, Min(found)) \in Groups
    BY <1>4, <2>3, NearMeetsAll
  <2> QED BY <2>3, <2>4, <2>5
<1> HIDE DEF target, most
<1>7. pick_group(parent, type) \in {most, target, find_free_inodes_near(target)}
      /\ pick_group(parent, type) = IF type = "directory" \/ disk.spreadInodes THEN most
                                    ELSE IF free(target) > 0 THEN target
                                    ELSE find_free_inodes_near(target)
  BY DEF pick_group, free, target, most
<1> QED BY <1>4, <1>5, <1>6, <1>7 DEF free

\* The first free inode of a group.
LEMMA FoundInode ==
    ASSUME disk \in Disks, IsBitmap(inode_bitmap, disk.inodes), NEW group \in Groups
    PROVE  /\ find_free_inode(group) # -1 =>
                 /\ find_free_inode(group) \in Below(disk.inodes)
                 /\ inode_bitmap[group][find_free_inode(group)] = FREE
           /\ get_free_count(inode_bitmap[group]) > 0 => find_free_inode(group) # -1
<1> DEFINE free == {i \in DOMAIN inode_bitmap[group] : inode_bitmap[group][i] = FREE}
<1>1. disk.inodes \in Nat \ {0} /\ DOMAIN inode_bitmap[group] = Below(disk.inodes)
  BY DiskSizes DEF IsBitmap
<1>2. free \subseteq Below(disk.inodes) /\ free \subseteq Nat
  BY <1>1 DEF Below
<1>3. free # {} => Min(free) \in free
  <2> HIDE DEF free
  <2> QED BY <1>2, MinIsLeast
<1>4. get_free_count(inode_bitmap[group]) > 0 => free # {}
  BY <1>1, FreeCount
<1>5. find_free_inode(group) = IF free = {} THEN -1 ELSE Min(free)
  BY DEF find_free_inode
<1>6. free # {} => Min(free) # -1
  BY <1>2, <1>3
<1>7. \A i \in free : inode_bitmap[group][i] = FREE
  OBVIOUS
<1> HIDE DEF free
<1> QED BY <1>2, <1>3, <1>4, <1>5, <1>6, <1>7

\* The group with most free blocks, if there is a free block.
LEMMA MinDataUsage ==
    ASSUME disk \in Disks, NamesOK, NodesOK, DataBitsOK, CountersOK
    PROVE  /\ find_min_data_usage \in Groups \cup {-1}
           /\ total_data_free > 0 => find_min_data_usage \in Groups
<1> DEFINE free == [g \in Groups |-> get_free_count(data_bitmap[g])]
<1>1. /\ disk.groups \in Nat \ {0} /\ disk.blocks \in Nat \ {0}
      /\ IsBitmap(data_bitmap, disk.blocks)
  BY DiskSizes, DataBooks
<1>2. free \in [Groups -> Nat]
  BY <1>1, FreeCount
<1>3. IsFiniteSet(Groups) /\ Groups \subseteq Nat /\ Groups # {}
  BY GroupsBelow
<1>4. FirstMax(free) \in Groups /\ \A h \in Groups : free[h] <= free[FirstMax(free)]
  <2> HIDE DEF free
  <2> QED BY <1>2, <1>3, FirstMaxIsGreatest
<1>5. find_min_data_usage = IF free[FirstMax(free)] = 0 THEN -1 ELSE FirstMax(free)
  BY DEF find_min_data_usage
<1>6. ASSUME total_data_free > 0 PROVE \E g \in Groups : free[g] # 0
  <2>1. Cardinality(FreeOf(data_bitmap, disk.blocks)) # 0
    BY <1>6, DataBooks DEF CountersOK
  <2>2. FreeOf(data_bitmap, disk.blocks) # {}
    BY <2>1, FS_EmptySet
  <2>3. PICK b \in BlockNumbers : data_bitmap[b \div disk.blocks][b % disk.blocks] = FREE
    BY <2>2 DEF FreeOf, BlockNumbers
  <2>4. b \div disk.blocks \in Groups /\ b % disk.blocks \in Below(disk.blocks)
    BY <1>1, <2>3, PlaceOfNumber, GroupsBelow DEF BlockNumbers
  <2>5. free[b \div disk.blocks] # 0
    BY <1>1, <2>3, <2>4, FreeCount
  <2> QED BY <2>4, <2>5
<1> HIDE DEF free
<1> QED BY <1>2, <1>4, <1>5, <1>6

-----------------------------------------------------------------------------
\* The loop of allocate_blocks: its states, and one turn of it.
LoopStates ==
    [bitmap : [Groups -> [Below(disk.blocks) -> Int]], target : Int, group : Groups,
     index : Below(disk.blocks), in_group : Nat, chunks_free : Nat \ {0},
     allocated : SUBSET BlockNumbers, end : {"no", "done", "assert"}]
FirstState(target) ==
    [bitmap |-> data_bitmap, target |-> target, group |-> target % disk.groups,
     index |-> 0, in_group |-> 0, chunks_free |-> disk.contig,
     allocated |-> {}, end |-> "no"]
Later(s, size, number) == IF s.end = "no" THEN Turn(s, size, number) ELSE s

\* What a turn looks at.
Takes(s, size) ==
    range_free(s.bitmap[s.group], s.index, size - Cardinality(s.allocated), s.chunks_free)
Here(s) == At(disk.blocks, s.group, s.index)
InGroup(s, size) == IF Takes(s, size) THEN s.in_group + 1 ELSE s.in_group
Moves(s, size) ==
    s.index + 1 = disk.blocks \/ (disk.large > 0 /\ InGroup(s, size) = disk.large)

LEMMA TurnFields ==
    ASSUME disk \in Disks, NEW s \in LoopStates, NEW size \in Nat, NEW number \in Int
    PROVE  LET t == Turn(s, size, number)
               next == (s.group + 1) % disk.groups
           IN  /\ t.bitmap = IF Takes(s, size)
                             THEN [s.bitmap EXCEPT ![s.group] = [@ EXCEPT ![s.index] = number]]
                             ELSE s.bitmap
               /\ t.target = s.target
               /\ t.group = IF Moves(s, size) THEN next ELSE s.group
               /\ t.index = IF Moves(s, size) THEN 0 ELSE s.index + 1
               /\ t.in_group = IF Moves(s, size) THEN 0 ELSE InGroup(s, size)
               /\ t.chunks_free = IF Moves(s, size) /\ next = s.target THEN 1 ELSE s.chunks_free
               /\ t.allocated = IF Takes(s, size) THEN s.allocated \cup {Here(s)} ELSE s.allocated
               /\ t.end = IF Takes(s, size) /\ s.bitmap[s.group][s.index] # FREE THEN "assert"
                          ELSE IF Cardinality(t.allocated) = size THEN "done" ELSE "no"
               /\ t \in LoopStates
<1> DEFINE t == Turn(s, size, number)
           next == (s.group + 1) % disk.groups
<1>1. /\ s.bitmap \in [Groups -> [Below(disk.blocks) -> Int]] /\ s.group \in Groups
      /\ s.index \in Below(disk.blocks) /\ s.in_group \in Nat /\ s.allocated \subseteq BlockNumbers
      /\ s.target \in Int /\ s.chunks_free \in Nat \ {0}
  BY DEF LoopStates
<1>2. s = [bitmap |-> s.bitmap, target |-> s.target, group |-> s.group, index |-> s.index,
           in_group |-> s.in_group, chunks_free |-> s.chunks_free,
           allocated |-> s.allocated, end |-> s.end]
  BY DEF LoopStates
<1>3. /\ t.bitmap = IF Takes(s, size)
                    THEN [s.bitmap EXCEPT ![s.group] = [@ EXCEPT ![s.index] = number]]
                    ELSE s.bitmap
      /\ t.target = s.target
      /\ t.group = IF Moves(s, size) THEN next ELSE s.group
      /\ t.index = IF Moves(s, size) THEN 0 ELSE s.index + 1
      /\ t.in_group = IF Moves(s, size) THEN 0 ELSE InGroup(s, size)
      /\ t.chunks_free = IF Moves(s, size) /\ next = s.target THEN 1 ELSE s.chunks_free
      /\ t.allocated = IF Takes(s, size) THEN s.allocated \cup {Here(s)} ELSE s.allocated
      /\ t.end = IF Takes(s, size) /\ s.bitmap[s.group][s.index] # FREE THEN "assert"
                 ELSE IF Cardinality(t.allocated) = size THEN "done" ELSE "no"
  BY <1>1, <1>2 DEF Turn, Takes, Moves, InGroup, Here, At, CountInGroup
<1> DEFINE taken == range_free(s.bitmap[s.group], s.index, size - Cardinality(s.allocated), s.chunks_free)
           bitmap == IF taken THEN [s.bitmap EXCEPT ![s.group][s.index] = number] ELSE s.bitmap
           allocated == s.allocated \cup (IF taken THEN {s.group * disk.blocks + s.index} ELSE {})
           in_group == s.in_group + (IF taken THEN 1 ELSE 0)
           moves_on == s.index + 1 = disk.blocks \/ (disk.large > 0 /\ in_group = disk.large)
           group == IF moves_on THEN (s.group + 1) % disk.groups ELSE s.group
           end == IF taken /\ s.bitmap[s.group][s.index] # FREE THEN "assert"
                  ELSE IF Cardinality(allocated) = size THEN "done" ELSE "no"
           index == IF moves_on THEN 0 ELSE s.index + 1
           count == CountInGroup(in_group, moves_on)
           chunks == IF moves_on /\ group = s.target THEN 1 ELSE s.chunks_free
<1>4. t = [s EXCEPT !.bitmap = bitmap, !.allocated = allocated, !.end = end, !.index = index,
                    !.in_group = count, !.group = group, !.chunks_free = chunks]
  BY DEF Turn
<1>5. /\ disk.groups \in Nat \ {0} /\ disk.blocks \in Nat \ {0}
      /\ Groups = Below(disk.groups) /\ Groups \subseteq Nat
  BY DiskSizes, GroupsBelow
<1>6. next \in Groups
  <2>1. s.group + 1 \in Int
    BY <1>1, <1>5
  <2>2. next \in 0 .. disk.groups - 1
    BY <1>5, <2>1, DivModFact
  <2> QED BY <1>5, <2>2 DEF Below
<1>7. Here(s) \in BlockNumbers
  BY <1>1, <1>5, NumberOfPlace DEF Here, BlockNumbers
<1> HIDE DEF t, next
<1>8. /\ t.bitmap \in [Groups -> [Below(disk.blocks) -> Int]] /\ t.group \in Groups
      /\ t.target \in Int /\ t.chunks_free \in Nat \ {0} /\ t.allocated \subseteq BlockNumbers
      /\ t.in_group \in Nat /\ t.end \in {"no", "done", "assert"}
  <2>1. t.bitmap \in [Groups -> [Below(disk.blocks) -> Int]]
    BY <1>1, <1>3
  <2>2. t.in_group \in Nat
    BY <1>1, <1>3 DEF InGroup
  <2> QED BY <1>1, <1>3, <1>6, <1>7, <2>1, <2>2
<1>9. t.index \in Below(disk.blocks)
  <2>1. s.index + 1 # disk.blocks => s.index + 1 \in Below(disk.blocks)
    BY <1>1, <1>5 DEF Below
  <2>2. 0 \in Below(disk.blocks)
    BY <1>5 DEF Below
  <2> QED BY <1>3, <2>1, <2>2 DEF Moves
<1>10. t \in LoopStates
  BY <1>4, <1>8, <1>9 DEF LoopStates
<1> QED BY <1>3, <1>10 DEF t, next

LEMMA FirstStateIs ==
    ASSUME disk \in Disks, IsBitmap(data_bitmap, disk.blocks), NEW target \in Int,
           data_bitmap \in [Groups -> [Below(disk.blocks) -> Int]]
    PROVE  FirstState(target) \in LoopStates
<1>1. /\ disk.groups \in Nat \ {0} /\ disk.blocks \in Nat \ {0} /\ disk.contig \in Nat \ {0}
      /\ Groups = Below(disk.groups)
  BY DiskSizes, GroupsBelow
<1>2. target % disk.groups \in Groups /\ 0 \in Below(disk.blocks)
  <2>1. target % disk.groups \in 0 .. disk.groups - 1
    BY <1>1, DivModFact
  <2> QED BY <1>1, <2>1 DEF Below
<1> QED BY <1>1, <1>2 DEF FirstState, LoopStates

\* The states of the loop, turn after turn.
IsLoop(f, target, size, number) ==
    /\ f \in [0 .. MaxTurns(size) -> LoopStates]
    /\ f[0] = FirstState(target)
    /\ \A k \in 1 .. MaxTurns(size) : f[k] = Later(f[k - 1], size, number)

LEMMA LoopExists ==
    ASSUME disk \in Disks, data_bitmap \in [Groups -> [Below(disk.blocks) -> Int]],
           NEW target \in Int, NEW size \in Nat, NEW number \in Int
    PROVE  /\ MaxTurns(size) \in Nat
           /\ \E f : IsLoop(f, target, size, number)
                       /\ allocate_blocks(target, size, number) = f[MaxTurns(size)]
<1> DEFINE n == MaxTurns(size)
           IsList(g) == g = [k \in 0 .. n |->
               IF k = 0 THEN FirstState(target)
               ELSE LET s == g[k - 1] IN IF s.end = "no" THEN Turn(s, size, number) ELSE s]
           next == [x \in (1 .. n) \X LoopStates |-> Later(x[2], size, number)]
<1>1. n \in Nat
  <2>1. /\ disk.groups \in Nat /\ disk.blocks \in Nat
    BY DiskSizes
  <2>2. (size + 1) * disk.groups \in Nat
    BY <2>1
  <2> QED BY <2>1, <2>2 DEF MaxTurns
<1>2. FirstState(target) \in LoopStates
  BY FirstStateIs DEF IsBitmap
<1>3. \A s \in LoopStates : Later(s, size, number) \in LoopStates
  BY TurnFields DEF Later
<1>4. \A k \in 1 .. n, s \in LoopStates : next[<<k, s>>] = Later(s, size, number)
  OBVIOUS
<1>5. StaysIn(LoopStates, n, next)
  <2> HIDE DEF next, n
  <2> QED BY <1>3, <1>4 DEF StaysIn
<1> HIDE DEF n, next
<1>6. Computed(LoopStates, FirstState(target), n, next)
  BY <1>1, <1>2, <1>5, Recursion
<1>7. PICK f \in [0 .. n -> LoopStates] :
          f[0] = FirstState(target) /\ \A k \in 1 .. n : f[k] = next[<<k, f[k - 1]>>]
  BY <1>6 DEF Computed
<1>8. \A k \in 1 .. n : f[k] = Later(f[k - 1], size, number)
  <2> TAKE k \in 1 .. n
  <2>1. k - 1 \in 0 .. n
    BY <1>1
  <2> QED BY <1>4, <1>7, <2>1
<1>9. IsList(f)
  <2>1. \A k \in 0 .. n : k # 0 => k \in 1 .. n
    BY <1>1
  <2>2. f = [k \in 0 .. n |-> IF k = 0 THEN FirstState(target) ELSE Later(f[k - 1], size, number)]
    BY <1>7, <1>8, <2>1
  <2> QED BY <2>2 DEF Later
<1> DEFINE h == CHOOSE g : IsList(g)
<1>10. IsList(h)
  BY <1>9
<1>11. allocate_blocks(target, size, number) = h[n]
  BY DEF allocate_blocks, FirstState, n
<1>12. IsLoop(h, target, size, number)
  <2> HIDE DEF h
  <2> DEFINE Q == {k \in Nat : k <= n => h[k] = f[k]}
  <2>1. \A k \in 0 .. n : h[k] = IF k = 0 THEN FirstState(target) ELSE Later(h[k - 1], size, number)
    BY <1>10 DEF Later
  <2>2. 0 \in Q
    BY <1>1, <1>7, <2>1
  <2>3. ASSUME NEW k \in Nat, k \in Q PROVE k + 1 \in Q
    <3> SUFFICES ASSUME k + 1 <= n PROVE h[k + 1] = f[k + 1]
      OBVIOUS
    <3>1. k + 1 \in 0 .. n /\ k + 1 # 0 /\ (k + 1) - 1 = k /\ k + 1 \in 1 .. n /\ k <= n
      BY <1>1
    <3>2. h[k] = f[k]
      BY <2>3, <3>1
    <3> QED BY <1>8, <2>1, <3>1, <3>2
  <2>4. Nat \subseteq Q
    <3> HIDE DEF Q
    <3> QED BY <2>2, <2>3, SetInduction
  <2>5. \A k \in 0 .. n : h[k] = f[k]
    BY <1>1, <2>4
  <2>6. h = [k \in 0 .. n |-> f[k]]
    BY <1>7, <1>9, <1>10, <2>5
  <2>7. h = f
    BY <1>7, <2>6
  <2> QED BY <1>7, <1>8, <2>7 DEF IsLoop, n
<1> HIDE DEF h
<1> QED BY <1>1, <1>11, <1>12 DEF n

\* What holds at first and stays from one turn to the next always holds.
LEMMA LoopInduction ==
    ASSUME NEW f, NEW target, NEW size, NEW number, IsLoop(f, target, size, number),
           MaxTurns(size) \in Nat, NEW R, <<0, FirstState(target)>> \in R,
           \A k \in Nat, s \in LoopStates : <<k, s>> \in R => <<k + 1, Later(s, size, number)>> \in R
    PROVE  \A k \in 0 .. MaxTurns(size) : f[k] \in LoopStates /\ <<k, f[k]>> \in R
<1> DEFINE n == MaxTurns(size)
           P == {k \in Nat : k <= n => <<k, f[k]>> \in R}
<1>1. 0 \in P
  BY DEF IsLoop
<1>2. ASSUME NEW k \in Nat, k \in P PROVE k + 1 \in P
  <2> SUFFICES ASSUME k + 1 <= n PROVE <<k + 1, f[k + 1]>> \in R
    OBVIOUS
  <2>1. k + 1 \in 1 .. n /\ k \in 0 .. n /\ k <= n /\ (k + 1) - 1 = k
    OBVIOUS
  <2>2. f[k] \in LoopStates /\ <<k, f[k]>> \in R
    BY <1>2, <2>1 DEF IsLoop
  <2>3. f[k + 1] = Later(f[k], size, number)
    BY <2>1 DEF IsLoop
  <2> QED BY <2>2, <2>3
<1>3. Nat \subseteq P
  <2> HIDE DEF P
  <2> QED BY <1>1, <1>2, SetInduction
<1> QED BY <1>3 DEF IsLoop

\* What is allocated was free, and is marked with the number.
Marked(s, number) ==
    \A g \in Groups, i \in Below(disk.blocks) :
        IF At(disk.blocks, g, i) \in s.allocated
        THEN s.bitmap[g][i] = number /\ data_bitmap[g][i] = FREE
        ELSE s.bitmap[g][i] = data_bitmap[g][i]

\* One block more is allocated, or none.
LEMMA OneBlockMore ==
    ASSUME disk \in Disks, NEW s \in LoopStates, NEW number \in Int, number # FREE, Marked(s, number)
    PROVE  /\ Cardinality(s.allocated) \in Nat /\ IsFiniteSet(s.allocated)
           /\ s.bitmap[s.group][s.index] = FREE =>
                 /\ Here(s) \notin s.allocated
                 /\ Cardinality(s.allocated \cup {Here(s)}) = Cardinality(s.allocated) + 1
<1>1. /\ disk.groups \in Nat \ {0} /\ disk.blocks \in Nat \ {0}
      /\ Groups = Below(disk.groups)
  BY DiskSizes, GroupsBelow
<1>2. s.allocated \subseteq BlockNumbers /\ s.group \in Groups /\ s.index \in Below(disk.blocks)
  BY DEF LoopStates
<1> DEFINE all == disk.groups * disk.blocks
<1>3. all \in Nat /\ BlockNumbers = Below(all)
  BY <1>1 DEF BlockNumbers
<1> HIDE DEF all
<1>4. Cardinality(s.allocated) \in Nat /\ IsFiniteSet(s.allocated)
  BY <1>2, <1>3, BelowIsFinite
<1>5. s.bitmap[s.group][s.index] = FREE => Here(s) \notin s.allocated
  BY <1>2 DEF Marked, Here
<1>6. Here(s) \notin s.allocated =>
         Cardinality(s.allocated \cup {Here(s)}) = Cardinality(s.allocated) + 1
  BY <1>4, FS_AddElement
<1> QED BY <1>4, <1>5, <1>6

LEMMA TurnMarks ==
    ASSUME disk \in Disks, NEW s \in LoopStates, NEW size \in Nat, NEW number \in Int,
           number # FREE, Marked(s, number), Turn(s, size, number).end # "assert"
    PROVE  Marked(Turn(s, size, number), number)
<1> DEFINE t == Turn(s, size, number)
<1>1. /\ s.bitmap \in [Groups -> [Below(disk.blocks) -> Int]] /\ s.group \in Groups
      /\ s.index \in Below(disk.blocks)
  BY DEF LoopStates
<1>2. /\ t.bitmap = IF Takes(s, size)
                    THEN [s.bitmap EXCEPT ![s.group] = [@ EXCEPT ![s.index] = number]]
                    ELSE s.bitmap
      /\ t.allocated = IF Takes(s, size) THEN s.allocated \cup {Here(s)} ELSE s.allocated
      /\ Takes(s, size) => s.bitmap[s.group][s.index] = FREE
  BY TurnFields
<1>3. disk.groups \in Nat \ {0} /\ disk.blocks \in Nat \ {0} /\ Groups = Below(disk.groups)
  BY DiskSizes, GroupsBelow
<1> HIDE DEF t
<1>4. CASE ~Takes(s, size)
  BY <1>2, <1>4 DEF Marked, t
<1>5. CASE Takes(s, size)
  <2>1. Here(s) \notin s.allocated
    BY <1>2, <1>5, OneBlockMore
  <2> SUFFICES ASSUME NEW g \in Groups, NEW i \in Below(disk.blocks)
               PROVE  IF At(disk.blocks, g, i) \in t.allocated
                      THEN t.bitmap[g][i] = number /\ data_bitmap[g][i] = FREE
                      ELSE t.bitmap[g][i] = data_bitmap[g][i]
    BY DEF Marked, t
  <2>2. CASE g = s.group /\ i = s.index
    <3>1. t.bitmap[g][i] = number /\ At(disk.blocks, g, i) \in t.allocated
      BY <1>1, <1>2, <1>5, <2>2 DEF Here
    <3>2. data_bitmap[g][i] = s.bitmap[g][i]
      BY <2>1, <2>2 DEF Marked, Here
    <3> QED BY <1>2, <1>5, <2>2, <3>1, <3>2
  <2>3. CASE ~(g = s.group /\ i = s.index)
    <3>1. t.bitmap[g][i] = s.bitmap[g][i]
      BY <1>1, <1>2, <1>5, <2>3
    <3>2. At(disk.blocks, g, i) # Here(s)
      BY <1>1, <1>3, <2>3, PlacesDiffer DEF Here
    <3> QED BY <1>2, <1>5, <3>1, <3>2 DEF Marked
  <2> QED BY <2>2, <2>3
<1> QED BY <1>4, <1>5

\* How the loop ends.
Counted(s, size) ==
    /\ s.end = "done" => Cardinality(s.allocated) = size
    /\ s.end = "no" /\ size > 0 => Cardinality(s.allocated) < size

LEMMA TurnCounts ==
    ASSUME disk \in Disks, NEW s \in LoopStates, NEW size \in Nat, NEW number \in Int,
           number # FREE, Marked(s, number), Counted(s, size), s.end = "no"
    PROVE  Counted(Turn(s, size, number), size)
<1> DEFINE t == Turn(s, size, number)
<1>1. /\ t.allocated = IF Takes(s, size) THEN s.allocated \cup {Here(s)} ELSE s.allocated
      /\ t.end = IF Takes(s, size) /\ s.bitmap[s.group][s.index] # FREE THEN "assert"
                 ELSE IF Cardinality(t.allocated) = size THEN "done" ELSE "no"
  BY TurnFields
<1> HIDE DEF t
<1>2. CASE t.end # "no"
  BY <1>1, <1>2 DEF Counted, t
<1>3. CASE t.end = "no" /\ size > 0
  <2>1. Cardinality(t.allocated) # size /\ (Takes(s, size) => s.bitmap[s.group][s.index] = FREE)
    BY <1>1, <1>3
  <2>2. Cardinality(s.allocated) < size /\ Cardinality(s.allocated) \in Nat
    BY <1>3, OneBlockMore DEF Counted
  <2>3. Cardinality(t.allocated) \in {Cardinality(s.allocated), Cardinality(s.allocated) + 1}
    BY <1>1, <2>1, OneBlockMore
  <2>4. Cardinality(t.allocated) < size
    BY <2>1, <2>2, <2>3
  <2> QED BY <1>3, <2>4 DEF Counted, t
<1>4. CASE t.end = "no" /\ ~(size > 0)
  BY <1>4 DEF Counted, t
<1> QED BY <1>2, <1>3, <1>4

\* A block is taken only if it is free, and if it is free and no others are asked for.
LEMMA TakesFree ==
    ASSUME disk \in Disks, NEW s \in LoopStates, NEW size \in Nat,
           Cardinality(s.allocated) \in Nat, Cardinality(s.allocated) < size
    PROVE  /\ Takes(s, size) => s.bitmap[s.group][s.index] = FREE
           /\ s.chunks_free = 1 => (Takes(s, size) <=> s.bitmap[s.group][s.index] = FREE)
<1> DEFINE needed == size - Cardinality(s.allocated)
           least == Min({needed, s.chunks_free})
<1>1. /\ s.index \in Below(disk.blocks) /\ s.index \in Nat /\ s.index < disk.blocks
      /\ s.chunks_free \in Nat \ {0} /\ disk.blocks \in Nat
  BY DiskSizes DEF LoopStates, Below
<1>2. needed \in Nat \ {0}
  OBVIOUS
<1> HIDE DEF needed
<1>3. least \in Nat \ {0} /\ (s.chunks_free = 1 => least = 1)
  <2>1. {needed, s.chunks_free} \subseteq Nat /\ {needed, s.chunks_free} # {}
    BY <1>1, <1>2
  <2>2. least \in {needed, s.chunks_free} /\ least <= s.chunks_free
    BY <2>1, MinIsLeast
  <2> HIDE DEF least
  <2> QED BY <1>1, <1>2, <2>2
<1>4. Takes(s, size) <=> /\ s.index + least - 1 < disk.blocks
                         /\ \A i \in s.index .. s.index + least - 1 : s.bitmap[s.group][i] = FREE
  BY DEF Takes, range_free, needed
<1> HIDE DEF least
<1>5. Takes(s, size) => s.bitmap[s.group][s.index] = FREE
  <2>1. s.index \in s.index .. s.index + least - 1
    BY <1>1, <1>3
  <2> QED BY <1>4, <2>1
<1>6. s.chunks_free = 1 /\ s.bitmap[s.group][s.index] = FREE => Takes(s, size)
  <2> SUFFICES ASSUME s.chunks_free = 1, s.bitmap[s.group][s.index] = FREE PROVE Takes(s, size)
    OBVIOUS
  <2>1. s.index + least - 1 = s.index
    BY <1>1, <1>3
  <2>2. \A i \in s.index .. s.index : i = s.index
    BY <1>1
  <2> QED BY <1>1, <1>4, <2>1, <2>2
<1> QED BY <1>5, <1>6

-----------------------------------------------------------------------------
\* The c-th group from t on.
Nth(t, c) == (t + c) % disk.groups

\* At most once around.
LEMMA Around ==
    ASSUME NEW d \in Nat \ {0}, NEW x \in 0 .. 2 * d - 1
    PROVE  x % d = IF x < d THEN x ELSE x - d
<1>1. x \in -d .. 2 * d - 1 /\ x >= 0
  OBVIOUS
<1>2. CASE x < d
  <2>1. x % d = x
    BY <1>1, <1>2, Wrap
  <2> QED BY <1>2, <2>1
<1>3. CASE ~(x < d)
  <2>1. x >= d
    BY <1>1, <1>3
  <2>2. x % d = x - d
    BY <1>1, <2>1, Wrap
  <2> QED BY <1>3, <2>2
<1> QED BY <1>2, <1>3

LEMMA NthIsAround ==
    ASSUME disk \in Disks, NEW t \in Groups, NEW c \in 0 .. disk.groups
    PROVE  Nth(t, c) = IF t + c < disk.groups THEN t + c ELSE (t + c) - disk.groups
<1>1. disk.groups \in Nat \ {0} /\ t + c \in 0 .. 2 * disk.groups - 1
  BY DiskSizes DEF Groups
<1> HIDE DEF Groups
<1>2. Nth(t, c) = (t + c) % disk.groups
  BY DEF Nth
<1>3. \A x \in 0 .. 2 * disk.groups - 1 :
         x % disk.groups = IF x < disk.groups THEN x ELSE x - disk.groups
  BY <1>1, Around
<1> DEFINE x == t + c
<1>4. x % disk.groups = IF x < disk.groups THEN x ELSE x - disk.groups
  BY <1>1, <1>3
<1> QED BY <1>2, <1>4

LEMMA NthIs ==
    ASSUME disk \in Disks, NEW t \in Groups
    PROVE  /\ \A c \in Below(disk.groups) : Nth(t, c) \in Groups
           /\ \A c, e \in Below(disk.groups) : Nth(t, c) = Nth(t, e) => c = e
           /\ \A g \in Groups : \E c \in Below(disk.groups) : Nth(t, c) = g
           /\ 0 \in Below(disk.groups) /\ Nth(t, 0) = t
<1> DEFINE G == disk.groups
<1>1. G \in Nat \ {0} /\ Groups = 0 .. G - 1 /\ Below(G) = 0 .. G - 1
  BY DiskSizes DEF Groups, Below
<1>2. \A c \in 0 .. G : Nth(t, c) = IF t + c < G THEN t + c ELSE (t + c) - G
  BY NthIsAround
<1> HIDE DEF G
<1>3. \A c \in 0 .. G - 1 : c \in 0 .. G
  BY <1>1
<1>4. \A g \in Groups : \E c \in 0 .. G - 1 : Nth(t, c) = g
  <2> SUFFICES ASSUME NEW g \in Groups PROVE \E c \in 0 .. G - 1 : Nth(t, c) = g
    OBVIOUS
  <2> DEFINE c == IF g >= t THEN g - t ELSE g - t + G
  <2>1. c \in 0 .. G - 1 /\ (t + c = g \/ t + c = g + G)
    BY <1>1
  <2>2. Nth(t, c) = g
    <3> HIDE DEF c
    <3>1. Nth(t, c) = IF t + c < G THEN t + c ELSE (t + c) - G
      BY <1>2, <1>3, <2>1
    <3> QED BY <1>1, <2>1, <3>1
  <2> QED BY <2>1, <2>2
<1>5. ASSUME NEW c \in 0 .. G - 1, NEW e \in 0 .. G - 1
      PROVE  Nth(t, c) \in Groups /\ (Nth(t, c) = Nth(t, e) => c = e)
  <2>1. /\ Nth(t, c) = IF t + c < G THEN t + c ELSE (t + c) - G
        /\ Nth(t, e) = IF t + e < G THEN t + e ELSE (t + e) - G
    BY <1>2, <1>3
  <2> QED BY <1>1, <2>1
<1>6. 0 \in 0 .. G - 1 /\ Nth(t, 0) = t
  <2>1. 0 \in 0 .. G /\ t + 0 = t /\ t < G
    BY <1>1
  <2> QED BY <1>1, <1>2, <2>1
<1> QED BY <1>1, <1>4, <1>5, <1>6 DEF G

LEMMA NthNext ==
    ASSUME disk \in Disks, NEW t \in Groups, NEW c \in Below(disk.groups)
    PROVE  LET next == (Nth(t, c) + 1) % disk.groups
           IN  /\ c + 1 # disk.groups => c + 1 \in Below(disk.groups) /\ next = Nth(t, c + 1) /\ next # t
               /\ c + 1 = disk.groups => next = t
<1> DEFINE G == disk.groups
           x == Nth(t, c)
           next == Nth(x, 1)
<1>1. G \in Nat \ {0} /\ t \in 0 .. G - 1 /\ c \in 0 .. G - 1 /\ Below(G) = 0 .. G - 1
  BY DiskSizes DEF Groups, Below
<1>2. x \in Groups /\ x \in 0 .. G - 1
  BY NthIs DEF Groups
<1>3. 1 \in 0 .. G /\ c \in 0 .. G /\ c + 1 \in 0 .. G
  BY <1>1
<1>4. /\ x = IF t + c < G THEN t + c ELSE (t + c) - G
      /\ Nth(t, c + 1) = IF t + (c + 1) < G THEN t + (c + 1) ELSE (t + (c + 1)) - G
  BY <1>3, NthIsAround
<1> HIDE DEF x
<1>5. next = IF x + 1 < G THEN x + 1 ELSE (x + 1) - G
  BY <1>2, <1>3, NthIsAround
<1>6. next = (x + 1) % G
  BY DEF Nth
<1> HIDE DEF next, G
<1>7. c + 1 # G => c + 1 \in 0 .. G - 1 /\ next = Nth(t, c + 1) /\ next # t
  BY <1>1, <1>4, <1>5
<1>8. c + 1 = G => next = t
  BY <1>1, <1>4, <1>5
<1> QED BY <1>1, <1>6, <1>7, <1>8 DEF G, x

\* The number of places a search has seen that is at place i of the c-th group of
\* round r.
Seen(r, c, i) == r * (disk.groups * disk.blocks) + c * disk.blocks + i

LEMMA SeenGrows ==
    ASSUME disk \in Disks, NEW r \in Nat, NEW c \in Below(disk.groups), NEW i \in Below(disk.blocks)
    PROVE  /\ Seen(r, c, i) \in Nat /\ Seen(r, c, i) < (r + 1) * (disk.groups * disk.blocks)
           /\ Seen(r, c, i + 1) = Seen(r, c, i) + 1
           /\ Seen(r, c + 1, 0) >= Seen(r, c, i) + 1
           /\ c + 1 = disk.groups => Seen(r + 1, 0, 0) >= Seen(r, c, i) + 1
<1> DEFINE B == disk.blocks
           GB == disk.groups * disk.blocks
<1>1. disk.groups \in Nat \ {0} /\ B \in Nat \ {0} /\ GB \in Nat
  BY DiskSizes
<1>2. c \in Nat /\ c < disk.groups /\ i \in Nat /\ i + 1 <= B
  BY <1>1 DEF Below
<1>3. c * B + B <= GB /\ c * B \in Nat /\ (c + 1) * B = c * B + B
      /\ (c + 1 = disk.groups => c * B + B = GB)
  <2>1. B * c + B <= B * disk.groups
    BY <1>1, <1>2, MulMonotone
  <2>2. c * B = B * c /\ GB = B * disk.groups /\ (c + 1) * B = c * B + B
    BY <1>1, <1>2
  <2>3. c + 1 = disk.groups => (c + 1) * B = GB
    OBVIOUS
  <2> QED BY <1>1, <1>2, <2>1, <2>2, <2>3
<1> DEFINE x == r * GB
           y == c * B
<1>4. x \in Nat /\ (r + 1) * GB = x + GB
  BY <1>1
<1>5. /\ Seen(r, c, i) = x + y + i /\ Seen(r, c, i + 1) = x + y + (i + 1)
      /\ Seen(r, c + 1, 0) = x + (c + 1) * B + 0
      /\ Seen(r + 1, 0, 0) = (r + 1) * GB + 0 * B + 0
  BY DEF Seen
<1>6. 0 * B = 0 /\ y \in Nat
  BY <1>1, <1>3
<1> HIDE DEF x, y, B, GB
<1>7. y + B <= GB /\ (c + 1) * B = y + B /\ (c + 1 = disk.groups => y + B = GB)
  BY <1>3 DEF y
<1> DEFINE R1 == (r + 1) * GB
           C1 == (c + 1) * B
           Z == 0 * B
<1>8. R1 = x + GB /\ C1 = y + B /\ Z = 0 /\ (c + 1 = disk.groups => y + B = GB)
      /\ Seen(r, c + 1, 0) = x + C1 + 0 /\ Seen(r + 1, 0, 0) = R1 + Z + 0
  BY <1>4, <1>5, <1>6, <1>7
<1> HIDE DEF R1, C1, Z
<1>9. Seen(r, c, i) \in Nat /\ Seen(r, c, i) < R1
  BY <1>1, <1>2, <1>4, <1>5, <1>6, <1>7, <1>8
<1>10. Seen(r, c, i + 1) = Seen(r, c, i) + 1
  BY <1>1, <1>2, <1>4, <1>5, <1>6
<1>11. Seen(r, c + 1, 0) >= Seen(r, c, i) + 1
  BY <1>1, <1>2, <1>4, <1>5, <1>6, <1>8
<1>12. c + 1 = disk.groups => Seen(r + 1, 0, 0) >= Seen(r, c, i) + 1
  BY <1>1, <1>2, <1>4, <1>5, <1>6, <1>8
<1> QED BY <1>9, <1>10, <1>11, <1>12 DEF R1, GB

\* Where the search is after at least k turns.
Where(k, s, t, r, c) ==
    /\ s.target = t /\ r \in Nat /\ c \in Below(disk.groups) /\ s.group = Nth(t, c)
    /\ k <= Seen(r, c, s.index)
    /\ r >= 1 => s.chunks_free = 1
    /\ disk.large > 0 => s.in_group < disk.large

LEMMA WhereFirst ==
    ASSUME disk \in Disks, NEW t \in Groups
    PROVE  Where(0, FirstState(t), t, 0, 0) /\ FirstState(t).group = t
<1>1. 0 \in Below(disk.groups) /\ Nth(t, 0) = t /\ 0 \in Below(disk.blocks) /\ disk.large \in Nat
  BY NthIs, DiskSizes DEF Below
<1>2. 0 <= Seen(0, 0, 0)
  BY <1>1, SeenGrows
<1>3. t % disk.groups = t
  <2>1. disk.groups \in Nat \ {0} /\ t \in 0 .. 2 * disk.groups - 1 /\ t < disk.groups
    BY DiskSizes DEF Groups
  <2> QED BY <2>1, Around
<1> QED BY <1>1, <1>2, <1>3 DEF Where, FirstState

\* It goes on to the next place, to the next group or to the next round.
LEMMA TurnMoves ==
    ASSUME disk \in Disks, NEW s \in LoopStates, NEW size \in Nat, NEW number \in Int,
           NEW t \in Groups, NEW k \in Nat, NEW r, NEW c, Where(k, s, t, r, c)
    PROVE  LET u == Turn(s, size, number) IN
           /\ ~Moves(s, size) => /\ Where(k + 1, u, t, r, c)
                                 /\ u.group = s.group /\ u.index = s.index + 1
                                 /\ u.in_group = InGroup(s, size)
           /\ Moves(s, size) => u.index = 0 /\ u.in_group = 0
           /\ Moves(s, size) /\ c + 1 # disk.groups => Where(k + 1, u, t, r, c + 1)
           /\ Moves(s, size) /\ c + 1 = disk.groups => Where(k + 1, u, t, r + 1, 0)
           /\ s.chunks_free = 1 => u.chunks_free = 1
<1> DEFINE u == Turn(s, size, number)
           next == (s.group + 1) % disk.groups
<1>1. /\ r \in Nat /\ c \in Below(disk.groups) /\ s.index \in Below(disk.blocks) /\ s.in_group \in Nat
      /\ s.target = t /\ s.group = Nth(t, c) /\ k <= Seen(r, c, s.index)
      /\ (r >= 1 => s.chunks_free = 1) /\ (disk.large > 0 => s.in_group < disk.large)
  BY DEF LoopStates, Where
<1>2. /\ u.target = s.target
      /\ u.group = IF Moves(s, size) THEN next ELSE s.group
      /\ u.index = IF Moves(s, size) THEN 0 ELSE s.index + 1
      /\ u.in_group = IF Moves(s, size) THEN 0 ELSE InGroup(s, size)
      /\ u.chunks_free = IF Moves(s, size) /\ next = s.target THEN 1 ELSE s.chunks_free
  BY TurnFields
<1>3. /\ c + 1 # disk.groups => c + 1 \in Below(disk.groups) /\ next = Nth(t, c + 1) /\ next # t
      /\ c + 1 = disk.groups => next = t
  BY <1>1, NthNext
<1>4. /\ Seen(r, c, s.index) \in Nat /\ Seen(r, c, s.index + 1) = Seen(r, c, s.index) + 1
      /\ Seen(r, c + 1, 0) >= Seen(r, c, s.index) + 1
      /\ c + 1 = disk.groups => Seen(r + 1, 0, 0) >= Seen(r, c, s.index) + 1
  BY <1>1, SeenGrows
<1>5. disk.large \in Nat /\ 0 \in Below(disk.groups) /\ Nth(t, 0) = t
  BY DiskSizes, NthIs
<1> HIDE DEF u, next
<1>6. CASE ~Moves(s, size)
  <2>1. k + 1 <= Seen(r, c, s.index + 1)
    BY <1>1, <1>4
  <2>2. disk.large > 0 => InGroup(s, size) < disk.large
    BY <1>1, <1>5, <1>6 DEF Moves, InGroup
  <2>3. u.index = s.index + 1 /\ u.in_group = InGroup(s, size) /\ u.group = s.group /\ u.target = t
        /\ u.chunks_free = s.chunks_free
    BY <1>1, <1>2, <1>6
  <2>4. Where(k + 1, u, t, r, c)
    BY <1>1, <2>1, <2>2, <2>3 DEF Where
  <2> QED BY <1>6, <2>3, <2>4 DEF u
<1>7. CASE Moves(s, size)
  <2>1. /\ u.index = 0 /\ u.in_group = 0 /\ u.group = next /\ u.target = t
        /\ u.chunks_free = IF next = t THEN 1 ELSE s.chunks_free
    BY <1>1, <1>2, <1>7
  <2>2. CASE c + 1 # disk.groups
    <3>1. k + 1 <= Seen(r, c + 1, 0) /\ (r >= 1 => u.chunks_free = 1)
      <4>1. Seen(r, c + 1, 0) \in Int
        <5>1. c + 1 \in Nat /\ r \in Nat /\ disk.groups \in Nat /\ disk.blocks \in Nat
          BY <1>1, DiskSizes DEF Below
        <5>2. r * (disk.groups * disk.blocks) \in Nat /\ (c + 1) * disk.blocks \in Nat
          BY <5>1
        <5> QED BY <5>2 DEF Seen
      <4> QED BY <1>1, <1>4, <2>1, <4>1
    <3>2. Where(k + 1, u, t, r, c + 1)
      BY <1>1, <1>3, <1>5, <2>1, <2>2, <3>1 DEF Where
    <3> QED BY <1>7, <2>1, <2>2, <3>2 DEF u
  <2>3. CASE c + 1 = disk.groups
    <3>1. k + 1 <= Seen(r + 1, 0, 0) /\ r + 1 \in Nat
      <4>1. Seen(r + 1, 0, 0) \in Int
        <5>1. r + 1 \in Nat /\ 0 \in Below(disk.blocks)
          BY <1>1, DiskSizes DEF Below
        <5> QED BY <1>5, <5>1, SeenGrows
      <4> QED BY <1>1, <1>4, <2>3, <4>1
    <3>2. u.chunks_free = 1
      BY <1>3, <2>1, <2>3
    <3>3. Where(k + 1, u, t, r + 1, 0)
      BY <1>3, <1>5, <2>1, <2>3, <3>1, <3>2 DEF Where
    <3> QED BY <1>7, <2>1, <2>3, <3>2, <3>3 DEF u
  <2> QED BY <2>2, <2>3
<1> QED BY <1>6, <1>7

\* No place of a group is free; none is that the round has come by.
Full(s, g) == \A i \in Below(disk.blocks) : s.bitmap[g][i] # FREE
Barren(s, t, c) ==
    \A e \in Below(disk.groups), i \in Below(disk.blocks) :
        e < c \/ (e = c /\ i < s.index) => s.bitmap[Nth(t, e)][i] # FREE

\* As long as blocks are missing some group has a free place.
LEMMA SomeRoom ==
    ASSUME disk \in Disks, NEW s \in LoopStates, NEW number, Marked(s, number),
           Cardinality(s.allocated) < Cardinality(FreeOf(data_bitmap, disk.blocks)),
           Cardinality(FreeOf(data_bitmap, disk.blocks)) \in Nat
    PROVE  \E g \in Groups : ~Full(s, g)
<1> DEFINE all == disk.groups * disk.blocks
           F == FreeOf(data_bitmap, disk.blocks)
<1>1. /\ disk.groups \in Nat \ {0} /\ disk.blocks \in Nat \ {0} /\ all \in Nat
      /\ Groups = Below(disk.groups) /\ s.allocated \subseteq Below(all)
  BY DiskSizes, GroupsBelow DEF LoopStates, BlockNumbers
<1>2. ~(F \subseteq s.allocated)
  <2> SUFFICES ASSUME F \subseteq s.allocated PROVE FALSE
    OBVIOUS
  <2> HIDE DEF F, all
  <2>1. IsFiniteSet(s.allocated) /\ Cardinality(s.allocated) \in Nat
    BY <1>1, BelowIsFinite
  <2>2. Cardinality(F) <= Cardinality(s.allocated)
    BY <2>1, FS_Subset
  <2> QED BY <2>1, <2>2 DEF F
<1>3. PICK b \in Below(all) : data_bitmap[b \div disk.blocks][b % disk.blocks] = FREE /\ b \notin s.allocated
  BY <1>2 DEF FreeOf
<1>4. /\ b \div disk.blocks \in Groups /\ b % disk.blocks \in Below(disk.blocks)
      /\ b = At(disk.blocks, b \div disk.blocks, b % disk.blocks)
  BY <1>1, PlaceOfNumber
<1>5. s.bitmap[b \div disk.blocks][b % disk.blocks] = FREE
  BY <1>3, <1>4 DEF Marked
<1> QED BY <1>4, <1>5 DEF Full

\* A round that has taken nothing so far and takes nothing now.
LEMMA BarrenTurn ==
    ASSUME disk \in Disks, NEW s \in LoopStates, NEW size \in Nat, NEW number \in Int,
           NEW t \in Groups, NEW k \in Nat, NEW r, NEW c, Where(k, s, t, r, c),
           Barren(s, t, c), s.in_group = 0, ~Takes(s, size), s.bitmap[s.group][s.index] # FREE
    PROVE  LET u == Turn(s, size, number) IN
           /\ ~Moves(s, size) => u.in_group = 0 /\ Barren(u, t, c)
           /\ Moves(s, size) /\ c + 1 # disk.groups => Barren(u, t, c + 1)
           /\ Moves(s, size) /\ c + 1 = disk.groups => \A g \in Groups : Full(s, g)
<1> DEFINE u == Turn(s, size, number)
<1>1. /\ c \in Below(disk.groups) /\ c \in Nat /\ c < disk.groups
      /\ s.index \in Below(disk.blocks) /\ s.index \in Nat /\ s.group = Nth(t, c)
      /\ (disk.large > 0 => s.in_group < disk.large)
      /\ disk.groups \in Nat \ {0} /\ disk.blocks \in Nat \ {0} /\ disk.large \in Nat
  BY DiskSizes DEF LoopStates, Where, Below
<1>2. /\ u.bitmap = s.bitmap
      /\ u.index = IF Moves(s, size) THEN 0 ELSE s.index + 1
      /\ u.in_group = IF Moves(s, size) THEN 0 ELSE s.in_group
  BY TurnFields DEF InGroup
<1> HIDE DEF u
<1>3. \A e \in Below(disk.groups), i \in Below(disk.blocks) :
         e < c \/ (e = c /\ i < s.index + 1) => s.bitmap[Nth(t, e)][i] # FREE
  <2> SUFFICES ASSUME NEW e \in Below(disk.groups), NEW i \in Below(disk.blocks),
                      e < c \/ (e = c /\ i < s.index + 1)
               PROVE  s.bitmap[Nth(t, e)][i] # FREE
    OBVIOUS
  <2>1. CASE e < c \/ (e = c /\ i < s.index)
    BY <2>1 DEF Barren
  <2>2. CASE e = c /\ i = s.index
    BY <1>1, <2>2
  <2>3. i \in Int
    BY DEF Below
  <2> QED BY <1>1, <2>1, <2>2, <2>3
<1>4. ~Moves(s, size) => u.in_group = 0 /\ Barren(u, t, c)
  BY <1>2, <1>3 DEF Barren
<1>5. Moves(s, size) => s.index + 1 = disk.blocks
  BY <1>1 DEF Moves, InGroup
<1>6. ASSUME Moves(s, size)
      PROVE  \A e \in Below(disk.groups), i \in Below(disk.blocks) :
                e < c + 1 => s.bitmap[Nth(t, e)][i] # FREE
  <2> SUFFICES ASSUME NEW e \in Below(disk.groups), NEW i \in Below(disk.blocks), e < c + 1
               PROVE  s.bitmap[Nth(t, e)][i] # FREE
    OBVIOUS
  <2>1. i \in Int /\ i < disk.blocks /\ e \in Int
    BY <1>1 DEF Below
  <2>2. e < c \/ (e = c /\ i < s.index + 1)
    BY <1>1, <1>5, <1>6, <2>1
  <2> QED BY <1>3, <2>2
<1>7. ASSUME Moves(s, size) PROVE Barren(u, t, c + 1)
  <2> SUFFICES ASSUME NEW e \in Below(disk.groups), NEW i \in Below(disk.blocks),
                      e < c + 1 \/ (e = c + 1 /\ i < u.index)
               PROVE  u.bitmap[Nth(t, e)][i] # FREE
    BY DEF Barren
  <2>1. ~(i < u.index)
    BY <1>2, <1>7 DEF Below
  <2> QED BY <1>2, <1>6, <1>7, <2>1
<1>8. ASSUME Moves(s, size), c + 1 = disk.groups, NEW g \in Groups PROVE Full(s, g)
  <2>1. PICK e \in Below(disk.groups) : Nth(t, e) = g
    BY NthIs
  <2>2. e < c + 1
    BY <1>1, <1>8, <2>1 DEF Below
  <2> QED BY <1>6, <1>8, <2>1, <2>2 DEF Full
<1> QED BY <1>4, <1>7, <1>8 DEF u

\* Every round but the first takes a block, unless it has not come by a free place.
Fruitful(s, t, r, c) ==
    r >= 1 => /\ Cardinality(s.allocated) >= r - 1
              /\ Cardinality(s.allocated) >= r \/ (s.in_group = 0 /\ Barren(s, t, c))
Progress(k, s, t, size, number) ==
    /\ Marked(s, number) /\ Counted(s, size) /\ s.end # "assert"
    /\ s.end = "no" => \E r, c : Where(k, s, t, r, c) /\ Fruitful(s, t, r, c)

LEMMA TurnProgresses ==
    ASSUME disk \in Disks, NEW s \in LoopStates, NEW size \in Nat, NEW number \in Int, number # FREE,
           NEW t \in Groups, NEW k \in Nat, Progress(k, s, t, size, number), s.end = "no", size > 0,
           Cardinality(FreeOf(data_bitmap, disk.blocks)) >= size,
           Cardinality(FreeOf(data_bitmap, disk.blocks)) \in Nat
    PROVE  Progress(k + 1, Turn(s, size, number), t, size, number)
<1> DEFINE u == Turn(s, size, number)
<1>1. PICK r, c : Where(k, s, t, r, c) /\ Fruitful(s, t, r, c)
  BY DEF Progress
<1>2. Marked(s, number) /\ Cardinality(s.allocated) \in Nat /\ Cardinality(s.allocated) < size
  BY OneBlockMore DEF Progress, Counted
<1>3. /\ Takes(s, size) => s.bitmap[s.group][s.index] = FREE
      /\ s.chunks_free = 1 => (Takes(s, size) <=> s.bitmap[s.group][s.index] = FREE)
  BY <1>2, TakesFree
<1>4. /\ u.allocated = IF Takes(s, size) THEN s.allocated \cup {Here(s)} ELSE s.allocated
      /\ u.end = IF Takes(s, size) /\ s.bitmap[s.group][s.index] # FREE THEN "assert"
                 ELSE IF Cardinality(u.allocated) = size THEN "done" ELSE "no"
  BY TurnFields
<1>5. u.end # "assert"
  BY <1>3, <1>4
<1>6. Marked(u, number) /\ Counted(u, size)
  BY <1>2, <1>5, TurnMarks, TurnCounts DEF Progress
<1>7. Cardinality(u.allocated) = Cardinality(s.allocated) + (IF Takes(s, size) THEN 1 ELSE 0)
  BY <1>2, <1>3, <1>4, OneBlockMore
<1>8. r \in Nat /\ c \in Below(disk.groups) /\ (r >= 1 => s.chunks_free = 1)
  BY <1>1 DEF Where
<1>9. ASSUME ~Moves(s, size) PROVE Where(k + 1, u, t, r, c) /\ Fruitful(u, t, r, c)
  <2>1. Where(k + 1, u, t, r, c)
    BY <1>1, <1>9, TurnMoves
  <2>2. Fruitful(u, t, r, c)
    <3> SUFFICES ASSUME r >= 1
                 PROVE  /\ Cardinality(u.allocated) >= r - 1
                        /\ Cardinality(u.allocated) >= r \/ (u.in_group = 0 /\ Barren(u, t, c))
      BY DEF Fruitful
    <3>1. Cardinality(s.allocated) >= r - 1
      BY <1>1 DEF Fruitful
    <3>2. CASE Takes(s, size) \/ Cardinality(s.allocated) >= r
      <4> HIDE DEF u
      <4> QED BY <1>2, <1>7, <1>8, <3>1, <3>2
    <3>3. CASE ~Takes(s, size) /\ ~(Cardinality(s.allocated) >= r)
      <4>1. s.in_group = 0 /\ Barren(s, t, c)
        BY <1>1, <3>3 DEF Fruitful
      <4>2. u.in_group = 0 /\ Barren(u, t, c)
        BY <1>1, <1>3, <1>8, <1>9, <3>3, <4>1, BarrenTurn
      <4> QED BY <1>2, <1>7, <3>1, <3>3, <4>2
    <3> QED BY <3>2, <3>3
  <2> QED BY <2>1, <2>2
<1>10. ASSUME Moves(s, size), c + 1 # disk.groups
       PROVE  Where(k + 1, u, t, r, c + 1) /\ Fruitful(u, t, r, c + 1)
  <2>1. Where(k + 1, u, t, r, c + 1) /\ u.in_group = 0
    BY <1>1, <1>10, TurnMoves
  <2>2. Fruitful(u, t, r, c + 1)
    <3> SUFFICES ASSUME r >= 1
                 PROVE  /\ Cardinality(u.allocated) >= r - 1
                        /\ Cardinality(u.allocated) >= r \/ (u.in_group = 0 /\ Barren(u, t, c + 1))
      BY DEF Fruitful
    <3>1. Cardinality(s.allocated) >= r - 1
      BY <1>1 DEF Fruitful
    <3>2. CASE Takes(s, size) \/ Cardinality(s.allocated) >= r
      <4> HIDE DEF u
      <4> QED BY <1>2, <1>7, <1>8, <3>1, <3>2
    <3>3. CASE ~Takes(s, size) /\ ~(Cardinality(s.allocated) >= r)
      <4>1. s.in_group = 0 /\ Barren(s, t, c)
        BY <1>1, <3>3 DEF Fruitful
      <4>2. Barren(u, t, c + 1)
        BY <1>1, <1>3, <1>8, <1>10, <3>3, <4>1, BarrenTurn
      <4> QED BY <1>2, <1>7, <2>1, <3>1, <3>3, <4>2
    <3> QED BY <3>2, <3>3
  <2> QED BY <2>1, <2>2
<1>11. ASSUME Moves(s, size), c + 1 = disk.groups
       PROVE  Where(k + 1, u, t, r + 1, 0) /\ Fruitful(u, t, r + 1, 0)
  <2>1. Where(k + 1, u, t, r + 1, 0) /\ u.in_group = 0 /\ u.index = 0
    BY <1>1, <1>11, TurnMoves
  <2>2. Barren(u, t, 0)
    BY <2>1 DEF Barren, Below
  <2>3. Cardinality(u.allocated) >= r
    <3>1. CASE r = 0
      BY <1>2, <1>7, <3>1
    <3>2. CASE r >= 1
      <4>1. Cardinality(s.allocated) >= r - 1
        BY <1>1, <3>2 DEF Fruitful
      <4>2. CASE Takes(s, size) \/ Cardinality(s.allocated) >= r
        <5> HIDE DEF u
        <5> QED BY <1>2, <1>7, <1>8, <4>1, <4>2
      <4>3. CASE ~Takes(s, size) /\ ~(Cardinality(s.allocated) >= r)
        <5>1. s.in_group = 0 /\ Barren(s, t, c)
          BY <1>1, <3>2, <4>3 DEF Fruitful
        <5>2. \A g \in Groups : Full(s, g)
          BY <1>1, <1>3, <1>8, <1>11, <3>2, <4>3, <5>1, BarrenTurn
        <5>3. Cardinality(s.allocated) < Cardinality(FreeOf(data_bitmap, disk.blocks))
          BY <1>2
        <5> QED BY <1>2, <5>2, <5>3, SomeRoom
      <4> QED BY <4>2, <4>3
    <3> QED BY <1>8, <3>1, <3>2
  <2>4. Fruitful(u, t, r + 1, 0)
    <3>1. (r + 1) - 1 = r
      BY <1>8
    <3> QED BY <2>1, <2>2, <2>3, <3>1 DEF Fruitful
  <2> QED BY <2>1, <2>4
<1> HIDE DEF u
<1>12. \E d, e : Where(k + 1, u, t, d, e) /\ Fruitful(u, t, d, e)
  BY <1>9, <1>10, <1>11
<1> QED BY <1>5, <1>6, <1>12 DEF Progress, u

\* What has been allocated when the loop is done.
LEMMA WhatIsAllocated ==
    ASSUME disk \in Disks, data_bitmap \in [Groups -> [Below(disk.blocks) -> Int]],
           NEW target \in Int, NEW size \in Nat, NEW number \in Int, number # FREE,
           allocate_blocks(target, size, number).end = "done"
    PROVE  LET blocks == allocate_blocks(target, size, number)
           IN  blocks \in LoopStates /\ Marked(blocks, number) /\ Cardinality(blocks.allocated) = size
<1>1. PICK f : /\ MaxTurns(size) \in Nat /\ IsLoop(f, target, size, number)
               /\ allocate_blocks(target, size, number) = f[MaxTurns(size)]
  BY LoopExists
<1> DEFINE Good(s) == s.end # "assert" => Marked(s, number) /\ Counted(s, size)
           R == {x \in Nat \X LoopStates : Good(x[2])}
<1>2. FirstState(target) \in LoopStates
  BY FirstStateIs DEF IsBitmap
<1>3. Good(FirstState(target))
  <2>1. /\ FirstState(target).allocated = {} /\ FirstState(target).bitmap = data_bitmap
        /\ FirstState(target).end = "no"
    BY DEF FirstState
  <2>2. Cardinality({}) = 0
    BY FS_EmptySet
  <2>3. Marked(FirstState(target), number)
    BY <2>1 DEF Marked
  <2>4. Counted(FirstState(target), size)
    BY <2>1, <2>2 DEF Counted
  <2> QED BY <2>3, <2>4
<1>4. <<0, FirstState(target)>> \in R
  BY <1>2, <1>3
<1>5. ASSUME NEW k \in Nat, NEW s \in LoopStates, <<k, s>> \in R
      PROVE  <<k + 1, Later(s, size, number)>> \in R
  <2>1. Later(s, size, number) \in LoopStates
    BY TurnFields DEF Later
  <2>2. Good(s)
    BY <1>5
  <2>3. Good(Later(s, size, number))
    <3>1. CASE s.end = "no"
      <4>1. Marked(s, number) /\ Counted(s, size)
        BY <2>2, <3>1
      <4>2. Good(Turn(s, size, number))
        BY <3>1, <4>1, TurnMarks, TurnCounts
      <4> QED BY <3>1, <4>2 DEF Later
    <3>2. CASE s.end # "no"
      BY <2>2, <3>2 DEF Later
    <3> QED BY <3>1, <3>2
  <2> HIDE DEF Good
  <2> QED BY <2>1, <2>3
<1>6. f[MaxTurns(size)] \in LoopStates /\ <<MaxTurns(size), f[MaxTurns(size)]>> \in R
  <2> HIDE DEF R
  <2> QED BY <1>1, <1>4, <1>5, LoopInduction
<1>7. Good(f[MaxTurns(size)])
  BY <1>6
<1> QED BY <1>1, <1>6, <1>7 DEF Counted

\* Blocks that are free are found.
LEMMA BlocksAreFound ==
    ASSUME disk \in Disks, data_bitmap \in [Groups -> [Below(disk.blocks) -> Int]],
           NEW t \in Groups, NEW size \in Nat, size > 0, NEW number \in Int, number # FREE,
           Cardinality(FreeOf(data_bitmap, disk.blocks)) >= size,
           Cardinality(FreeOf(data_bitmap, disk.blocks)) \in Nat
    PROVE  allocate_blocks(t, size, number).end = "done"
<1>0. t \in Int
  BY GroupsBelow
<1>1. PICK f : /\ MaxTurns(size) \in Nat /\ IsLoop(f, t, size, number)
               /\ allocate_blocks(t, size, number) = f[MaxTurns(size)]
  BY <1>0, LoopExists
<1> DEFINE R == {x \in Nat \X LoopStates : Progress(x[1], x[2], t, size, number)}
           n == MaxTurns(size)
           last == f[n]
<1>2. FirstState(t) \in LoopStates
  BY <1>0, FirstStateIs DEF IsBitmap
<1>3. Progress(0, FirstState(t), t, size, number)
  <2>1. /\ FirstState(t).allocated = {} /\ FirstState(t).bitmap = data_bitmap
        /\ FirstState(t).end = "no"
    BY DEF FirstState
  <2>2. Cardinality({}) = 0
    BY FS_EmptySet
  <2>3. Marked(FirstState(t), number)
    BY <2>1 DEF Marked
  <2>4. Counted(FirstState(t), size)
    BY <2>1, <2>2 DEF Counted
  <2>5. Where(0, FirstState(t), t, 0, 0) /\ Fruitful(FirstState(t), t, 0, 0)
    BY WhereFirst DEF Fruitful
  <2> QED BY <2>1, <2>3, <2>4, <2>5 DEF Progress
<1>4. <<0, FirstState(t)>> \in R
  BY <1>2, <1>3
<1>5. ASSUME NEW k \in Nat, NEW s \in LoopStates, <<k, s>> \in R
      PROVE  <<k + 1, Later(s, size, number)>> \in R
  <2>1. Later(s, size, number) \in LoopStates
    BY TurnFields DEF Later
  <2>2. Progress(k, s, t, size, number)
    BY <1>5
  <2>3. Progress(k + 1, Later(s, size, number), t, size, number)
    <3>1. CASE s.end = "no"
      <4>1. Progress(k + 1, Turn(s, size, number), t, size, number)
        BY <2>2, <3>1, TurnProgresses
      <4> QED BY <3>1, <4>1 DEF Later
    <3>2. CASE s.end # "no"
      BY <2>2, <3>2 DEF Later, Progress
    <3> QED BY <3>1, <3>2
  <2> QED BY <2>1, <2>3
<1>6. last \in LoopStates /\ <<n, last>> \in R
  <2> HIDE DEF R
  <2> QED BY <1>1, <1>4, <1>5, LoopInduction
<1>7. Progress(n, last, t, size, number) /\ last.end \in {"no", "done", "assert"}
  BY <1>6 DEF LoopStates
<1> HIDE DEF last
<1>8. ASSUME last.end = "no" PROVE FALSE
  <2>1. PICK r, c : Where(n, last, t, r, c) /\ Fruitful(last, t, r, c)
    BY <1>7, <1>8 DEF Progress
  <2>2. Cardinality(last.allocated) < size /\ Marked(last, number)
    BY <1>7, <1>8 DEF Progress, Counted
  <2>3. Cardinality(last.allocated) \in Nat
    BY <1>6, <2>2, OneBlockMore
  <2>4. /\ r \in Nat /\ n <= Seen(r, c, last.index)
        /\ Seen(r, c, last.index) \in Nat /\ Seen(r, c, last.index) < (r + 1) * (disk.groups * disk.blocks)
    <3>1. r \in Nat /\ c \in Below(disk.groups) /\ last.index \in Below(disk.blocks) /\ n <= Seen(r, c, last.index)
      BY <1>6, <2>1 DEF Where, LoopStates
    <3> QED BY <3>1, SeenGrows
  <2> DEFINE d == disk.groups * disk.blocks
  <2>5. d \in Nat \ {0} /\ n = (size + 1) * d
    <3>1. disk.groups \in Nat \ {0} /\ disk.blocks \in Nat \ {0}
      BY DiskSizes
    <3>2. (size + 1) * disk.groups * disk.blocks = (size + 1) * (disk.groups * disk.blocks)
      BY <3>1
    <3> QED BY <3>1, <3>2 DEF MaxTurns
  <2>6. n \in Nat /\ Seen(r, c, last.index) < (r + 1) * d
    BY <1>1, <2>4
  <2> HIDE DEF n, d
  <2>7. ~(r < size + 1)
    <3> SUFFICES ASSUME r < size + 1 PROVE FALSE
      OBVIOUS
    <3>1. CASE r = size
      <4>1. n < (size + 1) * d
        BY <2>4, <2>5, <2>6, <3>1
      <4> QED BY <2>5, <2>6, <4>1
    <3>2. CASE r < size
      <4>1. d * (r + 1) + d <= d * (size + 1)
        BY <2>4, <2>5, <3>2, MulMonotone
      <4>2. d * (r + 1) = (r + 1) * d /\ d * (size + 1) = (size + 1) * d
        BY <2>4, <2>5
      <4>3. (r + 1) * d \in Nat /\ n < (r + 1) * d
        BY <2>4, <2>5, <2>6
      <4> QED BY <2>5, <2>6, <4>1, <4>2, <4>3
    <3> QED BY <2>4, <3>1, <3>2
  <2>8. Cardinality(last.allocated) >= r - 1
    BY <2>1, <2>4, <2>7 DEF Fruitful
  <2> QED BY <2>2, <2>3, <2>4, <2>7, <2>8
<1> QED BY <1>1, <1>7, <1>8 DEF Progress, last

-----------------------------------------------------------------------------
\* A path is known by its directory and its last name.
LEMMA PathIsKnown ==
    ASSUME NEW p \in Paths \ {<<>>}, NEW q \in Paths \ {<<>>}, Front(p) = Front(q), Last(p) = Last(q)
    PROVE  p = q
<1>1. PICK S : p \in Seq(S) /\ q \in Seq(S)
  BY FfsAssumption DEF FfsAssumption
<1>2. ASSUME NEW s \in Seq(S), s # <<>>
      PROVE  /\ Len(s) \in Nat \ {0} /\ s \in [1 .. Len(s) -> S]
             /\ Front(s) \in Seq(S) /\ Len(Front(s)) = Len(s) - 1
             /\ \A i \in 1 .. Len(s) - 1 : Front(s)[i] = s[i]
  <2>1. Len(s) \in Nat /\ s \in [1 .. Len(s) -> S] /\ Len(s) # 0
    BY <1>2, LenProperties, EmptySeq
  <2>2. 1 \in 1 .. Len(s) + 1 /\ Len(s) - 1 \in 0 .. Len(s)
    BY <2>1
  <2>3. Front(s) = [i \in 1 .. Len(s) - 1 |-> s[i]]
    BY <2>1, <2>2 DEF Front
  <2>4. Front(s) \in [1 .. Len(s) - 1 -> S]
    BY <2>1, <2>3
  <2>5. Len(s) - 1 \in Nat
    BY <2>1
  <2>6. Front(s) \in Seq(S) /\ Len(Front(s)) = Len(s) - 1
    BY <2>4, <2>5
  <2> QED BY <2>1, <2>3, <2>6
<1>3. /\ Len(p) \in Nat \ {0} /\ p \in [1 .. Len(p) -> S]
      /\ Len(q) \in Nat \ {0} /\ q \in [1 .. Len(q) -> S]
      /\ Len(Front(p)) = Len(p) - 1 /\ Len(Front(q)) = Len(q) - 1
      /\ \A i \in 1 .. Len(p) - 1 : Front(p)[i] = p[i]
      /\ \A i \in 1 .. Len(q) - 1 : Front(q)[i] = q[i]
  BY <1>1, <1>2
<1> DEFINE n == Len(p)
           m == Len(q)
<1>4. n = m /\ n \in Nat
  <2>1. n \in Nat /\ m \in Nat /\ n - 1 = m - 1
    BY <1>3
  <2> HIDE DEF n, m
  <2> QED BY <2>1
<1>5. ASSUME NEW i \in 1 .. Len(p) PROVE p[i] = q[i]
  <2>1. CASE i = Len(p)
    BY <1>4, <2>1 DEF Last
  <2>2. CASE i # Len(p)
    <3>1. i \in 1 .. n /\ i # n
      BY <2>2
    <3>2. i \in 1 .. n - 1
      <4> HIDE DEF n
      <4> QED BY <1>4, <3>1
    <3> QED BY <1>3, <1>4, <3>2
  <2> QED BY <2>1, <2>2
<1> QED BY <1>3, <1>4, <1>5

LEMMA FrontIsPath ==
    ASSUME NEW p \in Paths \ {<<>>}
    PROVE  Front(p) \in Paths /\ Front(p) = SubSeq(p, 1, Len(p) - 1) /\ <<>> \in Paths
BY FfsAssumption DEF FfsAssumption, Front

\* The directory that a number leads to, and what its entries lead to.
LEMMA DirectoryOf ==
    ASSUME NamesOK, TreeOK, NEW p \in Bound, name_to_inode_map[p] \in DOMAIN dir_data
    PROVE  p \in Directories
<1>1. PICK q \in Directories : name_to_inode_map[q] = name_to_inode_map[p]
  BY DEF TreeOK
<1> QED BY <1>1 DEF NamesOK, Directories

LEMMA EntriesLead ==
    ASSUME NamesOK, TreeOK, NEW path \in Paths \ {<<>>}, Front(path) \in Directories
    PROVE  LET parent == name_to_inode_map[Front(path)]
           IN  /\ Named(parent, Last(path)) <=> path \in Bound
               /\ \A e \in dir_data[parent] : e.name = Last(path) =>
                     path \in Bound /\ e = Entry(Last(path), name_to_inode_map[path])
<1> DEFINE parent == name_to_inode_map[Front(path)]
<1>1. dir_data[parent] = {Entry(Last(q), name_to_inode_map[q]) : q \in Children(Front(path))}
  BY DEF TreeOK
<1>2. ASSUME NEW e \in dir_data[parent], e.name = Last(path)
      PROVE  path \in Bound /\ e = Entry(Last(path), name_to_inode_map[path])
  <2>1. PICK q \in Children(Front(path)) : e = Entry(Last(q), name_to_inode_map[q])
    BY <1>1
  <2>2. q \in Bound /\ q \in Paths \ {<<>>} /\ Front(q) = Front(path) /\ Last(q) = Last(path)
    BY <1>2, <2>1 DEF Children, Bound, Entry
  <2>3. q = path
    BY <2>2, PathIsKnown
  <2> QED BY <2>1, <2>2, <2>3
<1>3. ASSUME path \in Bound PROVE Named(parent, Last(path))
  <2>1. path \in Children(Front(path))
    BY <1>3 DEF Children
  <2>2. Entry(Last(path), name_to_inode_map[path]) \in dir_data[parent]
    BY <1>1, <2>1
  <2>3. Entry(Last(path), name_to_inode_map[path]).name = Last(path)
    BY DEF Entry
  <2> QED BY <2>2, <2>3 DEF Named
<1>4. Named(parent, Last(path)) => path \in Bound
  BY <1>2 DEF Named
<1> QED BY <1>2, <1>3, <1>4

\* No path leads through a path that is not a directory.
LEMMA NoChildren ==
    ASSUME TreeOK, NEW p, p \notin Directories
    PROVE  Children(p) = {}
BY DEF TreeOK, Children

-----------------------------------------------------------------------------
\* What do_create chooses.
NewGroup(path, type) == pick_group(Front(path), type)
NewIndex(path, type) == find_free_inode(NewGroup(path, type))
NewNumber(path, type) == NewIndex(path, type) + NewGroup(path, type) * disk.inodes
NewTarget(path, type) == IF disk.spreadData THEN find_min_data_usage ELSE NewGroup(path, type)
NewBlocks(path, size, type) ==
    allocate_blocks(NewTarget(path, type), size, NewNumber(path, type))
CanCreate(path, size) ==
    /\ total_inodes_free # 0 /\ total_data_free >= size
    /\ name_to_inode_map[Front(path)] # -1 /\ name_to_inode_map[Front(path)] \in DOMAIN dir_data
    /\ ~Named(name_to_inode_map[Front(path)], Last(path))

\* An inode that is free, and blocks, while there are any.
LEMMA NewFile ==
    ASSUME disk \in Disks, Books, NEW path \in Paths \ {<<>>}, NEW size \in Nat, NEW type,
           CanCreate(path, size)
    PROVE  /\ Front(path) \in Directories /\ path \notin Bound
           /\ disk.faraway = 1 => NewIndex(path, type) # -1
           /\ data_bitmap \in [Groups -> [Below(disk.blocks) -> Int]]
           /\ NewTarget(path, type) \in Int /\ NewGroup(path, type) \in Groups
           /\ NewIndex(path, type) # -1 =>
                 /\ NewIndex(path, type) \in Below(disk.inodes)
                 /\ NewNumber(path, type) = At(disk.inodes, NewGroup(path, type), NewIndex(path, type))
                 /\ NewNumber(path, type) \in Inums /\ NewNumber(path, type) \notin Live
                 /\ NewNumber(path, type) \in Int /\ NewNumber(path, type) # FREE
                 /\ GroupOf(NewNumber(path, type)) = NewGroup(path, type)
                 /\ size > 0 => NewBlocks(path, size, type).end = "done"
<1> DEFINE group == NewGroup(path, type)
           index == NewIndex(path, type)
           number == NewNumber(path, type)
           target == NewTarget(path, type)
<1>1. NamesOK /\ NodesOK /\ TreeOK /\ InodeBitsOK /\ DataBitsOK /\ CountersOK
  BY DEF Books
<1>2. /\ disk.groups \in Nat \ {0} /\ disk.blocks \in Nat \ {0} /\ disk.inodes \in Nat \ {0}
      /\ disk.faraway \in Nat /\ Groups = Below(disk.groups) /\ Groups \subseteq Nat
  BY DiskSizes, GroupsBelow
<1>3. Front(path) \in Bound
  BY FrontIsPath DEF Bound, CanCreate
<1>4. Front(path) \in Directories
  BY <1>1, <1>3, DirectoryOf DEF CanCreate
<1>5. path \notin Bound
  BY <1>1, <1>4, EntriesLead DEF CanCreate
<1>6. group \in Groups /\ (disk.faraway = 1 => get_free_count(inode_bitmap[group]) > 0)
  BY <1>1, <1>3, PickedGroup DEF CanCreate, NewGroup
<1>7. /\ IsBitmap(inode_bitmap, disk.inodes)
      /\ \A g \in Groups, i \in Below(disk.inodes) :
            inode_bitmap[g][i] = FREE <=> At(disk.inodes, g, i) \notin Live
  BY <1>1, InodeBooks
<1>8. /\ index # -1 => index \in Below(disk.inodes) /\ inode_bitmap[group][index] = FREE
      /\ disk.faraway = 1 => index # -1
  BY <1>6, <1>7, FoundInode DEF NewIndex
<1>9. data_bitmap \in [Groups -> [Below(disk.blocks) -> Int]]
  <2>1. Live \cup {FREE} \subseteq Int
    BY <1>1, LiveIsFinite DEF Inums, Below, FREE
  <2> QED BY <1>1, <2>1 DEF DataBitsOK
<1>10. target \in Groups \cup {-1} /\ (total_data_free > 0 => target \in Groups)
  BY <1>1, <1>6, MinDataUsage DEF NewTarget
<1>11. target \in Int
  BY <1>2, <1>10
<1>12. ASSUME index # -1
       PROVE  /\ number = At(disk.inodes, group, index) /\ number \in Inums /\ number \notin Live
              /\ number \in Int /\ number # FREE /\ GroupOf(number) = group
  <2>1. number = At(disk.inodes, group, index)
    <3>1. group \in Nat /\ index \in Nat
      BY <1>2, <1>6, <1>8, <1>12 DEF Below
    <3>2. number = index + group * disk.inodes /\ At(disk.inodes, group, index) = group * disk.inodes + index
      BY DEF NewNumber, At
    <3> DEFINE base == group * disk.inodes
    <3> HIDE DEF number, group, index
    <3>3. base \in Nat
      BY <1>2, <3>1
    <3> HIDE DEF base
    <3>4. number = index + base /\ At(disk.inodes, group, index) = base + index
      BY <3>2 DEF base
    <3> QED BY <3>1, <3>3, <3>4
  <2>2. /\ At(disk.inodes, group, index) \in Inums
        /\ At(disk.inodes, group, index) \div disk.inodes = group
    <3>1. group \in Below(disk.groups) /\ index \in Below(disk.inodes)
      BY <1>2, <1>6, <1>8, <1>12
    <3>2. disk.groups \in Nat /\ disk.inodes \in Nat \ {0}
      BY <1>2
    <3> HIDE DEF group, index
    <3> QED BY <3>1, <3>2, NumberOfPlace DEF Inums
  <2>3. At(disk.inodes, group, index) \notin Live
    BY <1>6, <1>7, <1>8, <1>12
  <2>4. number \in Int /\ number # FREE
    BY <2>1, <2>2 DEF Inums, Below, FREE
  <2> QED BY <2>1, <2>2, <2>3, <2>4 DEF GroupOf
<1>13. ASSUME index # -1, size > 0 PROVE NewBlocks(path, size, type).end = "done"
  <2>1. /\ Cardinality(Owned) \in Nat
        /\ Cardinality(FreeOf(data_bitmap, disk.blocks)) = disk.groups * disk.blocks - Cardinality(Owned)
    BY <1>1, DataBooks
  <2>2. Cardinality(FreeOf(data_bitmap, disk.blocks)) = total_data_free
    BY <1>1, <2>1 DEF CountersOK
  <2>3. total_data_free >= size /\ total_data_free \in Int
    BY <1>1, <1>2, <2>1 DEF CanCreate, CountersOK
  <2>4. total_data_free > 0 /\ total_data_free \in Nat
    BY <1>13, <2>3
  <2>5. allocate_blocks(target, size, number).end = "done"
    BY <1>9, <1>10, <1>12, <1>13, <2>2, <2>3, <2>4, BlocksAreFound
  <2> QED BY <2>5 DEF NewBlocks
<1> HIDE DEF group, index, number, target
<1>14. index # -1 => /\ index \in Below(disk.inodes)
                     /\ number = At(disk.inodes, group, index)
                     /\ number \in Inums /\ number \notin Live
                     /\ number \in Int /\ number # FREE
                     /\ GroupOf(number) = group
                     /\ size > 0 => NewBlocks(path, size, type).end = "done"
  BY <1>8, <1>12, <1>13
<1> QED BY <1>4, <1>5, <1>6, <1>8, <1>9, <1>11, <1>14 DEF group, index, number, target

\* A file that can be entered, and the tables once it is.
Fits(path, type, size, group, index, number, blocks) ==
    /\ path \in Paths \ {<<>>} /\ path \notin Bound /\ Front(path) \in Directories
    /\ type \in {"regular", "directory"} /\ size \in Nat
    /\ group \in Groups /\ index \in Below(disk.inodes) /\ number = At(disk.inodes, group, index)
    /\ number \in Inums /\ number \notin Live
    /\ blocks \in LoopStates /\ Marked(blocks, number) /\ Cardinality(blocks.allocated) = size
Entered(path, type, size, group, index, number, blocks) ==
    LET parent == name_to_inode_map[Front(path)]
        entered == [dir_data EXCEPT ![parent] = @ \cup {Entry(Last(path), number)}]
    IN
    /\ inode_bitmap' = [inode_bitmap EXCEPT ![group][index % disk.inodes] = number]
    /\ data_bitmap' = blocks.bitmap
    /\ inodes' = Put(inodes, number, [type |-> type, blocks |-> blocks.allocated])
    /\ dir_data' = IF type = "directory" THEN Put(entered, number, {}) ELSE entered
    /\ name_to_inode_map' = [name_to_inode_map EXCEPT ![path] = number]
    /\ symbol_map' = symbol_map \cup {number}
    /\ available_symbols' = available_symbols - 1
    /\ total_inodes_free' = total_inodes_free - 1
    /\ total_data_free' = total_data_free - size
    /\ UNCHANGED disk

\* The names and the inodes.
LEMMA NamesEntered ==
    ASSUME disk \in Disks, NamesOK, NodesOK, TreeOK, NEW path, NEW type, NEW size, NEW group, NEW index,
           NEW number, NEW blocks, Fits(path, type, size, group, index, number, blocks),
           Entered(path, type, size, group, index, number, blocks)
    PROVE  /\ Bound' = Bound \cup {path} /\ Live' = Live \cup {number}
           /\ Directories' = IF type = "directory" THEN Directories \cup {path} ELSE Directories
           /\ name_to_inode_map'[path] = number
           /\ \A p \in Bound : name_to_inode_map'[p] = name_to_inode_map[p] /\ p # path
                               /\ name_to_inode_map[p] \in Live /\ name_to_inode_map[p] # number
           /\ inodes'[number] = [type |-> type, blocks |-> blocks.allocated]
           /\ \A i \in Live : inodes'[i] = inodes[i] /\ i # number
           /\ NamesOK' /\ NodesOK'
<1>1. /\ name_to_inode_map \in [Paths -> Inums \cup {-1}]
      /\ name_to_inode_map' = [name_to_inode_map EXCEPT ![path] = number]
      /\ path \in Paths /\ path # <<>> /\ path \notin Bound /\ number \in Inums /\ number \notin Live
      /\ disk' = disk
  BY DEF Fits, Entered, NamesOK
<1>2. name_to_inode_map'[path] = number /\ number # -1
      /\ \A p \in Paths : p # path => name_to_inode_map'[p] = name_to_inode_map[p]
  BY <1>1 DEF Inums, Below
<1>3. Bound' = Bound \cup {path}
  BY <1>1, <1>2 DEF Bound
<1>4. \A p \in Bound : /\ name_to_inode_map'[p] = name_to_inode_map[p] /\ p # path
                       /\ name_to_inode_map[p] \in Live /\ name_to_inode_map[p] # number
  BY <1>1, <1>2 DEF Bound, Live
<1>5. Live' = Live \cup {number}
  <2>1. Live' = {name_to_inode_map'[p] : p \in Bound'}
    BY DEF Live
  <2>2. Live = {name_to_inode_map[p] : p \in Bound}
    BY DEF Live
  <2> QED BY <1>2, <1>3, <1>4, <2>1, <2>2
<1>6. Inums' = Inums
  BY <1>1 DEF Inums
<1>7. inodes' = Put(inodes, number, [type |-> type, blocks |-> blocks.allocated])
  BY DEF Entered
<1>8. /\ DOMAIN inodes' = DOMAIN inodes \cup {number}
      /\ inodes'[number] = [type |-> type, blocks |-> blocks.allocated]
      /\ \A i \in DOMAIN inodes : i # number => inodes'[i] = inodes[i]
  BY <1>7 DEF Put
<1>9. \A i \in Live : inodes'[i] = inodes[i] /\ i # number
  BY <1>1, <1>8 DEF NodesOK
<1>10. NamesOK'
  <2>1. name_to_inode_map' \in [Paths -> Inums \cup {-1}]
    BY <1>1
  <2>2. name_to_inode_map'[<<>>] = 0
    <3>1. <<>> \in Bound
      BY LiveIsFinite
    <3> QED BY <1>4, <3>1 DEF NamesOK
  <2>3. \A p, q \in Bound' : name_to_inode_map'[p] = name_to_inode_map'[q] => p = q
    BY <1>2, <1>3, <1>4 DEF NamesOK
  <2> QED BY <1>6, <2>1, <2>2, <2>3 DEF NamesOK
<1>11. /\ inodes'[number].type = type /\ inodes'[number].blocks = blocks.allocated
       /\ type \in {"regular", "directory"} /\ blocks.allocated \subseteq BlockNumbers
       /\ BlockNumbers' = BlockNumbers
  BY <1>1, <1>8 DEF Fits, LoopStates, BlockNumbers
<1>12. NodesOK'
  <2>1. Live' \subseteq DOMAIN inodes'
    BY <1>5, <1>8 DEF NodesOK
  <2>2. \A i \in Live' : /\ inodes'[i].blocks \subseteq BlockNumbers
                         /\ inodes'[i].type \in {"regular", "directory"}
    BY <1>5, <1>9, <1>11 DEF NodesOK
  <2>3. \A i \in DOMAIN inodes' : inodes'[i].type = "directory" => i \in Live'
    BY <1>5, <1>8, <1>11 DEF NodesOK
  <2> QED BY <1>11, <2>1, <2>2, <2>3 DEF NodesOK
<1>13. Directories' = IF type = "directory" THEN Directories \cup {path} ELSE Directories
  <2>1. Directories' = {p \in Bound' : inodes'[name_to_inode_map'[p]].type = "directory"}
    BY DEF Directories
  <2>2. \A p \in Bound : inodes'[name_to_inode_map'[p]] = inodes[name_to_inode_map[p]]
    BY <1>4, <1>9
  <2> QED BY <1>2, <1>3, <1>11, <2>1, <2>2 DEF Directories
<1> QED BY <1>2, <1>3, <1>4, <1>5, <1>8, <1>9, <1>10, <1>12, <1>13

\* The directories.
LEMMA TreeEntered ==
    ASSUME disk \in Disks, NamesOK, NodesOK, TreeOK, NEW path, NEW type, NEW size, NEW group, NEW index,
           NEW number, NEW blocks, Fits(path, type, size, group, index, number, blocks),
           Entered(path, type, size, group, index, number, blocks)
    PROVE  TreeOK'
<1> DEFINE up == Front(path)
           parent == name_to_inode_map[up]
           entered == [dir_data EXCEPT ![parent] = @ \cup {Entry(Last(path), number)}]
           Entries(p) == {Entry(Last(q), name_to_inode_map[q]) : q \in Children(p)}
<1>1. /\ Bound' = Bound \cup {path} /\ name_to_inode_map'[path] = number
      /\ Directories' = IF type = "directory" THEN Directories \cup {path} ELSE Directories
      /\ \A p \in Bound : name_to_inode_map'[p] = name_to_inode_map[p] /\ p # path
                          /\ name_to_inode_map[p] \in Live /\ name_to_inode_map[p] # number
  BY NamesEntered
<1>2. /\ path \notin Bound /\ path # <<>> /\ up \in Directories /\ Directories \subseteq Bound
  BY DEF Fits, Directories
<1>3. dir_data' = IF type = "directory" THEN Put(entered, number, {}) ELSE entered
  BY DEF Entered
<1>4. /\ <<>> \in Directories /\ \A p \in Bound \ {<<>>} : Front(p) \in Directories
      /\ DOMAIN dir_data = {name_to_inode_map[p] : p \in Directories}
      /\ \A p \in Directories : dir_data[name_to_inode_map[p]] = Entries(p)
  BY DEF TreeOK
<1>5. number \notin DOMAIN dir_data /\ parent \in DOMAIN dir_data
  BY <1>1, <1>2, <1>4
<1>6. \A p : Children(p)' = Children(p) \cup (IF p = up THEN {path} ELSE {})
  <2> SUFFICES ASSUME NEW p PROVE Children(p)' = Children(p) \cup (IF p = up THEN {path} ELSE {})
    OBVIOUS
  <2>1. Children(p)' = {q \in Bound' \ {<<>>} : Front(q) = p}
    BY DEF Children
  <2> QED BY <1>1, <1>2, <2>1 DEF Children
<1>7. Children(path) = {} /\ path # up
  BY <1>2, NoChildren
<1>9. ASSUME NEW p
      PROVE  {Entry(Last(q), name_to_inode_map'[q]) : q \in Children(p)'}
                 = IF p = up THEN Entries(p) \cup {Entry(Last(path), number)} ELSE Entries(p)
  <2>1. \A q \in Children(p) : q \in Bound
    BY DEF Children
  <2>2. \A q \in Children(p) : Entry(Last(q), name_to_inode_map'[q]) = Entry(Last(q), name_to_inode_map[q])
    BY <1>1, <2>1
  <2>3. CASE p = up
    BY <1>1, <1>6, <2>2, <2>3
  <2>4. CASE p # up
    BY <1>1, <1>6, <2>2, <2>4
  <2> QED BY <2>3, <2>4
<1> HIDE DEF Entries
<1>10. /\ DOMAIN entered = DOMAIN dir_data /\ entered[parent] = Entries(up) \cup {Entry(Last(path), number)}
       /\ \A p \in Directories : p # up => entered[name_to_inode_map[p]] = Entries(p)
  <2>1. \A p \in Directories : p # up => name_to_inode_map[p] # parent
    BY <1>2 DEF NamesOK
  <2> QED BY <1>2, <1>4, <1>5, <2>1
<1> HIDE DEF entered
<1>11. ASSUME NEW p \in Directories
       PROVE  dir_data'[name_to_inode_map[p]]
                  = IF p = up THEN Entries(p) \cup {Entry(Last(path), number)} ELSE Entries(p)
  <2>1. name_to_inode_map[p] # number /\ name_to_inode_map[p] \in DOMAIN dir_data
    BY <1>1, <1>2, <1>4
  <2>2. dir_data'[name_to_inode_map[p]] = entered[name_to_inode_map[p]]
    BY <1>3, <1>10, <2>1 DEF Put
  <2> QED BY <1>10, <2>2
<1>12. DOMAIN dir_data' = {name_to_inode_map'[p] : p \in Directories'}
  <2>1. {name_to_inode_map'[p] : p \in Directories} = {name_to_inode_map[p] : p \in Directories}
    BY <1>1, <1>2
  <2>2. CASE type = "directory"
    <3>1. DOMAIN dir_data' = DOMAIN dir_data \cup {number}
      BY <1>3, <1>10, <2>2 DEF Put
    <3>2. {name_to_inode_map'[p] : p \in Directories \cup {path}}
             = {name_to_inode_map'[p] : p \in Directories} \cup {number}
      BY <1>1
    <3> QED BY <1>1, <1>4, <2>1, <2>2, <3>1, <3>2
  <2>3. CASE type # "directory"
    BY <1>1, <1>3, <1>4, <1>10, <2>1, <2>3
  <2> QED BY <2>2, <2>3
<1>13. ASSUME NEW p \in Directories'
       PROVE  dir_data'[name_to_inode_map'[p]]
                  = {Entry(Last(q), name_to_inode_map'[q]) : q \in Children(p)'}
  <2>1. CASE p \in Directories
    <3>1. name_to_inode_map'[p] = name_to_inode_map[p]
      BY <1>1, <1>2, <2>1
    <3> QED BY <1>9, <1>11, <2>1, <3>1
  <2>2. CASE p \notin Directories
    <3>1. p = path /\ type = "directory"
      BY <1>1, <2>2
    <3>2. dir_data'[number] = {}
      BY <1>3, <3>1 DEF Put
    <3>3. Entries(path) = {}
      BY <1>7 DEF Entries
    <3>4. {Entry(Last(q), name_to_inode_map'[q]) : q \in Children(path)'} = {}
      BY <1>7, <1>9, <3>3
    <3> QED BY <1>1, <3>1, <3>2, <3>4
  <2> QED BY <2>1, <2>2
<1>14. <<>> \in Directories'
  BY <1>1, <1>4
<1>15. ASSUME NEW p \in Bound' \ {<<>>} PROVE Front(p) \in Directories'
  BY <1>1, <1>2, <1>4
<1> QED BY <1>12, <1>13, <1>14, <1>15 DEF TreeOK

\* The bitmaps.
LEMMA BitsEntered ==
    ASSUME disk \in Disks, NamesOK, NodesOK, TreeOK, InodeBitsOK, DataBitsOK,
           NEW path, NEW type, NEW size, NEW group, NEW index,
           NEW number, NEW blocks, Fits(path, type, size, group, index, number, blocks),
           Entered(path, type, size, group, index, number, blocks)
    PROVE  InodeBitsOK' /\ DataBitsOK'
<1>1. /\ Live' = Live \cup {number} /\ number \notin Live
      /\ inodes'[number].blocks = blocks.allocated
      /\ \A i \in Live : inodes'[i] = inodes[i]
      /\ disk' = disk /\ Groups' = Groups
  <2>1. /\ Live' = Live \cup {number}
        /\ inodes'[number] = [type |-> type, blocks |-> blocks.allocated]
        /\ \A i \in Live : inodes'[i] = inodes[i]
    BY NamesEntered
  <2>2. number \notin Live /\ disk' = disk
    BY DEF Fits, Entered
  <2> QED BY <2>1, <2>2 DEF Groups
<1>2. /\ disk.groups \in Nat \ {0} /\ disk.blocks \in Nat \ {0} /\ disk.inodes \in Nat \ {0}
      /\ Groups = Below(disk.groups) /\ group \in Groups /\ index \in Below(disk.inodes)
      /\ number = At(disk.inodes, group, index)
  BY DiskSizes, GroupsBelow DEF Fits
<1>3. \A i \in Live : i # FREE
  BY LiveIsFinite DEF Inums, Below, FREE
<1>4. number # FREE
  BY DEF Fits, Inums, Below, FREE
<1>5. InodeBitsOK'
  <2>1. index % disk.inodes = index
    <3>1. index \in 0 .. 2 * disk.inodes - 1 /\ index < disk.inodes
      BY <1>2 DEF Below
    <3> QED BY <1>2, <3>1, Around
  <2>2. inode_bitmap' = [inode_bitmap EXCEPT ![group][index] = number]
    BY <2>1 DEF Entered
  <2>3. inode_bitmap = [g \in Groups |-> [i \in Below(disk.inodes) |->
            IF At(disk.inodes, g, i) \in Live THEN At(disk.inodes, g, i) ELSE FREE]]
    BY DEF InodeBitsOK
  <2>4. \A g \in Groups, i \in Below(disk.inodes) :
           At(disk.inodes, g, i) = number => g = group /\ i = index
    BY <1>2, PlacesDiffer
  <2>5. inode_bitmap' = [g \in Groups |-> [i \in Below(disk.inodes) |->
            IF At(disk.inodes, g, i) \in Live \cup {number} THEN At(disk.inodes, g, i) ELSE FREE]]
    BY <1>2, <2>2, <2>3, <2>4
  <2> QED BY <1>1, <2>5 DEF InodeBitsOK
<1>6. blocks.bitmap \in [Groups -> [Below(disk.blocks) -> Int]] /\ data_bitmap' = blocks.bitmap
  BY DEF Fits, LoopStates, Entered
<1>7. ASSUME NEW g \in Groups, NEW i \in Below(disk.blocks)
      PROVE  IF At(disk.blocks, g, i) \in blocks.allocated
             THEN data_bitmap'[g][i] = number /\ data_bitmap[g][i] = FREE
             ELSE data_bitmap'[g][i] = data_bitmap[g][i]
  BY <1>6 DEF Fits, Marked
<1>8. \A g \in Groups, i \in Below(disk.blocks) : data_bitmap[g][i] \in Live \cup {FREE}
  BY DEF DataBitsOK
<1>9. data_bitmap' \in [Groups -> [Below(disk.blocks) -> Live \cup {number} \cup {FREE}]]
  <2>1. \A g \in Groups, i \in Below(disk.blocks) : data_bitmap'[g][i] \in Live \cup {number} \cup {FREE}
    BY <1>7, <1>8
  <2> QED BY <1>6, <2>1
<1>10. ASSUME NEW g \in Groups, NEW i \in Below(disk.blocks), NEW n \in Live \cup {number}
       PROVE  data_bitmap'[g][i] = n <=> At(disk.blocks, g, i) \in inodes'[n].blocks
  <2>1. CASE n = number
    BY <1>1, <1>4, <1>7, <1>8, <2>1
  <2>2. CASE n \in Live
    <3>1. data_bitmap[g][i] = n <=> At(disk.blocks, g, i) \in inodes[n].blocks
      BY <2>2 DEF DataBitsOK
    <3> QED BY <1>1, <1>3, <1>7, <2>2, <3>1
  <2> QED BY <2>1, <2>2
<1>11. DataBitsOK'
  BY <1>1, <1>9, <1>10 DEF DataBitsOK
<1> QED BY <1>5, <1>11

\* The counters.
LEMMA CountersEntered ==
    ASSUME disk \in Disks, NamesOK, NodesOK, TreeOK, DataBitsOK, CountersOK,
           NEW path, NEW type, NEW size, NEW group, NEW index,
           NEW number, NEW blocks, Fits(path, type, size, group, index, number, blocks),
           Entered(path, type, size, group, index, number, blocks)
    PROVE  CountersOK'
<1> DEFINE A == blocks.allocated
           all == disk.groups * disk.blocks
           nodes == disk.groups * disk.inodes
<1>1. /\ Live' = Live \cup {number} /\ number \notin Live
      /\ inodes'[number].blocks = A
      /\ \A i \in Live : inodes'[i] = inodes[i]
      /\ disk' = disk
  <2>1. /\ Live' = Live \cup {number}
        /\ inodes'[number] = [type |-> type, blocks |-> blocks.allocated]
        /\ \A i \in Live : inodes'[i] = inodes[i]
    BY NamesEntered
  <2>2. number \notin Live /\ disk' = disk
    BY DEF Fits, Entered
  <2> QED BY <2>1, <2>2
<1>2. /\ disk.groups \in Nat \ {0} /\ disk.blocks \in Nat \ {0} /\ disk.inodes \in Nat \ {0}
      /\ Groups = Below(disk.groups) /\ all \in Nat /\ nodes \in Nat
  BY DiskSizes, GroupsBelow
<1>3. IsFiniteSet(Live) /\ Cardinality(Live) \in Nat
  BY LiveIsFinite
<1>4. IsFiniteSet(Owned) /\ Cardinality(Owned) \in Nat /\ Owned \subseteq BlockNumbers
      /\ \A b \in BlockNumbers :
            data_bitmap[b \div disk.blocks][b % disk.blocks] = FREE <=> b \notin Owned
  BY DataBooks
<1>5. A \subseteq Below(all) /\ BlockNumbers = Below(all) /\ Cardinality(A) = size /\ size \in Nat
      /\ Marked(blocks, number)
  BY DEF Fits, LoopStates, BlockNumbers
<1>6. A \cap Owned = {}
  <2> SUFFICES ASSUME NEW b \in A PROVE b \notin Owned
    OBVIOUS
  <2>1. /\ b \div disk.blocks \in Groups /\ b % disk.blocks \in Below(disk.blocks)
        /\ b = At(disk.blocks, b \div disk.blocks, b % disk.blocks)
    BY <1>2, <1>5, PlaceOfNumber
  <2>2. data_bitmap[b \div disk.blocks][b % disk.blocks] = FREE
    BY <1>5, <2>1 DEF Marked
  <2> QED BY <1>4, <1>5, <2>2
<1>7. Owned' = Owned \cup A
  <2>1. Owned' = UNION {inodes'[i].blocks : i \in Live'}
    BY DEF Owned
  <2> QED BY <1>1, <2>1 DEF Owned
<1>8. Cardinality(Live') = Cardinality(Live) + 1
  BY <1>1, <1>3, FS_AddElement
<1> HIDE DEF A, all, nodes
<1>9. Cardinality(Owned') = Cardinality(Owned) + size
  <2>1. IsFiniteSet(A)
    BY <1>2, <1>5, BelowIsFinite
  <2>2. Cardinality(Owned \cup A) = Cardinality(Owned) + Cardinality(A) - Cardinality(Owned \cap A)
    BY <1>4, <2>1, FS_Union
  <2>3. Cardinality(Owned \cap A) = 0
    <3>1. Owned \cap A = {}
      BY <1>6
    <3> QED BY <3>1, FS_EmptySet
  <2>4. Cardinality(Owned') = Cardinality(Owned) + Cardinality(A) - 0
    BY <1>7, <2>2, <2>3
  <2> QED BY <1>4, <1>5, <2>4
<1>10. /\ total_inodes_free = nodes - Cardinality(Live)
       /\ total_data_free = all - Cardinality(Owned)
       /\ symbol_map = Live /\ available_symbols = Symbols - Cardinality(Live)
  BY DEF CountersOK, all, nodes
<1>11. /\ total_inodes_free' = total_inodes_free - 1 /\ total_data_free' = total_data_free - size
       /\ symbol_map' = symbol_map \cup {number} /\ available_symbols' = available_symbols - 1
  BY DEF Entered
<1>12. Symbols \in Nat
  BY FfsAssumption DEF FfsAssumption
<1>13. /\ total_inodes_free' = nodes - (Cardinality(Live) + 1)
       /\ total_data_free' = all - (Cardinality(Owned) + size)
       /\ available_symbols' = Symbols - (Cardinality(Live) + 1)
  BY <1>2, <1>3, <1>4, <1>5, <1>10, <1>11, <1>12
<1>14. symbol_map' = Live'
  BY <1>1, <1>10, <1>11
<1>15. all = disk'.groups * disk'.blocks /\ nodes = disk'.groups * disk'.inodes
  BY <1>1 DEF all, nodes
<1> QED BY <1>8, <1>9, <1>13, <1>14, <1>15 DEF CountersOK

LEMMA BooksEntered ==
    ASSUME disk \in Disks, Books, NEW path, NEW type, NEW size, NEW group, NEW index,
           NEW number, NEW blocks, Fits(path, type, size, group, index, number, blocks),
           Entered(path, type, size, group, index, number, blocks)
    PROVE  Books'
<1>1. NamesOK /\ NodesOK /\ TreeOK /\ InodeBitsOK /\ DataBitsOK /\ CountersOK
  BY DEF Books
<1>2. NamesOK' /\ NodesOK' /\ TreeOK'
  BY <1>1, NamesEntered, TreeEntered
<1>3. InodeBitsOK' /\ DataBitsOK' /\ CountersOK'
  BY <1>1, BitsEntered, CountersEntered
<1> QED BY <1>2, <1>3 DEF Books

-----------------------------------------------------------------------------
\* The places that do_delete resets.
LEMMA PlacesAre ==
    ASSUME NEW G \in Nat, NEW n \in Nat \ {0}, NEW numbers, numbers \subseteq Below(G * n),
           NEW g \in Below(G), NEW i \in Below(n)
    PROVE  <<g, i>> \in Places(numbers, n) <=> At(n, g, i) \in numbers
<1>1. ASSUME <<g, i>> \in Places(numbers, n) PROVE At(n, g, i) \in numbers
  <2>1. PICK k \in numbers : <<g, i>> = <<k \div n, k % n>>
    BY <1>1 DEF Places
  <2>2. k = At(n, k \div n, k % n)
    BY PlaceOfNumber
  <2> QED BY <2>1, <2>2
<1>2. ASSUME At(n, g, i) \in numbers PROVE <<g, i>> \in Places(numbers, n)
  <2>1. At(n, g, i) \div n = g /\ At(n, g, i) % n = i
    BY NumberOfPlace
  <2> QED BY <1>2, <2>1 DEF Places
<1> QED BY <1>1, <1>2

\* A file that can be removed, and the tables once it is.
Leaves(path, number) ==
    /\ path \in Bound /\ path # <<>> /\ number = name_to_inode_map[path]
    /\ Front(path) \in Directories /\ inodes[number].type # "directory"
Removed(path, number) ==
    /\ dir_data' = [dir_data EXCEPT ![name_to_inode_map[Front(path)]] =
                       @ \ {Entry(Last(path), number)}]
    /\ data_bitmap' = Cleared(data_bitmap, Places(inodes[number].blocks, disk.blocks))
    /\ inode_bitmap' = Cleared(inode_bitmap, Places({number}, disk.inodes))
    /\ symbol_map' = symbol_map \ {number}
    /\ available_symbols' = available_symbols + 1
    /\ name_to_inode_map' = [name_to_inode_map EXCEPT ![path] = -1]
    /\ total_inodes_free' = total_inodes_free + 1
    /\ total_data_free' = total_data_free + Cardinality(inodes[number].blocks)
    /\ inodes' = [inodes EXCEPT ![number] = [type |-> "", blocks |-> {}]]
    /\ UNCHANGED disk

LEMMA NamesRemoved ==
    ASSUME disk \in Disks, NamesOK, NodesOK, TreeOK, NEW path, NEW number, Leaves(path, number),
           Removed(path, number)
    PROVE  /\ Bound' = Bound \ {path} /\ Live' = Live \ {number} /\ number \in Live
           /\ Directories' = Directories /\ path \notin Directories /\ disk' = disk
           /\ \A p \in Bound : p # path =>
                 name_to_inode_map'[p] = name_to_inode_map[p] /\ name_to_inode_map[p] # number
           /\ \A i \in Live : i # number => inodes'[i] = inodes[i]
           /\ NamesOK' /\ NodesOK'
<1>1. /\ name_to_inode_map \in [Paths -> Inums \cup {-1}] /\ path \in Bound /\ path # <<>>
      /\ Bound \subseteq Paths /\ name_to_inode_map' = [name_to_inode_map EXCEPT ![path] = -1]
      /\ disk' = disk /\ number = name_to_inode_map[path]
  BY DEF Leaves, Removed, NamesOK, Bound
<1>2. name_to_inode_map'[path] = -1
      /\ \A p \in Paths : p # path => name_to_inode_map'[p] = name_to_inode_map[p]
  BY <1>1
<1>3. Bound' = Bound \ {path}
  BY <1>1, <1>2 DEF Bound
<1>4. \A p \in Bound : p # path =>
         name_to_inode_map'[p] = name_to_inode_map[p] /\ name_to_inode_map[p] # number
  BY <1>1, <1>2 DEF NamesOK
<1>5. Live' = Live \ {number} /\ number \in Live
  <2>1. Live' = {name_to_inode_map'[p] : p \in Bound'}
    BY DEF Live
  <2>2. Live = {name_to_inode_map[p] : p \in Bound}
    BY DEF Live
  <2> QED BY <1>1, <1>3, <1>4, <2>1, <2>2
<1>6. Inums' = Inums /\ BlockNumbers' = BlockNumbers
  BY <1>1 DEF Inums, BlockNumbers
<1>7. number \in DOMAIN inodes /\ Live \subseteq DOMAIN inodes
  BY <1>5 DEF NodesOK
<1> DEFINE gone == [type |-> "", blocks |-> {}]
<1>8. gone.type = "" /\ inodes' = [inodes EXCEPT ![number] = gone]
  BY DEF Removed
<1> HIDE DEF gone
<1>9. /\ DOMAIN inodes' = DOMAIN inodes /\ inodes'[number] = gone
      /\ \A i \in DOMAIN inodes : i # number => inodes'[i] = inodes[i]
  BY <1>7, <1>8
<1>10. \A i \in Live : i # number => inodes'[i] = inodes[i]
  BY <1>7, <1>9
<1>11. NamesOK'
  <2>1. name_to_inode_map' \in [Paths -> Inums \cup {-1}]
    BY <1>1
  <2>2. name_to_inode_map'[<<>>] = 0
    <3>1. <<>> \in Bound
      BY LiveIsFinite
    <3> QED BY <1>1, <1>4, <3>1 DEF NamesOK
  <2>3. \A p, q \in Bound' : name_to_inode_map'[p] = name_to_inode_map'[q] => p = q
    BY <1>3, <1>4 DEF NamesOK
  <2> QED BY <1>6, <2>1, <2>2, <2>3 DEF NamesOK
<1>12. NodesOK'
  <2>1. Live' \subseteq DOMAIN inodes'
    BY <1>5, <1>7, <1>9
  <2>2. \A i \in Live' : /\ inodes'[i].blocks \subseteq BlockNumbers
                         /\ inodes'[i].type \in {"regular", "directory"}
    BY <1>5, <1>10 DEF NodesOK
  <2>3. \A i \in DOMAIN inodes' : inodes'[i].type = "directory" => i \in Live'
    BY <1>5, <1>8, <1>9 DEF NodesOK
  <2> QED BY <1>6, <2>1, <2>2, <2>3 DEF NodesOK
<1>13. Directories' = Directories /\ path \notin Directories
  <2>1. Directories' = {p \in Bound' : inodes'[name_to_inode_map'[p]].type = "directory"}
    BY DEF Directories
  <2>2. \A p \in Bound : p # path => inodes'[name_to_inode_map'[p]] = inodes[name_to_inode_map[p]]
    BY <1>4, <1>10 DEF Live
  <2>3. path \notin Directories
    BY <1>1 DEF Directories, Leaves
  <2> QED BY <1>3, <2>1, <2>2, <2>3 DEF Directories
<1> QED BY <1>1, <1>3, <1>4, <1>5, <1>10, <1>11, <1>12, <1>13

LEMMA TreeRemoved ==
    ASSUME disk \in Disks, NamesOK, NodesOK, TreeOK, NEW path, NEW number, Leaves(path, number),
           Removed(path, number)
    PROVE  TreeOK'
<1> DEFINE up == Front(path)
           parent == name_to_inode_map[up]
           Entries(p) == {Entry(Last(q), name_to_inode_map[q]) : q \in Children(p)}
<1>1. /\ Bound' = Bound \ {path}
      /\ Directories' = Directories /\ path \notin Directories
      /\ \A p \in Bound : p # path =>
            name_to_inode_map'[p] = name_to_inode_map[p] /\ name_to_inode_map[p] # number
  BY NamesRemoved
<1>2. /\ path \in Bound /\ path # <<>> /\ up \in Directories /\ Directories \subseteq Bound
      /\ number = name_to_inode_map[path]
  BY DEF Leaves, Directories
<1>3. dir_data' = [dir_data EXCEPT ![parent] = @ \ {Entry(Last(path), number)}]
  BY DEF Removed
<1>4. /\ <<>> \in Directories /\ \A p \in Bound \ {<<>>} : Front(p) \in Directories
      /\ DOMAIN dir_data = {name_to_inode_map[p] : p \in Directories}
      /\ \A p \in Directories : dir_data[name_to_inode_map[p]] = Entries(p)
  BY DEF TreeOK
<1>5. \A p \in Directories : name_to_inode_map'[p] = name_to_inode_map[p]
  BY <1>1, <1>2
<1>6. \A p : Children(p)' = Children(p) \ {path}
  <2> SUFFICES ASSUME NEW p PROVE Children(p)' = Children(p) \ {path}
    OBVIOUS
  <2>1. Children(p)' = {q \in Bound' \ {<<>>} : Front(q) = p}
    BY DEF Children
  <2> QED BY <1>1, <2>1 DEF Children
<1>7. ASSUME NEW p \in Directories
      PROVE  {Entry(Last(q), name_to_inode_map'[q]) : q \in Children(p)'}
                 = IF p = up THEN Entries(p) \ {Entry(Last(path), number)} ELSE Entries(p)
  <2>1. \A q \in Children(p) : q # path =>
           /\ Entry(Last(q), name_to_inode_map'[q]) = Entry(Last(q), name_to_inode_map[q])
           /\ Entry(Last(q), name_to_inode_map[q]) # Entry(Last(path), number)
    <3> SUFFICES ASSUME NEW q \in Children(p), q # path
                 PROVE  /\ Entry(Last(q), name_to_inode_map'[q]) = Entry(Last(q), name_to_inode_map[q])
                        /\ Entry(Last(q), name_to_inode_map[q]) # Entry(Last(path), number)
      OBVIOUS
    <3>1. q \in Bound
      BY DEF Children
    <3>2. name_to_inode_map'[q] = name_to_inode_map[q] /\ name_to_inode_map[q] # number
      BY <1>1, <3>1
    <3> QED BY <3>2 DEF Entry
  <2>2. CASE p = up
    <3>1. path \in Children(p)
      BY <1>2, <2>2 DEF Children
    <3> QED BY <1>2, <1>6, <2>1, <2>2, <3>1
  <2>3. CASE p # up
    <3>1. path \notin Children(p)
      BY <2>3 DEF Children
    <3> QED BY <1>6, <2>1, <2>3, <3>1
  <2> QED BY <2>2, <2>3
<1> HIDE DEF Entries
<1>8. ASSUME NEW p \in Directories
      PROVE  dir_data'[name_to_inode_map[p]]
                 = IF p = up THEN Entries(p) \ {Entry(Last(path), number)} ELSE Entries(p)
  <2>1. p # up => name_to_inode_map[p] # parent
    BY <1>2 DEF NamesOK
  <2> QED BY <1>2, <1>3, <1>4, <2>1
<1>9. DOMAIN dir_data' = {name_to_inode_map'[p] : p \in Directories'}
  BY <1>1, <1>3, <1>4, <1>5
<1>10. \A p \in Directories' : dir_data'[name_to_inode_map'[p]]
                 = {Entry(Last(q), name_to_inode_map'[q]) : q \in Children(p)'}
  BY <1>1, <1>5, <1>7, <1>8
<1>11. <<>> \in Directories' /\ \A p \in Bound' \ {<<>>} : Front(p) \in Directories'
  BY <1>1, <1>4
<1> QED BY <1>9, <1>10, <1>11 DEF TreeOK

LEMMA BitsRemoved ==
    ASSUME disk \in Disks, NamesOK, NodesOK, TreeOK, InodeBitsOK, DataBitsOK, NEW path, NEW number,
           Leaves(path, number), Removed(path, number)
    PROVE  InodeBitsOK' /\ DataBitsOK'
<1>1. /\ Live' = Live \ {number} /\ number \in Live /\ disk' = disk
      /\ \A i \in Live : i # number => inodes'[i] = inodes[i]
  BY NamesRemoved
<1>2. /\ disk.groups \in Nat \ {0} /\ disk.blocks \in Nat \ {0} /\ disk.inodes \in Nat \ {0}
      /\ Groups = Below(disk.groups) /\ Groups' = Groups
  BY <1>1, DiskSizes, GroupsBelow DEF Groups
<1>3. Live \subseteq Inums /\ \A i \in Live : i # FREE
  BY LiveIsFinite DEF Inums, Below, FREE
<1>4. \A g \in Groups, i \in Below(disk.inodes) :
         <<g, i>> \in Places({number}, disk.inodes) <=> At(disk.inodes, g, i) = number
  <2> DEFINE T == {number}
  <2>1. T \subseteq Below(disk.groups * disk.inodes) /\ \A x : x \in T <=> x = number
    BY <1>1, <1>3 DEF Inums
  <2> HIDE DEF T
  <2>2. \A g \in Groups, i \in Below(disk.inodes) :
           <<g, i>> \in Places(T, disk.inodes) <=> At(disk.inodes, g, i) \in T
    BY <1>2, <2>1, PlacesAre
  <2> QED BY <2>1, <2>2 DEF T
<1>5. \A g \in Groups, i \in Below(disk.blocks) :
         <<g, i>> \in Places(inodes[number].blocks, disk.blocks)
             <=> At(disk.blocks, g, i) \in inodes[number].blocks
  <2>1. inodes[number].blocks \subseteq Below(disk.groups * disk.blocks)
    BY <1>1 DEF NodesOK, BlockNumbers
  <2> QED BY <1>2, <2>1, PlacesAre
<1>6. InodeBitsOK'
  <2>1. inode_bitmap = [g \in Groups |-> [i \in Below(disk.inodes) |->
            IF At(disk.inodes, g, i) \in Live THEN At(disk.inodes, g, i) ELSE FREE]]
    BY DEF InodeBitsOK
  <2>2. inode_bitmap' = [g \in DOMAIN inode_bitmap |-> [i \in DOMAIN inode_bitmap[g] |->
            IF <<g, i>> \in Places({number}, disk.inodes) THEN FREE ELSE inode_bitmap[g][i]]]
    BY DEF Removed, Cleared
  <2>3. DOMAIN inode_bitmap = Groups /\ \A g \in Groups : DOMAIN inode_bitmap[g] = Below(disk.inodes)
    BY <2>1
  <2>4. inode_bitmap' = [g \in Groups |-> [i \in Below(disk.inodes) |->
            IF <<g, i>> \in Places({number}, disk.inodes) THEN FREE ELSE inode_bitmap[g][i]]]
    BY <2>2, <2>3
  <2>5. ASSUME NEW g \in Groups, NEW i \in Below(disk.inodes)
        PROVE  (IF <<g, i>> \in Places({number}, disk.inodes) THEN FREE ELSE inode_bitmap[g][i])
                = IF At(disk.inodes, g, i) \in Live \ {number} THEN At(disk.inodes, g, i) ELSE FREE
    <3>1. inode_bitmap[g][i] = IF At(disk.inodes, g, i) \in Live THEN At(disk.inodes, g, i) ELSE FREE
      BY <2>1
    <3> QED BY <1>4, <3>1
  <2>6. inode_bitmap' = [g \in Groups |-> [i \in Below(disk.inodes) |->
            IF At(disk.inodes, g, i) \in Live \ {number} THEN At(disk.inodes, g, i) ELSE FREE]]
    BY <2>4, <2>5
  <2> QED BY <1>1, <1>2, <2>6 DEF InodeBitsOK
<1>7. data_bitmap \in [Groups -> [Below(disk.blocks) -> Live \cup {FREE}]]
  BY DEF DataBitsOK
<1>8. data_bitmap' = [g \in Groups |-> [i \in Below(disk.blocks) |->
          IF <<g, i>> \in Places(inodes[number].blocks, disk.blocks) THEN FREE ELSE data_bitmap[g][i]]]
  <2>1. DOMAIN data_bitmap = Groups /\ \A g \in Groups : DOMAIN data_bitmap[g] = Below(disk.blocks)
    BY <1>7
  <2>2. data_bitmap' = [g \in DOMAIN data_bitmap |-> [i \in DOMAIN data_bitmap[g] |->
          IF <<g, i>> \in Places(inodes[number].blocks, disk.blocks) THEN FREE ELSE data_bitmap[g][i]]]
    BY DEF Removed, Cleared
  <2> QED BY <2>1, <2>2
<1>9. \A g \in Groups, i \in Below(disk.blocks) :
         data_bitmap'[g][i] = IF At(disk.blocks, g, i) \in inodes[number].blocks THEN FREE
                              ELSE data_bitmap[g][i]
  BY <1>5, <1>8
<1>10. \A g \in Groups, i \in Below(disk.blocks), n \in Live :
          data_bitmap[g][i] = n <=> At(disk.blocks, g, i) \in inodes[n].blocks
  BY DEF DataBitsOK
<1>11. data_bitmap' \in [Groups -> [Below(disk.blocks) -> (Live \ {number}) \cup {FREE}]]
  <2>1. \A g \in Groups, i \in Below(disk.blocks) : data_bitmap'[g][i] \in (Live \ {number}) \cup {FREE}
    BY <1>1, <1>7, <1>9, <1>10
  <2>2. data_bitmap' = [g \in Groups |-> [i \in Below(disk.blocks) |-> data_bitmap'[g][i]]]
    BY <1>8
  <2> QED BY <2>1, <2>2
<1>12. ASSUME NEW g \in Groups, NEW i \in Below(disk.blocks), NEW n \in Live \ {number}
       PROVE  data_bitmap'[g][i] = n <=> At(disk.blocks, g, i) \in inodes'[n].blocks
  BY <1>1, <1>3, <1>9, <1>10
<1>13. DataBitsOK'
  BY <1>1, <1>2, <1>11, <1>12 DEF DataBitsOK
<1> QED BY <1>6, <1>13

LEMMA CountersRemoved ==
    ASSUME disk \in Disks, NamesOK, NodesOK, TreeOK, DataBitsOK, CountersOK, NEW path, NEW number,
           Leaves(path, number), Removed(path, number)
    PROVE  CountersOK'
<1> DEFINE A == inodes[number].blocks
           all == disk.groups * disk.blocks
           nodes == disk.groups * disk.inodes
<1>1. /\ Live' = Live \ {number} /\ number \in Live /\ disk' = disk
      /\ \A i \in Live : i # number => inodes'[i] = inodes[i]
  BY NamesRemoved
<1>2. /\ disk.groups \in Nat \ {0} /\ disk.blocks \in Nat \ {0} /\ disk.inodes \in Nat \ {0}
      /\ all \in Nat /\ nodes \in Nat
  BY DiskSizes
<1>3. IsFiniteSet(Live) /\ Cardinality(Live) \in Nat
  BY LiveIsFinite
<1>4. IsFiniteSet(Owned) /\ Cardinality(Owned) \in Nat /\ Owned \subseteq BlockNumbers
      /\ \A b \in BlockNumbers, i \in Live :
            data_bitmap[b \div disk.blocks][b % disk.blocks] = i <=> b \in inodes[i].blocks
  BY DataBooks
<1>5. A \subseteq Owned
  BY <1>1 DEF Owned
<1>6. \A i \in Live : i # number => inodes[i].blocks \cap A = {}
  <2> SUFFICES ASSUME NEW i \in Live, i # number, NEW b \in inodes[i].blocks PROVE b \notin A
    OBVIOUS
  <2>1. b \in BlockNumbers
    BY DEF NodesOK
  <2> QED BY <1>1, <1>4, <2>1
<1>7. Owned' = Owned \ A
  <2>1. Owned' = UNION {inodes'[i].blocks : i \in Live'}
    BY DEF Owned
  <2> QED BY <1>1, <1>6, <2>1 DEF Owned
<1>8. Cardinality(Live') = Cardinality(Live) - 1
  BY <1>1, <1>3, FS_RemoveElement, Zenon
<1> HIDE DEF A, all, nodes
<1>9. Cardinality(Owned') = Cardinality(Owned) - Cardinality(A) /\ Cardinality(A) \in Nat
  <2>1. IsFiniteSet(A) /\ Cardinality(A) \in Nat
    <3>1. IsFiniteSet(A)
      BY <1>4, <1>5, FS_Subset
    <3> QED BY <3>1, FS_CardinalityType
  <2>2. Cardinality(Owned \ A) = Cardinality(Owned) - Cardinality(Owned \cap A)
    BY <1>4, FS_Difference
  <2>3. Owned \cap A = A
    BY <1>5
  <2> QED BY <1>7, <2>1, <2>2, <2>3
<1>10. /\ total_inodes_free = nodes - Cardinality(Live)
       /\ total_data_free = all - Cardinality(Owned)
       /\ symbol_map = Live /\ available_symbols = Symbols - Cardinality(Live)
  BY DEF CountersOK, all, nodes
<1>11. /\ total_inodes_free' = total_inodes_free + 1 /\ total_data_free' = total_data_free + Cardinality(A)
       /\ symbol_map' = symbol_map \ {number} /\ available_symbols' = available_symbols + 1
  BY DEF Removed, A
<1>12. Symbols \in Nat
  BY FfsAssumption DEF FfsAssumption
<1>13. /\ total_inodes_free' = nodes - (Cardinality(Live) - 1)
       /\ total_data_free' = all - (Cardinality(Owned) - Cardinality(A))
       /\ available_symbols' = Symbols - (Cardinality(Live) - 1)
  BY <1>2, <1>3, <1>4, <1>9, <1>10, <1>11, <1>12
<1>14. symbol_map' = Live'
  BY <1>1, <1>10, <1>11
<1>15. all = disk'.groups * disk'.blocks /\ nodes = disk'.groups * disk'.inodes
  BY <1>1 DEF all, nodes
<1> QED BY <1>8, <1>9, <1>13, <1>14, <1>15 DEF CountersOK

LEMMA BooksRemoved ==
    ASSUME disk \in Disks, Books, NEW path, NEW number, Leaves(path, number), Removed(path, number)
    PROVE  Books'
<1>1. NamesOK /\ NodesOK /\ TreeOK /\ InodeBitsOK /\ DataBitsOK /\ CountersOK
  BY DEF Books
<1>2. NamesOK' /\ NodesOK' /\ TreeOK'
  BY <1>1, NamesRemoved, TreeRemoved
<1>3. InodeBitsOK' /\ DataBitsOK' /\ CountersOK'
  BY <1>1, BitsRemoved, CountersRemoved
<1> QED BY <1>2, <1>3 DEF Books

-----------------------------------------------------------------------------
\* What the commands do as long as nothing has gone astray.
Creates(path, size, type) ==
    /\ CanCreate(path, size) /\ NewIndex(path, type) # -1
    /\ NewBlocks(path, size, type).end = "done"
    /\ Fits(path, type, size, NewGroup(path, type), NewIndex(path, type),
            NewNumber(path, type), NewBlocks(path, size, type))
    /\ Entered(path, type, size, NewGroup(path, type), NewIndex(path, type),
               NewNumber(path, type), NewBlocks(path, size, type))
    /\ Verified
Gives(why) == error' = why /\ UNCHANGED <<disk, tables>>

LEMMA CreateDoes ==
    ASSUME disk \in Disks, strayed \in BOOLEAN, ~strayed => Books,
           NEW path \in Paths \ {<<>>}, NEW size \in Nat, NEW type \in {"regular", "directory"},
           do_create(path, size, type)
    PROVE  /\ disk' = disk /\ strayed' \in BOOLEAN /\ (strayed => strayed')
           /\ strayed' => strayed \/ disk.faraway > 1
           /\ ~strayed' => \/ Gives("parent is a file")
                           \/ Gives("empty file")
                           \/ Gives("symbols") /\ available_symbols = 0
                           \/ Creates(path, size, type)
<1> DEFINE parent == name_to_inode_map[Front(path)]
<1>1. total_inodes_free # 0 /\ total_data_free >= size /\ parent # -1
  BY DEF do_create
<1>2. CASE parent \notin DOMAIN dir_data
  BY <1>2 DEF do_create, Abort, Gives
<1>3. CASE parent \in DOMAIN dir_data
  <2> DEFINE group == NewGroup(path, type)
             index == NewIndex(path, type)
             number == NewNumber(path, type)
             blocks == NewBlocks(path, size, type)
  <2>1. CanCreate(path, size) /\ Allocate(path, size, type)
    BY <1>1, <1>3 DEF do_create, CanCreate
  <2>2. strayed' = (strayed \/ index = -1)
    BY <2>1 DEF Allocate, NewIndex, NewGroup
  <2>3. IF blocks.end # "done" THEN Abort(IF size = 0 THEN "empty file" ELSE "allocate")
        ELSE IF path \in Bound THEN Abort("internal")
        ELSE IF available_symbols = 0 THEN Abort("symbols")
        ELSE Entered(path, type, size, group, index, number, blocks) /\ Verified
    BY <2>1 DEF Allocate, Entered, NewIndex, NewGroup, NewNumber, NewTarget, NewBlocks
  <2>4. disk' = disk
    <3> HIDE DEF group, index, number, blocks
    <3> QED BY <2>3 DEF Abort, Entered
  <2>5. CASE strayed
    BY <2>2, <2>4, <2>5
  <2>6. CASE ~strayed
    <3>1. /\ Front(path) \in Directories /\ path \notin Bound
          /\ disk.faraway = 1 => index # -1
          /\ data_bitmap \in [Groups -> [Below(disk.blocks) -> Int]]
          /\ NewTarget(path, type) \in Int /\ group \in Groups
          /\ index # -1 => /\ index \in Below(disk.inodes)
                           /\ number = At(disk.inodes, group, index)
                           /\ number \in Inums /\ number \notin Live
                           /\ number \in Int /\ number # FREE
                           /\ size > 0 => blocks.end = "done"
      BY <2>1, <2>6, NewFile
    <3>2. strayed' => disk.faraway > 1
      <4>1. disk.faraway \in Nat \ {0}
        BY DiskSizes
      <4> QED BY <2>2, <2>6, <3>1, <4>1
    <3>3. ASSUME ~strayed', blocks.end = "done"
          PROVE  Fits(path, type, size, group, index, number, blocks)
      <4>1. index # -1
        BY <2>2, <3>3
      <4>2. number \in Int /\ number # FREE
        BY <3>1, <4>1
      <4>3. blocks \in LoopStates /\ Marked(blocks, number) /\ Cardinality(blocks.allocated) = size
        BY <3>1, <3>3, <4>2, WhatIsAllocated DEF NewBlocks
      <4> QED BY <3>1, <4>1, <4>3 DEF Fits
    <3>4. ASSUME ~strayed'
          PROVE  \/ Gives("empty file")
                 \/ Gives("symbols") /\ available_symbols = 0
                 \/ Creates(path, size, type)
      <4>1. CASE blocks.end # "done"
        <5>1. index # -1
          BY <2>2, <3>4
        <5>2. ~(size > 0)
          BY <3>1, <4>1, <5>1
        <5>3. size = 0
          BY <5>2
        <5> HIDE DEF group, index, number, blocks
        <5>4. Abort("empty file")
          BY <2>3, <4>1, <5>3
        <5> QED BY <5>4 DEF Abort, Gives
      <4>2. CASE blocks.end = "done"
        <5>1. Fits(path, type, size, group, index, number, blocks) /\ index # -1
          BY <2>2, <3>3, <3>4, <4>2
        <5> HIDE DEF group, index, number, blocks
        <5>2. CASE available_symbols = 0
          BY <2>3, <3>1, <4>2, <5>2 DEF Abort, Gives
        <5>3. CASE available_symbols # 0
          <6>1. Entered(path, type, size, group, index, number, blocks) /\ Verified
            BY <2>3, <3>1, <4>2, <5>3
          <6> QED BY <2>1, <4>2, <5>1, <6>1 DEF Creates, group, index, number, blocks
        <5> QED BY <5>2, <5>3
      <4> QED BY <4>1, <4>2
    <3> QED BY <2>2, <2>4, <2>6, <3>2, <3>4
  <2> QED BY <2>5, <2>6
<1> QED BY <1>2, <1>3

Deletes(path) ==
    /\ Leaves(path, name_to_inode_map[path])
    /\ Removed(path, name_to_inode_map[path])
    /\ Verified

LEMMA DeleteDoes ==
    ASSUME disk \in Disks, strayed \in BOOLEAN, ~strayed => Books,
           NEW path \in Paths \ {<<>>}, do_delete(path)
    PROVE  /\ disk' = disk /\ strayed' \in BOOLEAN /\ (strayed => strayed')
           /\ strayed' => \/ strayed \/ disk.groups # disk.blocks \/ disk.groups # disk.inodes
           /\ ~strayed' => Gives("parent is a file") \/ Deletes(path)
<1> DEFINE parent == name_to_inode_map[Front(path)]
           entry == CHOOSE e \in dir_data[parent] : e.name = Last(path)
           number == entry.inode
           blocks == inodes[number].blocks
<1>1. parent # -1
  BY DEF do_delete
<1>2. CASE parent \notin DOMAIN dir_data
  BY <1>2 DEF do_delete, Abort, Gives
<1>3. CASE parent \in DOMAIN dir_data
  <2>1. /\ Named(parent, Last(path)) /\ inodes[number].type # "directory"
        /\ strayed' = \/ strayed
                      \/ Deleted({number}) # Places({number}, disk.inodes)
                      \/ FreedBlocks(number) # Places(inodes[number].blocks, disk.blocks)
    BY <1>3 DEF do_delete
  <2>2. IF \/ ~OnDisk(FreedBlocks(number), disk.blocks)
           \/ ~OnDisk(FreedInodes(number), disk.inodes)
           \/ number \notin symbol_map \/ path \notin Bound
        THEN Abort("lookup")
        ELSE /\ dir_data' = [dir_data EXCEPT ![parent] = @ \ {entry}]
             /\ data_bitmap' = Cleared(data_bitmap, FreedBlocks(number))
             /\ inode_bitmap' = Cleared(inode_bitmap, FreedInodes(number))
             /\ symbol_map' = symbol_map \ {number}
             /\ available_symbols' = available_symbols + 1
             /\ name_to_inode_map' = [name_to_inode_map EXCEPT ![path] = -1]
             /\ total_inodes_free' = total_inodes_free + 1
             /\ total_data_free' = total_data_free + Cardinality(inodes[number].blocks)
             /\ inodes' = [inodes EXCEPT ![number] = [type |-> "", blocks |-> {}]]
             /\ UNCHANGED disk /\ Verified
    BY <1>3 DEF do_delete
  <2>3. FreedBlocks(number) = Deleted(blocks) /\ FreedInodes(number) = Deleted({number})
    BY DEF FreedBlocks, FreedInodes
  <2>4. disk' = disk
    <3> HIDE DEF parent, entry, number
    <3> QED BY <2>2 DEF Abort
  <2>5. strayed' \in BOOLEAN /\ (strayed => strayed')
        /\ (strayed' => \/ strayed \/ disk.groups # disk.blocks \/ disk.groups # disk.inodes)
    <3> HIDE DEF number, blocks
    <3>1. disk.groups = disk.blocks /\ disk.groups = disk.inodes =>
             Deleted({number}) = Places({number}, disk.inodes)
                 /\ FreedBlocks(number) = Places(inodes[number].blocks, disk.blocks)
      BY DEF FreedBlocks, Deleted
    <3> QED BY <2>1, <3>1
  <2>6. ASSUME ~strayed' PROVE Deletes(path)
    <3>1. /\ NamesOK /\ NodesOK /\ TreeOK /\ CountersOK
      BY <2>5, <2>6 DEF Books
    <3>2. Front(path) \in Directories
      <4>1. Front(path) \in Bound
        BY <1>1, FrontIsPath DEF Bound
      <4> QED BY <1>3, <3>1, <4>1, DirectoryOf
    <3>3. path \in Bound /\ entry = Entry(Last(path), name_to_inode_map[path])
      <4>1. entry \in dir_data[parent] /\ entry.name = Last(path)
        BY <2>1 DEF Named
      <4> QED BY <3>1, <3>2, <4>1, EntriesLead
    <3>4. number = name_to_inode_map[path] /\ number \in Live
      <4>1. Entry(Last(path), name_to_inode_map[path]).inode = name_to_inode_map[path]
        BY DEF Entry
      <4> HIDE DEF entry
      <4> QED BY <3>3, <4>1 DEF Live
    <3>5. /\ FreedBlocks(number) = Places(blocks, disk.blocks)
          /\ FreedInodes(number) = Places({number}, disk.inodes)
      BY <2>1, <2>3, <2>6
    <3>6. disk.groups \in Nat \ {0} /\ disk.blocks \in Nat \ {0} /\ disk.inodes \in Nat \ {0}
      BY DiskSizes
    <3>7. ASSUME NEW n \in Nat \ {0}, NEW T, T \subseteq Below(disk.groups * n)
          PROVE  OnDisk(Places(T, n), n)
      <4>1. \A k \in T : k \div n < disk.groups /\ k % n < n
        <5> TAKE k \in T
        <5>1. k \div n \in Below(disk.groups) /\ k % n \in Below(n)
          BY <3>6, <3>7, PlaceOfNumber
        <5> QED BY <3>6, <5>1 DEF Below
      <4> QED BY <4>1 DEF OnDisk, Places
    <3>8. OnDisk(FreedBlocks(number), disk.blocks) /\ OnDisk(FreedInodes(number), disk.inodes)
      <4>1. blocks \subseteq Below(disk.groups * disk.blocks)
        BY <3>1, <3>4 DEF NodesOK, BlockNumbers
      <4>2. {number} \subseteq Below(disk.groups * disk.inodes)
        BY <3>1, <3>4, LiveIsFinite DEF Inums
      <4> HIDE DEF number, blocks
      <4> QED BY <3>5, <3>6, <3>7, <4>1, <4>2
    <3>9. number \in symbol_map
      BY <3>1, <3>4 DEF CountersOK
    <3>10. Removed(path, number) /\ Verified
      <4>1. entry = Entry(Last(path), number)
        BY <3>3, <3>4
      <4> HIDE DEF number, blocks, entry
      <4> QED BY <2>2, <3>3, <3>5, <3>8, <3>9, <4>1 DEF Removed, blocks
    <3>11. Leaves(path, number)
      BY <2>1, <3>2, <3>3, <3>4 DEF Leaves
    <3> HIDE DEF number
    <3> QED BY <3>4, <3>10, <3>11 DEF Deletes
  <2> QED BY <2>4, <2>5, <2>6
<1> QED BY <1>2, <1>3

-----------------------------------------------------------------------------
\* The first directory.
LEMMA InitBooks == Init => IInv
<1> SUFFICES ASSUME Init PROVE IInv
  OBVIOUS
<1>1. /\ disk \in Disks /\ strayed = FALSE /\ error = "none"
      /\ name_to_inode_map = [p \in Paths |-> IF p = <<>> THEN 0 ELSE -1]
      /\ inodes = [i \in {0} |-> [type |-> "directory", blocks |-> {0}]]
      /\ dir_data = [i \in {0} |-> {}]
      /\ symbol_map = {0} /\ available_symbols = Symbols - 1
      /\ total_data_free = disk.blocks * disk.groups - 1
      /\ total_inodes_free = disk.inodes * disk.groups - 1
  BY DEF Init
<1>2. /\ disk.groups \in Nat \ {0} /\ disk.blocks \in Nat \ {0} /\ disk.inodes \in Nat \ {0}
      /\ Groups = Below(disk.groups) /\ 0 \in Groups /\ Groups \subseteq Nat
      /\ 0 \in Below(disk.inodes) /\ 0 \in Below(disk.blocks) /\ <<>> \in Paths
  <2>1. /\ disk.groups \in Nat \ {0} /\ disk.blocks \in Nat \ {0} /\ disk.inodes \in Nat \ {0}
        /\ Groups = Below(disk.groups) /\ 0 \in Groups /\ Groups \subseteq Nat
    BY <1>1, DiskSizes, GroupsBelow
  <2>2. 0 \in Below(disk.inodes) /\ 0 \in Below(disk.blocks)
    BY <2>1 DEF Below
  <2>3. <<>> \in Paths
    BY FfsAssumption DEF FfsAssumption
  <2> QED BY <2>1, <2>2, <2>3
<1>3. /\ 0 \in Inums /\ At(disk.inodes, 0, 0) = 0
      /\ 0 \in BlockNumbers /\ At(disk.blocks, 0, 0) = 0
  <2>1. 0 \in Below(disk.groups)
    BY <1>2
  <2>2. /\ At(disk.inodes, 0, 0) \in Below(disk.groups * disk.inodes)
        /\ At(disk.blocks, 0, 0) \in Below(disk.groups * disk.blocks)
    BY <1>2, <2>1, NumberOfPlace
  <2>3. At(disk.inodes, 0, 0) = 0 /\ At(disk.blocks, 0, 0) = 0
    BY <1>2 DEF At
  <2> QED BY <2>2, <2>3 DEF Inums, BlockNumbers
<1>4. Bound = {<<>>} /\ Live = {0}
  <2>1. Bound = {<<>>}
    BY <1>1, <1>2 DEF Bound
  <2>2. name_to_inode_map[<<>>] = 0
    BY <1>1, <1>2
  <2> QED BY <2>1, <2>2 DEF Live
<1>5. inodes[0].type = "directory" /\ inodes[0].blocks = {0} /\ DOMAIN inodes = {0}
  BY <1>1
<1>6. Owned = {0} /\ Directories = {<<>>} /\ name_to_inode_map[<<>>] = 0
  BY <1>1, <1>2, <1>4, <1>5 DEF Owned, Directories
<1>7. NamesOK
  BY <1>1, <1>2, <1>3, <1>4 DEF NamesOK
<1>8. NodesOK
  BY <1>3, <1>4, <1>5 DEF NodesOK
<1>9. TreeOK
  <2>1. Children(<<>>) = {}
    BY <1>4 DEF Children
  <2> QED BY <1>1, <1>4, <1>6, <2>1 DEF TreeOK
<1>10. InodeBitsOK
  <2>1. inode_bitmap = [g \in Groups |-> [i \in Below(disk.inodes) |->
            IF g = 0 /\ i = 0 THEN 0 ELSE FREE]]
    BY DEF Init, Below
  <2>2. ASSUME NEW g \in Groups, NEW i \in Below(disk.inodes)
        PROVE  (IF g = 0 /\ i = 0 THEN 0 ELSE FREE)
                  = IF At(disk.inodes, g, i) \in Live THEN At(disk.inodes, g, i) ELSE FREE
    <3>1. At(disk.inodes, g, i) = 0 <=> g = 0 /\ i = 0
      BY <1>2, <1>3, PlacesDiffer
    <3> QED BY <1>4, <3>1
  <2> QED BY <2>1, <2>2 DEF InodeBitsOK
<1>11. DataBitsOK
  <2>1. data_bitmap = [g \in Groups |-> [i \in Below(disk.blocks) |->
            IF g = 0 /\ i = 0 THEN 0 ELSE FREE]]
    BY DEF Init, Below
  <2>2. ASSUME NEW g \in Groups, NEW i \in Below(disk.blocks), NEW n \in Live
        PROVE  data_bitmap[g][i] = n <=> At(disk.blocks, g, i) \in inodes[n].blocks
    <3>1. At(disk.blocks, g, i) = 0 <=> g = 0 /\ i = 0
      BY <1>2, <1>3, PlacesDiffer
    <3>2. n = 0 /\ 0 # FREE
      BY <1>4 DEF FREE
    <3> QED BY <1>5, <2>1, <3>1, <3>2
  <2> QED BY <1>4, <2>1, <2>2 DEF DataBitsOK
<1>12. CountersOK
  <2>1. Cardinality({0}) = 1
    BY FS_Singleton
  <2>2. disk.blocks * disk.groups = disk.groups * disk.blocks
        /\ disk.inodes * disk.groups = disk.groups * disk.inodes
    BY <1>2
  <2> QED BY <1>1, <1>4, <1>6, <2>1, <2>2 DEF CountersOK
<1>13. ErrorsAreExplained
  BY <1>1 DEF ErrorsAreExplained
<1> QED BY <1>1, <1>7, <1>8, <1>9, <1>10, <1>11, <1>12, <1>13 DEF IInv, Books

\* A command that ends the program changes no table.
LEMMA SameBooks ==
    ASSUME Books, NEW why, Gives(why)
    PROVE  Books' /\ Bound' = Bound
<1>1. /\ disk' = disk /\ data_bitmap' = data_bitmap /\ inode_bitmap' = inode_bitmap
      /\ total_data_free' = total_data_free /\ total_inodes_free' = total_inodes_free
      /\ inodes' = inodes /\ dir_data' = dir_data /\ name_to_inode_map' = name_to_inode_map
      /\ symbol_map' = symbol_map /\ available_symbols' = available_symbols
  BY DEF Gives, tables
<1>2. Bound' = Bound /\ Live' = Live /\ Owned' = Owned /\ Directories' = Directories
      /\ Inums' = Inums /\ BlockNumbers' = BlockNumbers /\ Groups' = Groups
  BY <1>1 DEF Bound, Live, Owned, Directories, Inums, BlockNumbers, Groups
<1>3. NamesOK' /\ NodesOK'
  BY <1>1, <1>2 DEF Books, NamesOK, NodesOK
<1>4. TreeOK'
  <2>1. \A p : Children(p)' = Children(p)
    BY <1>1 DEF Children, Bound
  <2>2. TreeOK
    BY DEF Books
  <2> QED BY <1>1, <1>2, <2>1, <2>2 DEF TreeOK
<1>5. InodeBitsOK' /\ DataBitsOK' /\ CountersOK'
  BY <1>1, <1>2 DEF Books, InodeBitsOK, DataBitsOK, CountersOK
<1> QED BY <1>2, <1>3, <1>4, <1>5 DEF Books

LEMMA AllSymbolsUsed ==
    ASSUME disk \in Disks, Books, available_symbols = 0
    PROVE  Cardinality(Bound) = Symbols
<1>1. Cardinality(Bound) = Cardinality(Live) /\ Cardinality(Live) \in Nat
  BY LiveIsFinite DEF Books
<1>2. available_symbols = Symbols - Cardinality(Live)
  BY DEF Books, CountersOK
<1>3. Symbols \in Nat
  BY FfsAssumption DEF FfsAssumption
<1> QED BY <1>1, <1>2, <1>3

\* What has to be seen of a step.
LEMMA StepKeeps ==
    ASSUME disk \in Disks, disk' = disk, strayed' \in BOOLEAN,
           strayed' => disk.faraway > 1 \/ disk.groups # disk.blocks \/ disk.groups # disk.inodes,
           ~strayed' => Books',
           ~strayed' => \/ error' \notin {"verify", "lookup", "internal", "allocate", "symbols"}
                        \/ error' = "symbols" /\ Cardinality(Bound') = Symbols
    PROVE  IInv'
<1>1. error' = "symbols" => error' \notin {"verify", "lookup", "internal", "allocate"}
  OBVIOUS
<1>2. ErrorsAreExplained'
  BY <1>1 DEF ErrorsAreExplained
<1> QED BY <1>2 DEF IInv

LEMMA NextVerifies == (disk \in Disks /\ Books => do_verify)'
BY BooksVerify, PTL

LEMMA NextKeeps == IInv /\ [Next]_vars => IInv'
<1> SUFFICES ASSUME IInv, [Next]_vars PROVE IInv'
  OBVIOUS
<1>1. /\ disk \in Disks /\ strayed \in BOOLEAN /\ (~strayed => Books)
      /\ strayed => disk.faraway > 1 \/ disk.groups # disk.blocks \/ disk.groups # disk.inodes
  BY DEF IInv, ErrorsAreExplained
<1>2. disk' \in Disks /\ Books' => do_verify'
  BY NextVerifies
<1>3. ASSUME NEW path \in Paths \ {<<>>}, NEW size \in Nat, NEW type \in {"regular", "directory"},
             do_create(path, size, type)
      PROVE  IInv'
  <2>1. /\ disk' = disk /\ strayed' \in BOOLEAN /\ (strayed => strayed')
        /\ strayed' => strayed \/ disk.faraway > 1
        /\ ~strayed' => \/ Gives("parent is a file")
                        \/ Gives("empty file")
                        \/ Gives("symbols") /\ available_symbols = 0
                        \/ Creates(path, size, type)
    BY <1>1, <1>3, CreateDoes
  <2>2. CASE strayed'
    BY <1>1, <2>1, <2>2, StepKeeps
  <2>3. CASE ~strayed'
    <3>1. Books
      BY <1>1, <2>1, <2>3
    <3>2. CASE Gives("parent is a file") \/ Gives("empty file")
      <4>1. Books' /\ error' \in {"parent is a file", "empty file"}
        BY <3>1, <3>2, SameBooks DEF Gives
      <4>2. error' \notin {"verify", "lookup", "internal", "allocate", "symbols"}
        BY <4>1, Zenon
      <4> QED BY <1>1, <2>1, <2>3, <4>1, <4>2, StepKeeps
    <3>3. CASE Gives("symbols") /\ available_symbols = 0
      <4>1. Books' /\ error' = "symbols" /\ Bound' = Bound
        BY <3>1, <3>3, SameBooks DEF Gives
      <4>2. Cardinality(Bound) = Symbols
        BY <1>1, <3>1, <3>3, AllSymbolsUsed
      <4> QED BY <1>1, <2>1, <2>3, <4>1, <4>2, StepKeeps
    <3>4. CASE Creates(path, size, type)
      <4>1. Books'
        BY <1>1, <3>1, <3>4, BooksEntered DEF Creates
      <4>2. error' = "none"
        BY <1>1, <1>2, <2>1, <3>4, <4>1 DEF Creates, Verified
      <4>3. error' \notin {"verify", "lookup", "internal", "allocate", "symbols"}
        BY <4>2
      <4> QED BY <1>1, <2>1, <2>3, <4>1, <4>3, StepKeeps
    <3> QED BY <2>1, <2>3, <3>2, <3>3, <3>4
  <2> QED BY <2>2, <2>3
<1>4. ASSUME NEW path \in Paths \ {<<>>}, do_delete(path)
      PROVE  IInv'
  <2>1. /\ disk' = disk /\ strayed' \in BOOLEAN /\ (strayed => strayed')
        /\ strayed' => \/ strayed \/ disk.groups # disk.blocks \/ disk.groups # disk.inodes
        /\ ~strayed' => Gives("parent is a file") \/ Deletes(path)
    BY <1>1, <1>4, DeleteDoes
  <2>2. CASE strayed'
    BY <1>1, <2>1, <2>2, StepKeeps
  <2>3. CASE ~strayed'
    <3>1. Books
      BY <1>1, <2>1, <2>3
    <3>2. CASE Gives("parent is a file")
      <4>1. Books' /\ error' = "parent is a file"
        BY <3>1, <3>2, SameBooks DEF Gives
      <4>2. error' \notin {"verify", "lookup", "internal", "allocate", "symbols"}
        BY <4>1, Zenon
      <4> QED BY <1>1, <2>1, <2>3, <4>1, <4>2, StepKeeps
    <3>3. CASE Deletes(path)
      <4>1. Books'
        BY <1>1, <3>1, <3>3, BooksRemoved DEF Deletes
      <4>2. error' = "none"
        BY <1>1, <1>2, <2>1, <3>3, <4>1 DEF Deletes, Verified
      <4>3. error' \notin {"verify", "lookup", "internal", "allocate", "symbols"}
        BY <4>2
      <4> QED BY <1>1, <2>1, <2>3, <4>1, <4>3, StepKeeps
    <3> QED BY <2>1, <2>3, <3>2, <3>3
  <2> QED BY <2>2, <2>3
<1>5. CASE UNCHANGED vars
  <2>1. /\ UNCHANGED <<disk, tables>> /\ error' = error /\ strayed' = strayed
    BY <1>5 DEF vars
  <2>2. Gives(error)
    BY <2>1 DEF Gives
  <2>3. ~strayed' => Books' /\ Bound' = Bound
    BY <1>1, <2>1, <2>2, SameBooks
  <2>4. ~strayed' => \/ error' \notin {"verify", "lookup", "internal", "allocate", "symbols"}
                     \/ error' = "symbols" /\ Cardinality(Bound') = Symbols
    BY <2>1, <2>3 DEF IInv, ErrorsAreExplained
  <2> QED BY <1>1, <2>1, <2>3, <2>4, StepKeeps
<1>6. CASE Next
  <2>1. PICK path \in Paths \ {<<>>} : \/ \E size \in Sizes : create(path, size)
                                       \/ mkdir(path)
                                       \/ delete(path)
    BY <1>6 DEF Next
  <2>2. CASE \E size \in Sizes : create(path, size)
    <3>1. PICK size \in Sizes : do_create(path, size, "regular")
      BY <2>2 DEF create
    <3>2. size \in Nat
      BY FfsAssumption DEF FfsAssumption
    <3> QED BY <1>3, <3>1, <3>2
  <2>3. CASE mkdir(path)
    <3>1. do_create(path, 1, "directory") /\ 1 \in Nat
      BY <2>3 DEF mkdir
    <3> QED BY <1>3, <3>1
  <2>4. CASE delete(path)
    BY <1>4, <2>4 DEF delete
  <2> QED BY <2>1, <2>2, <2>3, <2>4
<1> QED BY <1>5, <1>6

\* The tables agree with each other, and the errors have their reasons, after
\* every command.
LEMMA Invariance == Spec => []IInv
<1>1. Init => IInv
  BY InitBooks
<1>2. IInv /\ [Next]_vars => IInv'
  BY NextKeeps
<1> QED BY <1>1, <1>2, PTL DEF Spec

\* What do_create and do_delete write in one table after another agrees as long
\* as nothing has gone astray, and dump and -T find what they look for.
THEOREM BooksAlwaysBalance == Spec => []BooksBalance
<1>1. IInv => BooksBalance
  <2> SUFFICES ASSUME IInv PROVE BooksBalance
    OBVIOUS
  <2>1. CASE strayed
    BY <2>1 DEF BooksBalance
  <2>2. CASE ~strayed
    BY <2>2, BooksBalanced DEF IInv
  <2> QED BY <2>1, <2>2
<1> QED BY <1>1, Invariance, PTL

\* No internal check of ffs.py fails as long as nothing has gone astray, and
\* nothing goes astray where groups have as many blocks and inodes as there are
\* groups and directories are not spread.
THEOREM ErrorsAlwaysExplained == Spec => []ErrorsAreExplained
<1>1. IInv => ErrorsAreExplained
  BY DEF IInv
<1> QED BY <1>1, Invariance, PTL

-----------------------------------------------------------------------------
\* The numbers of the directories.
DirNumbers == {i \in DOMAIN inodes : inodes[i].type = "directory"}

LEMMA CreateRefines ==
    ASSUME disk \in Disks, Books, NEW path \in Paths \ {<<>>}, NEW size, NEW type, NEW group,
           NEW index, NEW number, NEW blocks, Fits(path, type, size, group, index, number, blocks),
           Entered(path, type, size, group, index, number, blocks)
    PROVE  path \in N!Vacant /\ number \in 0 .. MaxInodes - 1 /\ N!Create(path, number)
<1>1. NamesOK /\ NodesOK /\ TreeOK
  BY DEF Books
<1>2. /\ path \notin Bound /\ Front(path) \in Directories /\ number \in Inums /\ number \notin Live
      /\ type \in {"regular", "directory"}
      /\ name_to_inode_map' = [name_to_inode_map EXCEPT ![path] = number]
      /\ inodes' = Put(inodes, number, [type |-> type, blocks |-> blocks.allocated])
  BY DEF Fits, Entered
<1>3. N!Bound = Bound /\ N!Named = Live
  BY DEF N!Bound, N!Named, Bound, Live
<1>4. number \in 0 .. MaxInodes - 1
  <2>1. disk.groups * disk.inodes <= MaxInodes /\ MaxInodes \in Nat
        /\ disk.groups \in Nat /\ disk.inodes \in Nat
    BY DiskSizes
  <2> DEFINE all == disk.groups * disk.inodes
  <2>2. all \in Nat /\ number \in 0 .. all - 1 /\ all <= MaxInodes
    BY <1>2, <2>1 DEF Inums, Below
  <2> HIDE DEF all
  <2> QED BY <2>1, <2>2
<1>5. N!Parent(path) = Front(path)
  BY DEF N!Parent, Front
<1>6. path \in N!Vacant
  <2>1. name_to_inode_map[Front(path)] \in DirNumbers
    <3>1. name_to_inode_map[Front(path)] \in Live /\ inodes[name_to_inode_map[Front(path)]].type = "directory"
      BY <1>2 DEF Directories, Live
    <3> QED BY <1>1, <3>1 DEF DirNumbers, NodesOK
  <2>2. name_to_inode_map[path] = -1
    BY <1>2 DEF Bound
  <2> QED BY <1>5, <2>1, <2>2 DEF N!Vacant, DirNumbers
<1>7. N!Rebind(path, number)
  <2>1. name_to_inode_map'[path] = number
    BY <1>1, <1>2 DEF NamesOK
  <2> QED BY <1>2, <2>1 DEF N!Rebind
<1>8. DirNumbers' \in {DirNumbers, DirNumbers \cup {number}}
  <2>1. number \notin DirNumbers
    BY <1>1, <1>2 DEF DirNumbers, NodesOK
  <2>2. DirNumbers' = {i \in DOMAIN inodes' : inodes'[i].type = "directory"}
    BY DEF DirNumbers
  <2> DEFINE new == [type |-> type, blocks |-> blocks.allocated]
  <2>3. new.type = type
    OBVIOUS
  <2> HIDE DEF new
  <2>4. /\ DOMAIN inodes' = DOMAIN inodes \cup {number} /\ inodes'[number] = new
        /\ \A i \in DOMAIN inodes : i # number => inodes'[i] = inodes[i]
    BY <1>2 DEF Put, new
  <2>5. CASE type = "directory"
    <3>1. DirNumbers' = DirNumbers \cup {number}
      BY <2>2, <2>3, <2>4, <2>5 DEF DirNumbers
    <3> QED BY <3>1
  <2>6. CASE type # "directory"
    <3>1. DirNumbers' = DirNumbers
      BY <2>1, <2>2, <2>3, <2>4, <2>6 DEF DirNumbers
    <3> QED BY <3>1
  <2> QED BY <2>5, <2>6
<1>9. number \notin N!Named
  BY <1>2, <1>3
<1>10. N!Create(path, number)
  BY <1>7, <1>8, <1>9 DEF N!Create, DirNumbers
<1> QED BY <1>4, <1>6, <1>10

LEMMA DeleteRefines ==
    ASSUME disk \in Disks, Books, NEW path \in Paths \ {<<>>}, Deletes(path)
    PROVE  path \in N!Bound /\ N!Unlink(path)
<1> DEFINE number == name_to_inode_map[path]
           gone == [type |-> "", blocks |-> {}]
<1>1. NamesOK /\ NodesOK
  BY DEF Books
<1>2. /\ path \in Bound /\ inodes[number].type # "directory"
      /\ name_to_inode_map' = [name_to_inode_map EXCEPT ![path] = -1]
      /\ inodes' = [inodes EXCEPT ![number] = gone]
  BY DEF Deletes, Leaves, Removed
<1>3. N!Bound = Bound
  BY DEF N!Bound, Bound
<1>4. number \in DOMAIN inodes /\ number \notin DirNumbers
  BY <1>1, <1>2 DEF NodesOK, Live, DirNumbers
<1>5. gone.type # "directory"
  OBVIOUS
<1> HIDE DEF gone, number
<1>6. DirNumbers' = DirNumbers
  <2>1. DirNumbers' = {i \in DOMAIN inodes' : inodes'[i].type = "directory"}
    BY DEF DirNumbers
  <2> QED BY <1>2, <1>4, <1>5, <2>1 DEF DirNumbers
<1>7. N!Rebind(path, -1)
  <2>1. name_to_inode_map'[path] = -1
    BY <1>1, <1>2 DEF NamesOK
  <2> QED BY <1>2, <2>1 DEF N!Rebind
<1>8. N!Unlink(path)
  BY <1>4, <1>6, <1>7 DEF N!Unlink, DirNumbers, number
<1> QED BY <1>2, <1>3, <1>8

LEMMA GivesStutters ==
    ASSUME NEW why, Gives(why)
    PROVE  UNCHANGED N!nvars
<1>1. name_to_inode_map' = name_to_inode_map /\ inodes' = inodes
  BY DEF Gives, tables
<1>2. DirNumbers' = DirNumbers
  BY <1>1 DEF DirNumbers
<1> QED BY <1>1, <1>2 DEF N!nvars, DirNumbers

LEMMA NextRefines == IInv /\ [Next]_vars => [strayed' \/ N!NNext]_<<N!nvars, strayed>>
<1> SUFFICES ASSUME IInv, [Next]_vars, ~strayed'
             PROVE  N!NNext \/ (UNCHANGED N!nvars /\ strayed' = strayed)
  OBVIOUS
<1>1. disk \in Disks /\ strayed \in BOOLEAN /\ (~strayed => Books)
  BY DEF IInv
<1>2. ASSUME NEW path \in Paths \ {<<>>}, NEW size \in Nat, NEW type \in {"regular", "directory"},
             do_create(path, size, type)
      PROVE  N!NNext \/ (UNCHANGED N!nvars /\ strayed' = strayed)
  <2>1. /\ strayed' \in BOOLEAN /\ (strayed => strayed')
        /\ ~strayed' => \/ Gives("parent is a file")
                        \/ Gives("empty file")
                        \/ Gives("symbols") /\ available_symbols = 0
                        \/ Creates(path, size, type)
    BY <1>1, <1>2, CreateDoes
  <2>2. strayed = FALSE /\ strayed' = FALSE /\ Books
    BY <1>1, <2>1
  <2>3. CASE Creates(path, size, type)
    <3>1. \E number : /\ path \in N!Vacant /\ number \in 0 .. MaxInodes - 1
                      /\ N!Create(path, number)
      BY <1>1, <2>2, <2>3, CreateRefines DEF Creates
    <3> QED BY <3>1 DEF N!NNext
  <2>4. CASE Gives("parent is a file") \/ Gives("empty file") \/ Gives("symbols")
    <3>1. UNCHANGED N!nvars
      BY <2>4, GivesStutters
    <3> QED BY <2>2, <3>1
  <2> QED BY <2>1, <2>2, <2>3, <2>4
<1>3. ASSUME NEW path \in Paths \ {<<>>}, do_delete(path)
      PROVE  N!NNext \/ (UNCHANGED N!nvars /\ strayed' = strayed)
  <2>1. /\ strayed' \in BOOLEAN /\ (strayed => strayed')
        /\ ~strayed' => Gives("parent is a file") \/ Deletes(path)
    BY <1>1, <1>3, DeleteDoes
  <2>2. strayed = FALSE /\ strayed' = FALSE /\ Books
    BY <1>1, <2>1
  <2>3. CASE Deletes(path)
    <3>1. path \in N!Bound /\ N!Unlink(path)
      BY <1>1, <2>2, <2>3, DeleteRefines
    <3> QED BY <3>1 DEF N!NNext
  <2>4. CASE Gives("parent is a file")
    <3>1. UNCHANGED N!nvars
      BY <2>4, GivesStutters
    <3> QED BY <2>2, <3>1
  <2> QED BY <2>1, <2>2, <2>3, <2>4
<1>4. CASE UNCHANGED vars
  <2>1. Gives(error) /\ strayed' = strayed
    BY <1>4 DEF Gives, vars
  <2>2. UNCHANGED N!nvars
    BY <2>1, GivesStutters
  <2> QED BY <2>1, <2>2
<1>5. CASE Next
  <2>1. PICK path \in Paths \ {<<>>} : \/ \E size \in Sizes : create(path, size)
                                       \/ mkdir(path)
                                       \/ delete(path)
    BY <1>5 DEF Next
  <2>2. CASE \E size \in Sizes : create(path, size)
    <3>1. PICK size \in Sizes : do_create(path, size, "regular")
      BY <2>2 DEF create
    <3>2. size \in Nat
      BY FfsAssumption DEF FfsAssumption
    <3> QED BY <1>2, <3>1, <3>2
  <2>3. CASE mkdir(path)
    <3>1. do_create(path, 1, "directory") /\ 1 \in Nat
      BY <2>3 DEF mkdir
    <3> QED BY <1>2, <3>1
  <2>4. CASE delete(path)
    BY <1>3, <2>4 DEF delete
  <2> QED BY <2>1, <2>2, <2>3, <2>4
<1> QED BY <1>4, <1>5

LEMMA InitRefines == Init => N!NInit
<1> SUFFICES ASSUME Init PROVE N!NInit
  OBVIOUS
<1>1. /\ name_to_inode_map = [p \in Paths |-> IF p = <<>> THEN 0 ELSE -1]
      /\ inodes = [i \in {0} |-> [type |-> "directory", blocks |-> {0}]]
  BY DEF Init
<1>2. DirNumbers = {0}
  BY <1>1 DEF DirNumbers
<1> QED BY <1>1, <1>2 DEF N!NInit, DirNumbers

\* As long as nothing has gone astray do_create makes a name under a number that
\* no name leads to, do_delete takes one away, and the other names stay.
THEOREM NamespaceImplemented == Spec => ImplementsNamespace
<1>1. Init => N!NInit
  BY InitRefines
<1>2. IInv /\ [Next]_vars => [strayed' \/ N!NNext]_<<N!nvars, strayed>>
  BY NextRefines
<1> QED BY <1>1, <1>2, Invariance, PTL DEF Spec, ImplementsNamespace

-----------------------------------------------------------------------------
\* Where the loop puts a file.  Blocks that need not lie together: what a turn looks
\* at is not free after it.
LEMMA LookedAt ==
    ASSUME disk \in Disks, NEW s \in LoopStates, NEW size \in Nat, NEW number \in Int, number # FREE,
           Marked(s, number), Counted(s, size), s.end = "no", size > 0, s.chunks_free = 1
    PROVE  LET u == Turn(s, size, number) IN
           /\ u \in LoopStates /\ u.end # "assert" /\ Marked(u, number) /\ Counted(u, size)
           /\ u.bitmap[s.group][s.index] # FREE
           /\ \A g \in Groups, i \in Below(disk.blocks) : s.bitmap[g][i] # FREE => u.bitmap[g][i] # FREE
           /\ Takes(s, size) => /\ s.bitmap[s.group][s.index] = FREE
                                /\ u.allocated = s.allocated \cup {Here(s)} /\ Here(s) \notin s.allocated
           /\ ~Takes(s, size) => u.allocated = s.allocated /\ s.bitmap[s.group][s.index] # FREE
           /\ IsFiniteSet(s.allocated) /\ Cardinality(s.allocated) \in Nat
           /\ Cardinality(u.allocated) = Cardinality(s.allocated) + (IF Takes(s, size) THEN 1 ELSE 0)
<1> DEFINE u == Turn(s, size, number)
<1>1. /\ s.bitmap \in [Groups -> [Below(disk.blocks) -> Int]] /\ s.group \in Groups
      /\ s.index \in Below(disk.blocks)
  BY DEF LoopStates
<1>2. Cardinality(s.allocated) \in Nat /\ Cardinality(s.allocated) < size /\ IsFiniteSet(s.allocated)
  BY OneBlockMore DEF Counted
<1>3. Takes(s, size) <=> s.bitmap[s.group][s.index] = FREE
  BY <1>2, TakesFree
<1>4. /\ u.bitmap = IF Takes(s, size)
                    THEN [s.bitmap EXCEPT ![s.group] = [@ EXCEPT ![s.index] = number]]
                    ELSE s.bitmap
      /\ u.allocated = IF Takes(s, size) THEN s.allocated \cup {Here(s)} ELSE s.allocated
      /\ u.end = IF Takes(s, size) /\ s.bitmap[s.group][s.index] # FREE THEN "assert"
                 ELSE IF Cardinality(u.allocated) = size THEN "done" ELSE "no"
      /\ u \in LoopStates
  BY TurnFields
<1>5. u.end # "assert"
  BY <1>3, <1>4
<1>6. Marked(u, number) /\ Counted(u, size)
  BY <1>5, TurnMarks, TurnCounts
<1> HIDE DEF u
<1>7. u.bitmap[s.group][s.index] # FREE
  BY <1>1, <1>3, <1>4
<1>8. \A g \in Groups, i \in Below(disk.blocks) : s.bitmap[g][i] # FREE => u.bitmap[g][i] # FREE
  <2> SUFFICES ASSUME NEW g \in Groups, NEW i \in Below(disk.blocks), s.bitmap[g][i] # FREE
               PROVE  u.bitmap[g][i] # FREE
    OBVIOUS
  <2>1. CASE g = s.group /\ i = s.index
    BY <1>7, <2>1
  <2>2. CASE ~(g = s.group /\ i = s.index)
    <3>1. u.bitmap[g][i] = s.bitmap[g][i]
      BY <1>1, <1>4, <2>2
    <3> QED BY <3>1
  <2> QED BY <2>1, <2>2
<1>9. Takes(s, size) => Here(s) \notin s.allocated
                        /\ Cardinality(s.allocated \cup {Here(s)}) = Cardinality(s.allocated) + 1
  BY <1>3, OneBlockMore
<1>10. Cardinality(u.allocated) = Cardinality(s.allocated) + (IF Takes(s, size) THEN 1 ELSE 0)
  BY <1>2, <1>4, <1>9
<1> QED BY <1>2, <1>3, <1>4, <1>5, <1>6, <1>7, <1>8, <1>9, <1>10 DEF u

\* All that was free in a group is allocated when the group is full.
LEMMA FullIsAllocated ==
    ASSUME disk \in Disks, NEW s \in LoopStates, NEW number, Marked(s, number), NEW g \in Groups,
           Full(s, g), IsFiniteSet(s.allocated)
    PROVE  Cardinality(FreeIn(data_bitmap, disk.blocks, g)) <= Cardinality(s.allocated)
<1>1. disk.groups \in Nat \ {0} /\ disk.blocks \in Nat \ {0} /\ Groups = Below(disk.groups)
  BY DiskSizes, GroupsBelow
<1>2. ASSUME NEW b \in FreeIn(data_bitmap, disk.blocks, g) PROVE b \in s.allocated
  <2>1. /\ b \in Below(disk.groups * disk.blocks) /\ b \div disk.blocks = g
        /\ data_bitmap[g][b % disk.blocks] = FREE
    BY DEF FreeIn, FreeOf
  <2>2. /\ b % disk.blocks \in Below(disk.blocks)
        /\ b = At(disk.blocks, b \div disk.blocks, b % disk.blocks)
    BY <1>1, <2>1, PlaceOfNumber
  <2>3. b = At(disk.blocks, g, b % disk.blocks)
    BY <2>1, <2>2
  <2> QED BY <2>1, <2>2, <2>3 DEF Marked, Full
<1>3. FreeIn(data_bitmap, disk.blocks, g) \subseteq s.allocated
  BY <1>2
<1> QED BY <1>3, FS_Subset

\* The file stays in its group while the group has room and the limit allows it.
Home(s, t, size, number) ==
    /\ Marked(s, number) /\ Counted(s, size) /\ s.end # "assert"
    /\ \A b \in s.allocated : b \div disk.blocks = t
    /\ s.end = "no" =>
          /\ s.group = t /\ s.chunks_free = 1 /\ s.in_group = Cardinality(s.allocated)
          /\ \A i \in Below(disk.blocks) : i < s.index => s.bitmap[t][i] # FREE

LEMMA HomeTurn ==
    ASSUME disk \in Disks, NEW s \in LoopStates, NEW size \in Nat, NEW number \in Int, number # FREE,
           NEW t \in Groups, size > 0, s.end = "no", Home(s, t, size, number),
           Cardinality(FreeIn(data_bitmap, disk.blocks, t)) \in Nat,
           Cardinality(FreeIn(data_bitmap, disk.blocks, t)) >= size,
           disk.large = 0 \/ size <= disk.large
    PROVE  Home(Turn(s, size, number), t, size, number)
<1> DEFINE u == Turn(s, size, number)
           count == Cardinality(u.allocated)
<1>1. /\ Marked(s, number) /\ Counted(s, size) /\ s.group = t /\ s.chunks_free = 1
      /\ s.in_group = Cardinality(s.allocated)
      /\ \A b \in s.allocated : b \div disk.blocks = t
      /\ \A i \in Below(disk.blocks) : i < s.index => s.bitmap[t][i] # FREE
  BY DEF Home
<1>2. /\ u \in LoopStates /\ u.end # "assert" /\ Marked(u, number) /\ Counted(u, size)
      /\ u.bitmap[s.group][s.index] # FREE
      /\ \A g \in Groups, i \in Below(disk.blocks) : s.bitmap[g][i] # FREE => u.bitmap[g][i] # FREE
      /\ u.allocated = IF Takes(s, size) THEN s.allocated \cup {Here(s)} ELSE s.allocated
      /\ Cardinality(s.allocated) \in Nat
      /\ count = Cardinality(s.allocated) + (IF Takes(s, size) THEN 1 ELSE 0)
  BY <1>1, LookedAt
<1>3. /\ disk.groups \in Nat \ {0} /\ disk.blocks \in Nat \ {0} /\ Groups = Below(disk.groups)
      /\ disk.large \in Nat /\ s.index \in Below(disk.blocks) /\ s.index \in Nat /\ s.index < disk.blocks
  <2>1. s.index \in Below(disk.blocks)
    BY DEF LoopStates
  <2>2. disk.blocks \in Nat \ {0}
    BY DiskSizes
  <2>3. s.index \in Nat /\ s.index < disk.blocks
    BY <2>1, <2>2 DEF Below
  <2> QED BY <2>1, <2>3, DiskSizes, GroupsBelow
<1>4. /\ u.group = IF Moves(s, size) THEN (s.group + 1) % disk.groups ELSE s.group
      /\ u.index = IF Moves(s, size) THEN 0 ELSE s.index + 1
      /\ u.in_group = IF Moves(s, size) THEN 0 ELSE InGroup(s, size)
      /\ ~Moves(s, size) => u.chunks_free = s.chunks_free
  BY TurnFields
<1> HIDE DEF u
<1>5. \A b \in u.allocated : b \div disk.blocks = t
  <2>1. Here(s) \div disk.blocks = t
    BY <1>1, <1>3, NumberOfPlace DEF Here
  <2> QED BY <1>1, <1>2, <2>1
<1>6. \A i \in Below(disk.blocks) : i < s.index + 1 => u.bitmap[t][i] # FREE
  <2> SUFFICES ASSUME NEW i \in Below(disk.blocks), i < s.index + 1 PROVE u.bitmap[t][i] # FREE
    OBVIOUS
  <2>1. i < s.index \/ i = s.index
    BY <1>3 DEF Below
  <2> QED BY <1>1, <1>2, <2>1
<1>7. InGroup(s, size) = count
  BY <1>1, <1>2 DEF InGroup
<1> HIDE DEF count
<1>8. ASSUME u.end = "no" PROVE ~Moves(s, size)
  <2>1. count < size /\ count \in Nat
    BY <1>2, <1>8 DEF Counted, count
  <2>2. ASSUME s.index + 1 = disk.blocks PROVE FALSE
    <3>1. Full(u, t)
      <4>1. \A i \in Below(disk.blocks) : i < disk.blocks
        BY <1>3 DEF Below
      <4> QED BY <1>6, <2>2, <4>1 DEF Full
    <3>2. IsFiniteSet(u.allocated)
      BY <1>2, OneBlockMore
    <3>3. Cardinality(FreeIn(data_bitmap, disk.blocks, t)) <= count
      BY <1>2, <3>1, <3>2, FullIsAllocated DEF count
    <3> QED BY <2>1, <3>3
  <2>3. ~(disk.large > 0 /\ InGroup(s, size) = disk.large)
    BY <1>3, <1>7, <2>1
  <2> QED BY <2>2, <2>3 DEF Moves
<1>9. ASSUME u.end = "no"
      PROVE  /\ u.group = t /\ u.chunks_free = 1 /\ u.in_group = Cardinality(u.allocated)
             /\ \A i \in Below(disk.blocks) : i < u.index => u.bitmap[t][i] # FREE
  BY <1>1, <1>4, <1>6, <1>7, <1>8, <1>9 DEF count
<1> QED BY <1>2, <1>5, <1>9 DEF Home, u

LEMMA StaysHome ==
    ASSUME disk \in Disks, data_bitmap \in [Groups -> [Below(disk.blocks) -> Int]],
           NEW t \in Groups, NEW size \in Nat, NEW number \in Int, number # FREE,
           disk.contig = 1, disk.large = 0 \/ size <= disk.large,
           Cardinality(FreeIn(data_bitmap, disk.blocks, t)) \in Nat,
           Cardinality(FreeIn(data_bitmap, disk.blocks, t)) >= size,
           allocate_blocks(t, size, number).end = "done"
    PROVE  \A b \in allocate_blocks(t, size, number).allocated : b \div disk.blocks = t
<1>0. t \in Int
  BY GroupsBelow
<1>1. CASE size = 0
  <2> DEFINE blocks == allocate_blocks(t, size, number)
  <2>1. blocks \in LoopStates /\ Marked(blocks, number) /\ Cardinality(blocks.allocated) = 0
    BY <1>0, <1>1, WhatIsAllocated
  <2> HIDE DEF blocks
  <2>2. IsFiniteSet(blocks.allocated)
    BY <2>1, OneBlockMore
  <2>3. blocks.allocated = {}
    BY <2>1, <2>2, FS_EmptySet
  <2> QED BY <2>3 DEF blocks
<1>2. CASE size > 0
  <2>1. PICK f : /\ MaxTurns(size) \in Nat /\ IsLoop(f, t, size, number)
                 /\ allocate_blocks(t, size, number) = f[MaxTurns(size)]
    BY <1>0, LoopExists
  <2> DEFINE R == {x \in Nat \X LoopStates : Home(x[2], t, size, number)}
  <2>2. FirstState(t) \in LoopStates
    BY <1>0, FirstStateIs DEF IsBitmap
  <2>3. Home(FirstState(t), t, size, number)
    <3>1. /\ FirstState(t).allocated = {} /\ FirstState(t).bitmap = data_bitmap
          /\ FirstState(t).end = "no" /\ FirstState(t).index = 0 /\ FirstState(t).in_group = 0
          /\ FirstState(t).chunks_free = 1
      BY DEF FirstState
    <3>2. Cardinality({}) = 0
      BY FS_EmptySet
    <3>3. FirstState(t).group = t
      BY WhereFirst
    <3>4. Marked(FirstState(t), number)
      BY <3>1 DEF Marked
    <3>5. Counted(FirstState(t), size)
      BY <1>2, <3>1, <3>2 DEF Counted
    <3>6. \A i \in Below(disk.blocks) : ~(i < 0)
      BY DiskSizes DEF Below
    <3> QED BY <3>1, <3>2, <3>3, <3>4, <3>5, <3>6 DEF Home
  <2>4. <<0, FirstState(t)>> \in R
    BY <2>2, <2>3
  <2>5. ASSUME NEW k \in Nat, NEW s \in LoopStates, <<k, s>> \in R
        PROVE  <<k + 1, Later(s, size, number)>> \in R
    <3>1. Later(s, size, number) \in LoopStates
      BY TurnFields DEF Later
    <3>2. Home(s, t, size, number)
      BY <2>5
    <3>3. Home(Later(s, size, number), t, size, number)
      <4>1. CASE s.end = "no"
        <5>1. Home(Turn(s, size, number), t, size, number)
          BY <1>2, <3>2, <4>1, HomeTurn
        <5> QED BY <4>1, <5>1 DEF Later
      <4>2. CASE s.end # "no"
        BY <3>2, <4>2 DEF Later
      <4> QED BY <4>1, <4>2
    <3> QED BY <3>1, <3>3
  <2>6. <<MaxTurns(size), f[MaxTurns(size)]>> \in R
    <3> HIDE DEF R
    <3> QED BY <2>1, <2>4, <2>5, LoopInduction
  <2>7. Home(f[MaxTurns(size)], t, size, number)
    BY <2>6
  <2> QED BY <2>1, <2>7 DEF Home
<1> QED BY <1>1, <1>2

\* Round after round every group gets as many blocks as the limit allows, or all it has.
Share(s, g) == Cardinality(BlocksIn(g, s.allocated))
Rounds(r) == r * disk.large
Due(s, r, c, e) ==
    IF e < c THEN Rounds(r + 1) ELSE IF e = c THEN Rounds(r) + s.in_group ELSE Rounds(r)
Even(s, t, r, c) ==
    /\ \A e \in Below(disk.groups) :
          \/ Share(s, Nth(t, e)) = Due(s, r, c, e)
          \/ Share(s, Nth(t, e)) <= Due(s, r, c, e) /\ Full(s, Nth(t, e))
    /\ \A i \in Below(disk.blocks) : i < s.index => s.bitmap[s.group][i] # FREE
Spread(s, t, size, number) ==
    /\ Marked(s, number) /\ Counted(s, size) /\ s.end # "assert" /\ s.chunks_free = 1
    /\ \E j, r, c : j \in Nat /\ Where(j, s, t, r, c) /\ Even(s, t, r, c)

\* A turn adds one block to the share of its group, or none.
LEMMA ShareGrows ==
    ASSUME disk \in Disks, NEW s \in LoopStates, NEW size \in Nat, NEW number \in Int, number # FREE,
           Marked(s, number), Counted(s, size), s.end = "no", size > 0, s.chunks_free = 1,
           NEW g \in Groups
    PROVE  LET u == Turn(s, size, number) IN
           /\ Share(s, g) \in Nat
           /\ Share(u, g) = IF Takes(s, size) /\ g = s.group THEN Share(s, g) + 1 ELSE Share(s, g)
           /\ Full(s, g) => Full(u, g) /\ ~(Takes(s, size) /\ g = s.group)
<1> DEFINE u == Turn(s, size, number)
<1>1. /\ Takes(s, size) => /\ s.bitmap[s.group][s.index] = FREE
                           /\ u.allocated = s.allocated \cup {Here(s)} /\ Here(s) \notin s.allocated
      /\ ~Takes(s, size) => u.allocated = s.allocated
      /\ \A h \in Groups, i \in Below(disk.blocks) : s.bitmap[h][i] # FREE => u.bitmap[h][i] # FREE
      /\ IsFiniteSet(s.allocated)
  BY LookedAt
<1>2. s.group \in Groups /\ s.index \in Below(disk.blocks)
  BY DEF LoopStates
<1>3. Here(s) \div disk.blocks = s.group
  BY <1>2, DiskSizes, GroupsBelow, NumberOfPlace DEF Here
<1> HIDE DEF u
<1>4. IsFiniteSet(BlocksIn(g, s.allocated)) /\ Share(s, g) \in Nat
  <2>1. BlocksIn(g, s.allocated) \subseteq s.allocated
    BY DEF BlocksIn
  <2>2. IsFiniteSet(BlocksIn(g, s.allocated))
    BY <1>1, <2>1, FS_Subset
  <2> QED BY <2>2, FS_CardinalityType DEF Share
<1>5. CASE Takes(s, size) /\ g = s.group
  <2>1. /\ BlocksIn(g, u.allocated) = BlocksIn(g, s.allocated) \cup {Here(s)}
        /\ Here(s) \notin BlocksIn(g, s.allocated)
    BY <1>1, <1>3, <1>5 DEF BlocksIn
  <2>2. Share(u, g) = Share(s, g) + 1
    BY <1>4, <2>1, FS_AddElement DEF Share
  <2>3. ~Full(s, g)
    BY <1>1, <1>2, <1>5 DEF Full
  <2> QED BY <1>4, <1>5, <2>2, <2>3 DEF u
<1>6. CASE ~(Takes(s, size) /\ g = s.group)
  <2>1. BlocksIn(g, u.allocated) = BlocksIn(g, s.allocated)
    BY <1>1, <1>3, <1>6 DEF BlocksIn
  <2>2. Full(s, g) => Full(u, g)
    BY <1>1 DEF Full
  <2> QED BY <1>4, <1>6, <2>1, <2>2 DEF Share, u
<1> QED BY <1>5, <1>6

LEMMA RoundsGrow ==
    ASSUME disk \in Disks
    PROVE  \A r \in Nat : Rounds(r) \in Nat /\ Rounds(r + 1) = Rounds(r) + disk.large
<1>1. disk.large \in Nat
  BY DiskSizes
<1> QED BY <1>1 DEF Rounds

LEMMA SpreadTurn ==
    ASSUME disk \in Disks, NEW s \in LoopStates, NEW size \in Nat, NEW number \in Int, number # FREE,
           NEW t \in Groups, size > 0, s.end = "no", disk.large > 0, Spread(s, t, size, number)
    PROVE  Spread(Turn(s, size, number), t, size, number)
<1> DEFINE u == Turn(s, size, number)
<1>1. PICK j, r, c : j \in Nat /\ Where(j, s, t, r, c) /\ Even(s, t, r, c)
  BY DEF Spread
<1>2. Marked(s, number) /\ Counted(s, size) /\ s.chunks_free = 1
  BY DEF Spread
<1>3. /\ u \in LoopStates /\ u.end # "assert" /\ Marked(u, number) /\ Counted(u, size)
      /\ u.bitmap[s.group][s.index] # FREE
      /\ \A g \in Groups, i \in Below(disk.blocks) : s.bitmap[g][i] # FREE => u.bitmap[g][i] # FREE
  BY <1>2, LookedAt
<1>4. /\ ~Moves(s, size) => /\ Where(j + 1, u, t, r, c)
                            /\ u.group = s.group /\ u.index = s.index + 1
                            /\ u.in_group = InGroup(s, size)
      /\ Moves(s, size) => u.index = 0 /\ u.in_group = 0
      /\ Moves(s, size) /\ c + 1 # disk.groups => Where(j + 1, u, t, r, c + 1)
      /\ Moves(s, size) /\ c + 1 = disk.groups => Where(j + 1, u, t, r + 1, 0)
      /\ u.chunks_free = 1
  BY <1>1, <1>2, TurnMoves
<1>5. \A g \in Groups :
         /\ Share(s, g) \in Nat
         /\ Share(u, g) = IF Takes(s, size) /\ g = s.group THEN Share(s, g) + 1 ELSE Share(s, g)
         /\ Full(s, g) => Full(u, g) /\ ~(Takes(s, size) /\ g = s.group)
  BY <1>2, ShareGrows
<1> HIDE DEF u
<1>6. /\ s.index \in Below(disk.blocks) /\ s.in_group \in Nat /\ r \in Nat /\ c \in Below(disk.groups)
      /\ s.group = Nth(t, c) /\ s.in_group < disk.large
  BY <1>1 DEF LoopStates, Where
<1>7. /\ disk.groups \in Nat \ {0} /\ disk.blocks \in Nat \ {0} /\ disk.large \in Nat
      /\ \A i \in Below(disk.blocks) : i \in Nat /\ i < disk.blocks
      /\ \A e \in Below(disk.groups) : e \in Nat /\ e < disk.groups
  BY DiskSizes DEF Below
<1>8. \A i \in Below(disk.blocks) : i < s.index + 1 => u.bitmap[s.group][i] # FREE
  <2> SUFFICES ASSUME NEW i \in Below(disk.blocks), i < s.index + 1 PROVE u.bitmap[s.group][i] # FREE
    OBVIOUS
  <2>1. i \in Nat /\ s.index \in Nat /\ s.group \in Groups
    BY <1>6, <1>7 DEF LoopStates
  <2>2. CASE i < s.index
    <3>1. s.bitmap[s.group][i] # FREE
      BY <1>1, <2>2 DEF Even
    <3> QED BY <1>3, <2>1, <3>1
  <2>3. CASE i = s.index
    BY <1>3, <2>3
  <2> QED BY <2>1, <2>2, <2>3
<1>9. InGroup(s, size) \in Nat /\ InGroup(s, size) <= disk.large
  BY <1>6, <1>7 DEF InGroup
\* What is due when the turn is over, before the search moves on.
<1> DEFINE due(e) == IF e < c THEN Rounds(r + 1)
                     ELSE IF e = c THEN Rounds(r) + InGroup(s, size) ELSE Rounds(r)
<1>10. ASSUME NEW e \in Below(disk.groups)
       PROVE  \/ Share(u, Nth(t, e)) = due(e)
              \/ Share(u, Nth(t, e)) <= due(e) /\ Full(u, Nth(t, e))
  <2> DEFINE g == Nth(t, e)
  <2>1. g \in Groups /\ (g = s.group <=> e = c)
    <3>1. /\ \A x \in Below(disk.groups) : Nth(t, x) \in Groups
          /\ \A x, y \in Below(disk.groups) : Nth(t, x) = Nth(t, y) => x = y
      BY NthIs
    <3> QED BY <1>6, <3>1
  <2>2. Share(s, g) = Due(s, r, c, e) \/ (Share(s, g) <= Due(s, r, c, e) /\ Full(s, g))
    BY <1>1 DEF Even
  <2>3. /\ Share(s, g) \in Nat
        /\ Share(u, g) = IF Takes(s, size) /\ g = s.group THEN Share(s, g) + 1 ELSE Share(s, g)
        /\ Full(s, g) => Full(u, g) /\ ~(Takes(s, size) /\ g = s.group)
    BY <1>5, <2>1
  <2>4. e \in Nat /\ c \in Nat /\ Rounds(r) \in Nat /\ Rounds(r + 1) \in Nat
    <3>1. r \in Nat /\ r + 1 \in Nat
      BY <1>6
    <3> QED BY <1>6, <1>7, <3>1, RoundsGrow
  <2> HIDE DEF g
  <2>5. CASE e = c
    <3>1. Due(s, r, c, e) = Rounds(r) + s.in_group /\ due(e) = Rounds(r) + InGroup(s, size)
      BY <2>4, <2>5 DEF Due
    <3>2. InGroup(s, size) = IF Takes(s, size) THEN s.in_group + 1 ELSE s.in_group
      BY DEF InGroup
    <3> HIDE DEF due
    <3>3. Share(u, g) = due(e) \/ (Share(u, g) <= due(e) /\ Full(u, g))
      BY <1>6, <2>1, <2>2, <2>3, <2>4, <2>5, <3>1, <3>2
    <3> QED BY <3>3 DEF g
  <2>6. CASE e # c
    <3>1. Due(s, r, c, e) = due(e)
      BY <2>6 DEF Due
    <3> HIDE DEF due
    <3>2. Share(u, g) = due(e) \/ (Share(u, g) <= due(e) /\ Full(u, g))
      BY <2>1, <2>2, <2>3, <2>6, <3>1
    <3> QED BY <3>2 DEF g
  <2> QED BY <2>5, <2>6
<1>11. CASE ~Moves(s, size)
  <2>1. \A e \in Below(disk.groups) : Due(u, r, c, e) = due(e)
    BY <1>4, <1>11 DEF Due
  <2> HIDE DEF due
  <2>2. Even(u, t, r, c)
    BY <1>4, <1>8, <1>10, <1>11, <2>1 DEF Even
  <2>3. j + 1 \in Nat
    BY <1>1
  <2> QED BY <1>3, <1>4, <1>11, <2>2, <2>3 DEF Spread, u
<1>12. ASSUME Moves(s, size)
       PROVE  \/ Share(u, Nth(t, c)) = Rounds(r + 1)
              \/ Share(u, Nth(t, c)) <= Rounds(r + 1) /\ Full(u, Nth(t, c))
  <2>1. /\ Rounds(r) \in Nat /\ Rounds(r + 1) = Rounds(r) + disk.large
        /\ Share(u, Nth(t, c)) \in Nat
    <3>1. Nth(t, c) \in Groups
      BY <1>6, NthIs
    <3> QED BY <1>5, <1>6, <3>1, RoundsGrow
  <2>2. due(c) = Rounds(r) + InGroup(s, size)
    BY <1>6, <1>7
  <2>3. \/ Share(u, Nth(t, c)) = due(c)
        \/ Share(u, Nth(t, c)) <= due(c) /\ Full(u, Nth(t, c))
    BY <1>6, <1>10
  <2> HIDE DEF due
  <2>4. CASE InGroup(s, size) = disk.large
    BY <2>1, <2>2, <2>3, <2>4
  <2>5. CASE s.index + 1 = disk.blocks
    <3>1. Full(u, s.group)
      <4>1. \A i \in Below(disk.blocks) : i < disk.blocks
        BY <1>7
      <4> QED BY <1>8, <2>5, <4>1 DEF Full
    <3>2. Share(u, Nth(t, c)) <= Rounds(r + 1)
      BY <1>7, <1>9, <2>1, <2>2, <2>3
    <3> QED BY <1>6, <3>1, <3>2
  <2> QED BY <1>12, <2>4, <2>5 DEF Moves
<1>13. \A i \in Below(disk.blocks) : ~(i < 0)
  BY <1>7
<1>14. CASE Moves(s, size) /\ c + 1 # disk.groups
  <2>1. \A e \in Below(disk.groups) : /\ e # c => Due(u, r, c + 1, e) = due(e)
                                      /\ e = c => Due(u, r, c + 1, e) = Rounds(r + 1)
    <3> SUFFICES ASSUME NEW e \in Below(disk.groups)
                 PROVE  /\ e # c => Due(u, r, c + 1, e) = due(e)
                        /\ e = c => Due(u, r, c + 1, e) = Rounds(r + 1)
      OBVIOUS
    <3>1. e \in Nat /\ c \in Nat /\ u.in_group = 0 /\ Rounds(r) \in Nat
      BY <1>4, <1>6, <1>7, <1>14, RoundsGrow
    <3> QED BY <3>1 DEF Due
  <2> HIDE DEF due
  <2>2. Even(u, t, r, c + 1)
    BY <1>4, <1>10, <1>12, <1>13, <1>14, <2>1 DEF Even
  <2>3. j + 1 \in Nat
    BY <1>1
  <2> QED BY <1>3, <1>4, <1>14, <2>2, <2>3 DEF Spread, u
<1>15. CASE Moves(s, size) /\ c + 1 = disk.groups
  <2>1. \A e \in Below(disk.groups) : /\ Due(u, r + 1, 0, e) = Rounds(r + 1)
                                      /\ e # c => due(e) = Rounds(r + 1)
    <3> SUFFICES ASSUME NEW e \in Below(disk.groups)
                 PROVE  /\ Due(u, r + 1, 0, e) = Rounds(r + 1)
                        /\ e # c => due(e) = Rounds(r + 1)
      OBVIOUS
    <3>1. r + 1 \in Nat
      BY <1>6
    <3>2. e \in Nat /\ e < disk.groups /\ c \in Nat /\ u.in_group = 0 /\ Rounds(r + 1) \in Nat
      BY <1>4, <1>6, <1>7, <1>15, <3>1, RoundsGrow
    <3> QED BY <1>7, <1>15, <3>2 DEF Due
  <2> HIDE DEF due
  <2>2. Even(u, t, r + 1, 0)
    BY <1>4, <1>10, <1>12, <1>13, <1>15, <2>1 DEF Even
  <2>3. j + 1 \in Nat
    BY <1>1
  <2> QED BY <1>3, <1>4, <1>15, <2>2, <2>3 DEF Spread, u
<1> QED BY <1>11, <1>14, <1>15

LEMMA SpreadsFile ==
    ASSUME disk \in Disks, data_bitmap \in [Groups -> [Below(disk.blocks) -> Int]],
           NEW t \in Groups, NEW size \in Nat, NEW number \in Int, number # FREE,
           size > 0, disk.contig = 1, disk.large > 0, allocate_blocks(t, size, number).end = "done",
           NEW g \in Groups, NEW h \in Groups, NEW k \in Nat \ {0},
           Share(allocate_blocks(t, size, number), g) > Rounds(k)
    PROVE  \/ Share(allocate_blocks(t, size, number), h) >= Rounds(k)
           \/ Full(allocate_blocks(t, size, number), h)
<1>0. t \in Int
  BY GroupsBelow
<1>1. disk.large \in Nat /\ Rounds(k) \in Nat
  BY DiskSizes, RoundsGrow
<1>2. size > 0
  OBVIOUS
<1>3. PICK f : /\ MaxTurns(size) \in Nat /\ IsLoop(f, t, size, number)
               /\ allocate_blocks(t, size, number) = f[MaxTurns(size)]
  BY <1>0, LoopExists
<1> DEFINE R == {x \in Nat \X LoopStates : Spread(x[2], t, size, number)}
           s == f[MaxTurns(size)]
<1>4. FirstState(t) \in LoopStates
  BY <1>0, FirstStateIs DEF IsBitmap
<1>5. Spread(FirstState(t), t, size, number)
  <2>1. /\ FirstState(t).allocated = {} /\ FirstState(t).bitmap = data_bitmap
        /\ FirstState(t).end = "no" /\ FirstState(t).index = 0 /\ FirstState(t).in_group = 0
        /\ FirstState(t).chunks_free = 1
    BY DEF FirstState
  <2>2. Cardinality({}) = 0
    BY FS_EmptySet
  <2>3. Where(0, FirstState(t), t, 0, 0)
    BY WhereFirst
  <2>4. Marked(FirstState(t), number)
    BY <2>1 DEF Marked
  <2>5. Counted(FirstState(t), size)
    BY <1>2, <2>1, <2>2 DEF Counted
  <2>6. \A i \in Below(disk.blocks) : ~(i < 0)
    BY DiskSizes DEF Below
  <2>7. \A e \in Below(disk.groups) : Share(FirstState(t), Nth(t, e)) = Due(FirstState(t), 0, 0, e)
    <3> SUFFICES ASSUME NEW e \in Below(disk.groups)
                 PROVE  Share(FirstState(t), Nth(t, e)) = Due(FirstState(t), 0, 0, e)
      OBVIOUS
    <3>1. BlocksIn(Nth(t, e), FirstState(t).allocated) = {}
      BY <2>1 DEF BlocksIn
    <3>2. Share(FirstState(t), Nth(t, e)) = 0
      BY <2>2, <3>1 DEF Share
    <3>3. Rounds(0) = 0 /\ ~(e < 0)
      BY <1>1, DiskSizes DEF Rounds, Below
    <3> QED BY <2>1, <3>2, <3>3 DEF Due
  <2>8. Even(FirstState(t), t, 0, 0)
    BY <2>1, <2>6, <2>7 DEF Even
  <2>9. 0 \in Nat
    OBVIOUS
  <2> QED BY <2>1, <2>3, <2>4, <2>5, <2>8, <2>9 DEF Spread
<1>6. <<0, FirstState(t)>> \in R
  BY <1>4, <1>5
<1>7. ASSUME NEW n \in Nat, NEW x \in LoopStates, <<n, x>> \in R
      PROVE  <<n + 1, Later(x, size, number)>> \in R
  <2>1. Later(x, size, number) \in LoopStates
    BY TurnFields DEF Later
  <2>2. Spread(x, t, size, number)
    BY <1>7
  <2>3. Spread(Later(x, size, number), t, size, number)
    <3>1. CASE x.end = "no"
      <4>1. Spread(Turn(x, size, number), t, size, number)
        BY <1>2, <2>2, <3>1, SpreadTurn
      <4> QED BY <3>1, <4>1 DEF Later
    <3>2. CASE x.end # "no"
      BY <2>2, <3>2 DEF Later
    <3> QED BY <3>1, <3>2
  <2> QED BY <2>1, <2>3
<1>8. <<MaxTurns(size), s>> \in R
  <2> HIDE DEF R
  <2> QED BY <1>3, <1>6, <1>7, LoopInduction
<1>9. Spread(s, t, size, number)
  BY <1>8
<1>10. s \in LoopStates
  BY <1>3 DEF IsLoop
<1>11. Share(s, g) > Rounds(k)
  BY <1>3
<1> HIDE DEF s
<1>12. PICK j, r, c : j \in Nat /\ Where(j, s, t, r, c) /\ Even(s, t, r, c)
  BY <1>9 DEF Spread
<1>13. /\ r \in Nat /\ s.in_group \in Nat /\ s.in_group < disk.large
       /\ Rounds(r) \in Nat /\ Rounds(r + 1) = Rounds(r) + disk.large
  BY <1>2, <1>10, <1>12, RoundsGrow DEF Where, LoopStates
<1>14. \A e \in Below(disk.groups) : /\ Due(s, r, c, e) \in Nat /\ Due(s, r, c, e) >= Rounds(r)
                                     /\ Due(s, r, c, e) <= Rounds(r + 1)
  BY <1>1, <1>13 DEF Due
<1>15. \A x \in Groups : \E e \in Below(disk.groups) : Nth(t, e) = x
  BY NthIs
<1>16. \A x \in Groups :
          \E d \in Nat : /\ d >= Rounds(r) /\ d <= Rounds(r + 1)
                         /\ Share(s, x) = d \/ (Share(s, x) <= d /\ Full(s, x))
  BY <1>12, <1>14, <1>15 DEF Even
<1>17. Share(s, g) <= Rounds(r + 1) /\ Share(s, g) \in Int
  <2>1. PICK d \in Nat : /\ d <= Rounds(r + 1)
                         /\ Share(s, g) = d \/ (Share(s, g) <= d /\ Full(s, g))
    BY <1>16
  <2>2. Share(s, g) \in Nat
    <3>1. Marked(s, number)
      BY <1>9 DEF Spread
    <3>2. IsFiniteSet(s.allocated) /\ BlocksIn(g, s.allocated) \subseteq s.allocated
      BY <1>10, <3>1, OneBlockMore DEF BlocksIn
    <3> QED BY <3>2, FS_Subset, FS_CardinalityType DEF Share
  <2> QED BY <1>1, <1>13, <2>1, <2>2
<1>18. Rounds(k) <= Rounds(r)
  <2>1. Rounds(k) < Rounds(r + 1)
    BY <1>1, <1>11, <1>13, <1>17
  <2>2. k <= r
    <3> SUFFICES ASSUME k > r PROVE FALSE
      BY <1>13
    <3>1. disk.large \in Nat \ {0} /\ k \in Int /\ r \in Int /\ r < k
      BY <1>1, <1>13
    <3>2. disk.large * r + disk.large <= disk.large * k
      BY <3>1, MulMonotone
    <3>3. Rounds(r) = disk.large * r /\ Rounds(k) = disk.large * k
      BY <1>1, <1>13 DEF Rounds
    <3> QED BY <1>1, <1>13, <2>1, <3>2, <3>3
  <2>3. disk.large * k <= disk.large * r
    <3>1. CASE k = r
      <4>1. disk.large * r \in Int
        BY <1>1, <1>13
      <4> QED BY <3>1, <4>1
    <3>2. CASE k < r
      <4>1. disk.large * k + disk.large <= disk.large * r
        <5>1. disk.large \in Nat \ {0} /\ k \in Int /\ r \in Int
          BY <1>1, <1>13
        <5> QED BY <3>2, <5>1, MulMonotone
      <4> QED BY <1>1, <1>13, <4>1
    <3> QED BY <1>13, <2>2, <3>1, <3>2
  <2>4. Rounds(r) = disk.large * r /\ Rounds(k) = disk.large * k
    BY <1>1, <1>13 DEF Rounds
  <2> QED BY <2>3, <2>4
<1>19. PICK d \in Nat : /\ d >= Rounds(r)
                        /\ Share(s, h) = d \/ (Share(s, h) <= d /\ Full(s, h))
  BY <1>16
<1>20. Share(s, h) >= Rounds(k) \/ Full(s, h)
  BY <1>1, <1>13, <1>18, <1>19
<1> QED BY <1>3, <1>20 DEF s

-----------------------------------------------------------------------------
\* The addresses of an inode and of blocks that lie in one group.
LEMMA SpanOfGroup ==
    ASSUME disk \in Disks, NEW g \in Groups, NEW number \in Inums, GroupOf(number) = g,
           NEW T, T \subseteq BlockNumbers, \A b \in T : b \div disk.blocks = g
    PROVE  LET A == {inode_address(number)} \cup {data_address(b) : b \in T}
           IN  Max(A) - Min(A) < group_size
<1> DEFINE A == {inode_address(number)} \cup {data_address(b) : b \in T}
           base == g * group_size
           all == disk.groups * disk.blocks
           ends == base + group_size
<1>1. /\ disk.groups \in Nat \ {0} /\ disk.blocks \in Nat \ {0} /\ disk.inodes \in Nat \ {0}
      /\ Groups = Below(disk.groups) /\ Groups \subseteq Nat
      /\ group_size = disk.inodes + disk.blocks /\ group_size \in Nat
  BY DiskSizes, GroupsBelow DEF group_size
<1>2. base \in Nat /\ all \in Nat /\ BlockNumbers = Below(all)
  BY <1>1 DEF BlockNumbers
<1>3. /\ number % disk.inodes \in Below(disk.inodes)
      /\ inode_address(number) = (number % disk.inodes) + base
  BY <1>1, PlaceOfNumber DEF Inums, inode_address
<1>4. \A b \in T : /\ b % disk.blocks \in Below(disk.blocks)
                   /\ data_address(b) = (b % disk.blocks) + base + disk.inodes
  <2> SUFFICES ASSUME NEW b \in T
               PROVE  /\ b % disk.blocks \in Below(disk.blocks)
                      /\ data_address(b) = (b % disk.blocks) + base + disk.inodes
    OBVIOUS
  <2>1. data_address(b) = (b % disk.blocks) + base + disk.inodes
    BY DEF data_address
  <2>2. b \in Below(disk.groups * disk.blocks)
    BY DEF BlockNumbers
  <2>3. b % disk.blocks \in Below(disk.blocks)
    BY <1>1, <2>2, PlaceOfNumber
  <2> QED BY <2>1, <2>3
<1> HIDE DEF base, all
<1>5. inode_address(number) \in Nat /\ inode_address(number) >= base /\ inode_address(number) < ends
  <2> DEFINE place == number % disk.inodes
  <2>1. place \in 0 .. disk.inodes - 1 /\ inode_address(number) = place + base
    BY <1>3 DEF Below
  <2> HIDE DEF place
  <2> QED BY <1>1, <1>2, <2>1
<1>6. \A b \in T : data_address(b) \in Nat /\ data_address(b) >= base /\ data_address(b) < ends
  <2> SUFFICES ASSUME NEW b \in T
               PROVE  data_address(b) \in Nat /\ data_address(b) >= base /\ data_address(b) < ends
    OBVIOUS
  <2>1. b % disk.blocks \in 0 .. disk.blocks - 1
    BY <1>4 DEF Below
  <2>2. data_address(b) = (b % disk.blocks) + base + disk.inodes
    BY <1>4
  <2> QED BY <1>1, <1>2, <2>1, <2>2
<1>7. ends \in Nat /\ A \subseteq Below(ends) /\ A # {} /\ \A a \in A : a >= base
  <2>1. ends \in Nat /\ \A a \in Nat : a < ends => a \in Below(ends)
    BY <1>1, <1>2 DEF Below
  <2> HIDE DEF ends
  <2> QED BY <1>5, <1>6, <2>1
<1>8. A \subseteq Nat /\ IsFiniteSet(A)
  <2> HIDE DEF A, ends
  <2>1. IsFiniteSet(A)
    BY <1>7, BelowIsFinite
  <2> QED BY <1>7, <2>1 DEF Below
<1>9. Max(A) \in A /\ Min(A) \in A
  <2> HIDE DEF A
  <2> QED BY <1>7, <1>8, MaxIsGreatest, MinIsLeast
<1>10. Max(A) \in Nat /\ Max(A) < ends /\ Min(A) \in Nat /\ Min(A) >= base
  <2> HIDE DEF A, ends
  <2>1. \A a \in Below(ends) : a \in Nat /\ a < ends
    BY <1>7 DEF Below
  <2> QED BY <1>7, <1>9, <2>1
<1>11. Max(A) - Min(A) < group_size
  <2> HIDE DEF A
  <2> QED BY <1>1, <1>2, <1>10
<1> QED BY <1>11

\* What do_create has entered for a path.
LEMMA NewBlocksAre ==
    ASSUME disk \in Disks, Books, NEW path, NEW size, NEW type, Creates(path, size, type)
    PROVE  /\ disk' = disk /\ Bound' = Bound \cup {path}
           /\ name_to_inode_map'[path] = NewNumber(path, type)
           /\ BlocksOf(path)' = NewBlocks(path, size, type).allocated
           /\ data_bitmap' = NewBlocks(path, size, type).bitmap
           /\ path \in Paths \ {<<>>} /\ size \in Nat /\ type \in {"regular", "directory"}
<1> DEFINE group == NewGroup(path, type)
           index == NewIndex(path, type)
           number == NewNumber(path, type)
           blocks == NewBlocks(path, size, type)
<1>1. Fits(path, type, size, group, index, number, blocks)
  BY DEF Creates
<1>2. Entered(path, type, size, group, index, number, blocks)
  BY DEF Creates
<1> HIDE DEF group, index, number, blocks
<1>3. /\ Bound' = Bound \cup {path} /\ name_to_inode_map'[path] = number
      /\ inodes'[number] = [type |-> type, blocks |-> blocks.allocated]
  BY <1>1, <1>2, NamesEntered DEF Books
<1>4. BlocksOf(path)' = inodes'[number].blocks
  BY <1>3 DEF BlocksOf
<1>5. BlocksOf(path)' = blocks.allocated
  BY <1>3, <1>4
<1>6. disk' = disk /\ data_bitmap' = blocks.bitmap
  BY <1>2 DEF Entered
<1>7. path \in Paths \ {<<>>} /\ size \in Nat /\ type \in {"regular", "directory"}
  BY <1>1 DEF Fits
<1> QED BY <1>3, <1>5, <1>6, <1>7 DEF number, blocks

LEMMA NewFileKept ==
    ASSUME disk \in Disks, Books, NEW path, NEW size, NEW type, Creates(path, size, type)
    PROVE  KeptTogether(path)
<1> DEFINE number == NewNumber(path, type)
           blocks == NewBlocks(path, size, type)
           group == NewGroup(path, type)
<1>1. /\ disk' = disk /\ name_to_inode_map'[path] = number
      /\ BlocksOf(path)' = blocks.allocated
      /\ path \in Paths \ {<<>>} /\ size \in Nat
  BY NewBlocksAre
<1>2. /\ CanCreate(path, size) /\ NewIndex(path, type) # -1 /\ blocks.end = "done"
      /\ blocks \in LoopStates /\ Cardinality(blocks.allocated) = size
  BY DEF Creates, Fits
<1>3. /\ data_bitmap \in [Groups -> [Below(disk.blocks) -> Int]] /\ group \in Groups
      /\ number \in Inums /\ number \in Int /\ number # FREE /\ GroupOf(number) = group
  BY <1>1, <1>2, NewFile
<1>4. blocks.allocated \subseteq BlockNumbers
  BY <1>2 DEF LoopStates
<1>5. /\ get_free_count(data_bitmap[group]) = Cardinality(FreeIn(data_bitmap, disk.blocks, group))
      /\ get_free_count(data_bitmap[group]) \in Nat
  BY <1>3, DiskSizes, FreeCount DEF IsBitmap
<1> SUFFICES ASSUME ~disk.spreadData, disk.contig = 1,
                    get_free_count(data_bitmap[GroupOf(name_to_inode_map'[path])])
                        >= Cardinality(BlocksOf(path)'),
                    disk.large = 0 \/ Cardinality(BlocksOf(path)') <= disk.large
             PROVE  file_span(name_to_inode_map[path])' < group_size
  BY DEF KeptTogether
<1>6. blocks = allocate_blocks(group, size, number)
  BY DEF NewBlocks, NewTarget
<1> HIDE DEF number, blocks, group
<1>7. \A b \in blocks.allocated : b \div disk.blocks = group
  <2>1. /\ Cardinality(FreeIn(data_bitmap, disk.blocks, group)) \in Nat
        /\ Cardinality(FreeIn(data_bitmap, disk.blocks, group)) >= size
        /\ disk.large = 0 \/ size <= disk.large
    BY <1>1, <1>2, <1>3, <1>5
  <2> QED BY <1>1, <1>2, <1>3, <1>6, <2>1, StaysHome
<1> DEFINE T == blocks.allocated
           A == {inode_address(number)} \cup {data_address(b) : b \in T}
<1>8. Max(A) - Min(A) < group_size
  <2> HIDE DEF T
  <2>1. T \subseteq BlockNumbers /\ \A b \in T : b \div disk.blocks = group
    BY <1>4, <1>7 DEF T
  <2> QED BY <1>3, <2>1, SpanOfGroup
<1>9. Addresses(name_to_inode_map[path])' = A
  <2>1. inode_address(name_to_inode_map[path])' = inode_address(number)
    BY <1>1 DEF inode_address, GroupOf, group_size
  <2>2. \A b : data_address(b)' = data_address(b)
    BY <1>1 DEF data_address, group_size
  <2>3. Addresses(name_to_inode_map[path])' =
           {inode_address(name_to_inode_map[path])'} \cup {data_address(b)' : b \in BlocksOf(path)'}
    BY DEF Addresses, BlocksOf
  <2> QED BY <1>1, <2>1, <2>2, <2>3
<1>10. file_span(name_to_inode_map[path])' = Max(A) - Min(A)
  <2> HIDE DEF A
  <2> QED BY <1>9 DEF file_span
<1> QED BY <1>8, <1>10

LEMMA NewFileSpread ==
    ASSUME disk \in Disks, Books, NEW path, NEW size, NEW type, Creates(path, size, type)
    PROVE  SpreadOut(path)'
<1> DEFINE number == NewNumber(path, type)
           blocks == NewBlocks(path, size, type)
           target == NewTarget(path, type)
<1>1. /\ disk' = disk /\ data_bitmap' = blocks.bitmap
      /\ BlocksOf(path)' = blocks.allocated
      /\ path \in Paths \ {<<>>} /\ size \in Nat
  BY NewBlocksAre
<1>2. /\ CanCreate(path, size) /\ NewIndex(path, type) # -1 /\ blocks.end = "done"
      /\ blocks \in LoopStates /\ Marked(blocks, number) /\ Cardinality(blocks.allocated) = size
  BY DEF Creates, Fits
<1>3. /\ data_bitmap \in [Groups -> [Below(disk.blocks) -> Int]]
      /\ number \in Int /\ number # FREE /\ NewGroup(path, type) \in Groups
  BY <1>1, <1>2, NewFile
<1>4. size > 0 => target \in Groups
  <2>1. size > 0 => find_min_data_usage \in Groups
    <3>1. size > 0 => total_data_free > 0
      <4>1. total_data_free \in Int
        BY DataBooks, DiskSizes DEF Books, CountersOK
      <4> QED BY <1>1, <1>2, <4>1 DEF CanCreate
    <3> QED BY <3>1, MinDataUsage DEF Books
  <2> QED BY <1>3, <2>1 DEF NewTarget
<1>5. blocks = allocate_blocks(target, size, number)
  BY DEF NewBlocks
<1> HIDE DEF number, blocks, target
<1>6. Groups' = Groups
  BY <1>1 DEF Groups
<1>7. SpreadOut(path)' =
        \A g, h \in Groups, k \in 1 .. disk.blocks :
            /\ disk.contig = 1 /\ disk.large > 0
            /\ Share(blocks, g) > Rounds(k)
            => \/ Share(blocks, h) >= Rounds(k)
               \/ get_free_count(blocks.bitmap[h]) = 0
  <2>1. \A g : BlocksIn(g, BlocksOf(path))' = BlocksIn(g, blocks.allocated)
    BY <1>1 DEF BlocksIn
  <2>2. \A h : get_free_count(data_bitmap[h])' = get_free_count(blocks.bitmap[h])
    BY <1>1 DEF get_free_count
  <2> QED BY <1>1, <1>6, <2>1, <2>2 DEF SpreadOut, Share, Rounds
<1> SUFFICES ASSUME NEW g \in Groups, NEW h \in Groups, NEW k \in 1 .. disk.blocks,
                    disk.contig = 1, disk.large > 0, Share(blocks, g) > Rounds(k)
             PROVE  Share(blocks, h) >= Rounds(k) \/ get_free_count(blocks.bitmap[h]) = 0
  BY <1>7
<1>8. k \in Nat \ {0}
  OBVIOUS
<1>9. size > 0
  <2> SUFFICES ASSUME size = 0 PROVE FALSE
    BY <1>1
  <2>1. IsFiniteSet(blocks.allocated)
    BY <1>2, <1>3, OneBlockMore
  <2>2. blocks.allocated = {}
    BY <1>2, <2>1, FS_EmptySet
  <2>3. BlocksIn(g, blocks.allocated) = {}
    BY <2>2 DEF BlocksIn
  <2>4. Share(blocks, g) = 0
    BY <2>3, FS_EmptySet DEF Share
  <2>5. Rounds(k) \in Nat
    BY <1>8, RoundsGrow
  <2> QED BY <2>4, <2>5
<1>10. Share(blocks, h) >= Rounds(k) \/ Full(blocks, h)
  <2>1. target \in Groups
    BY <1>4, <1>9
  <2> QED BY <1>1, <1>2, <1>3, <1>5, <1>8, <1>9, <2>1, SpreadsFile
<1>11. Full(blocks, h) => get_free_count(blocks.bitmap[h]) = 0
  <2>1. IsBitmap(blocks.bitmap, disk.blocks) /\ disk.blocks \in Nat \ {0}
    BY <1>2, DiskSizes DEF LoopStates, IsBitmap
  <2> QED BY <2>1, FreeCount DEF Full
<1> QED BY <1>10, <1>11

LEMMA NextPlaces ==
    IInv /\ [Next]_vars =>
        [\A p \in Paths : p \in Bound' \ Bound /\ ~strayed' =>
            KeptTogether(p) /\ SpreadOut(p)']_vars
<1> SUFFICES ASSUME IInv, Next, ~strayed', NEW p \in Bound' \ Bound
             PROVE  KeptTogether(p) /\ SpreadOut(p)'
  OBVIOUS
<1>1. disk \in Disks /\ strayed \in BOOLEAN /\ (~strayed => Books)
  BY DEF IInv
<1>2. ASSUME NEW path \in Paths \ {<<>>}, NEW size \in Nat, NEW type \in {"regular", "directory"},
             do_create(path, size, type)
      PROVE  KeptTogether(p) /\ SpreadOut(p)'
  <2>1. /\ strayed' \in BOOLEAN /\ (strayed => strayed')
        /\ ~strayed' => \/ Gives("parent is a file")
                        \/ Gives("empty file")
                        \/ Gives("symbols") /\ available_symbols = 0
                        \/ Creates(path, size, type)
    BY <1>1, <1>2, CreateDoes
  <2>2. Books
    BY <1>1, <2>1
  <2>3. Creates(path, size, type)
    <3>1. \A why : Gives(why) => Bound' = Bound
      BY <2>2, SameBooks
    <3> QED BY <2>1, <3>1
  <2>4. p = path
    <3>1. Bound' = Bound \cup {path}
      BY <1>1, <2>2, <2>3, NewBlocksAre
    <3> QED BY <3>1
  <2>5. KeptTogether(path)
    BY <1>1, <2>2, <2>3, NewFileKept
  <2>6. SpreadOut(path)'
    BY <1>1, <2>2, <2>3, NewFileSpread
  <2> QED BY <2>4, <2>5, <2>6
<1>3. ASSUME NEW path \in Paths \ {<<>>}, do_delete(path) PROVE FALSE
  <2>1. /\ strayed' \in BOOLEAN /\ (strayed => strayed')
        /\ ~strayed' => Gives("parent is a file") \/ Deletes(path)
    BY <1>1, <1>3, DeleteDoes
  <2>2. Books
    BY <1>1, <2>1
  <2>3. Gives("parent is a file") => Bound' = Bound
    BY <2>2, SameBooks
  <2>4. Deletes(path) => Bound' = Bound \ {path}
    BY <1>1, <2>2, NamesRemoved DEF Deletes, Books
  <2> QED BY <2>1, <2>3, <2>4
<1>4. PICK path \in Paths \ {<<>>} : \/ \E size \in Sizes : create(path, size)
                                     \/ mkdir(path)
                                     \/ delete(path)
  BY DEF Next
<1>5. CASE \E size \in Sizes : create(path, size)
  <2>1. PICK size \in Sizes : do_create(path, size, "regular")
    BY <1>5 DEF create
  <2>2. size \in Nat
    BY FfsAssumption DEF FfsAssumption
  <2> QED BY <1>2, <2>1, <2>2
<1>6. CASE mkdir(path)
  <2>1. do_create(path, 1, "directory") /\ 1 \in Nat
    BY <1>6 DEF mkdir
  <2> QED BY <1>2, <2>1
<1>7. CASE delete(path)
  BY <1>3, <1>7 DEF delete
<1> QED BY <1>4, <1>5, <1>6, <1>7

\* A file that do_create enters lies in the group of its inode when the group has
\* room and -L allows it; with -L every group gets its share before one gets more.
THEOREM FilesAlwaysPlaced == Spec => FilesArePlaced
<1>1. IInv /\ [Next]_vars =>
        [\A p \in Paths : p \in Bound' \ Bound /\ ~strayed' =>
            KeptTogether(p) /\ SpreadOut(p)']_vars
  BY NextPlaces
<1> QED BY <1>1, Invariance, PTL DEF Spec, FilesArePlaced

=============================================================================
