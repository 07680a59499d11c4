----------------------------- MODULE RaidProofs -----------------------------
(***************************************************************************)
(* The mapping of raid.py keeps blocks and parities apart, and its requests*)
(* touch what they should, on arrays of any number of disks and any chunk  *)
(* size.  What the loops of enqueue45 and doPartialWrite build up is       *)
(* followed list by list: places (Once, In), then I/Os (Settles), piece by *)
(* piece of a stripe (Piece) and stripe by stripe (OneMoreStripe).         *)
(***************************************************************************)
EXTENDS Raid, FiniteSetTheorems, SequenceTheorems, WellFoundedInduction, TLAPS

-----------------------------------------------------------------------------
\* What these proofs need to know of numbers and sequences.

\* The definition of \div and %, for a positive divisor.
LEMMA DivModFact ==
    ASSUME NEW a \in Int, NEW d \in Nat \ {0}
    PROVE  a \div d \in Int /\ a % d \in 0 .. d - 1 /\ a = d * (a \div d) + (a % d)
OBVIOUS

\* A larger number of rows is larger by a whole row.
LEMMA MulMonotone ==
    ASSUME NEW d \in Nat \ {0}, NEW x \in Int, NEW y \in Int, x < y
    PROVE  d * x + d <= d * y
OBVIOUS

\* A number has one row and one place in it.
LEMMA SameCell ==
    ASSUME NEW d \in Nat \ {0}, NEW x \in Int, NEW y \in Int,
           NEW r \in 0 .. d - 1, NEW s \in 0 .. d - 1, d * x + r = d * y + s
    PROVE  x = y /\ r = s
<1>1. ~(x < y)
  <2> SUFFICES ASSUME x < y PROVE FALSE
    OBVIOUS
  <2> QED
    BY MulMonotone
<1>2. ~(y < x)
  <2> SUFFICES ASSUME y < x PROVE FALSE
    OBVIOUS
  <2> QED
    BY MulMonotone
<1> QED
  BY <1>1, <1>2

\* The quotient and the remainder are the only ones.
LEMMA DivModUnique ==
    ASSUME NEW a \in Int, NEW d \in Nat \ {0}, NEW q \in Int, NEW r \in 0 .. d - 1,
           a = d * q + r
    PROVE  a \div d = q /\ a % d = r
BY DivModFact, SameCell

\* The quotient and the remainder tell numbers apart.
LEMMA DivModInjective ==
    ASSUME NEW a \in Int, NEW b \in Int, NEW d \in Nat \ {0},
           a \div d = b \div d, a % d = b % d
    PROVE  a = b
BY DivModFact

\* The quotient of a natural number is one.
LEMMA DivNat ==
    ASSUME NEW a \in Nat, NEW d \in Nat \ {0}
    PROVE  a \div d \in Nat
<1>1. a \div d >= 0
  <2> SUFFICES ASSUME a \div d < 0 PROVE FALSE
    BY DivModFact
  <2>1. d * (a \div d) + d <= d * 0
    BY DivModFact, MulMonotone
  <2> QED
    BY <2>1, DivModFact
<1> QED
  BY <1>1, DivModFact

\* A quotient below k is a number below k times the divisor.
LEMMA DivLess ==
    ASSUME NEW a \in Nat, NEW d \in Nat \ {0}, NEW k \in Nat
    PROVE  a \div d < k <=> a < d * k
<1> DEFINE q == a \div d
           r == a % d
<1>1. q \in Nat /\ r \in 0 .. d - 1 /\ a = d * q + r
  <2>1. q \in Nat
    BY DivNat
  <2>2. r \in 0 .. d - 1 /\ a = d * q + r
    BY DivModFact
  <2> QED
    BY <2>1, <2>2
<1> HIDE DEF q, r
<1>2. q < k => d * q + d <= d * k
  BY <1>1, MulMonotone
<1>3. k < q => d * k + d <= d * q
  BY <1>1, MulMonotone
<1>4. q < k <=> a < d * k
  <2>1. d * q \in Int /\ d * k \in Int /\ (k = q => d * k = d * q)
    BY <1>1
  <2>2. CASE q < k
    BY <1>1, <1>2, <2>1, <2>2
  <2>3. CASE k < q
    BY <1>1, <1>3, <2>1, <2>3
  <2>4. CASE k = q
    BY <1>1, <2>1, <2>4
  <2> QED
    BY <1>1, <2>2, <2>3, <2>4
<1> QED
  BY <1>4 DEF q

\* Going at most once around a circle of d places.
LEMMA Wrap ==
    ASSUME NEW d \in Nat \ {0}, NEW x \in -d .. 2 * d - 1
    PROVE  /\ x < 0 => x % d = x + d
           /\ x >= 0 /\ x < d => x % d = x
           /\ x >= d => x % d = x - d
<1>1. CASE x < 0
  BY <1>1, DivModUnique, x = d * (-1) + (x + d)
<1>2. CASE x \in 0 .. d - 1
  BY <1>2, DivModUnique, x = d * 0 + x
<1>3. CASE x >= d
  BY <1>3, DivModUnique, x = d * 1 + (x - d)
<1> QED
  BY <1>1, <1>2, <1>3

\* Dividing twice.
LEMMA DivDiv ==
    ASSUME NEW a \in Nat, NEW c \in Nat \ {0}, NEW n \in Nat \ {0}
    PROVE  n * c \in Nat \ {0} /\ a \div (n * c) = (a \div c) \div n
<1> DEFINE q == a \div c
           s == q \div n
<1>1. /\ q \in Nat /\ a % c \in 0 .. c - 1 /\ a = c * q + (a % c)
      /\ s \in Nat /\ q % n \in 0 .. n - 1 /\ q = n * s + (q % n)
  <2>1. q \in Nat /\ a % c \in 0 .. c - 1 /\ a = c * q + (a % c)
    BY DivModFact, DivNat
  <2> HIDE DEF q
  <2>2. s \in Nat
    BY <2>1, DivNat
  <2>3. q % n \in 0 .. n - 1 /\ q = n * s + (q % n)
    BY <2>1, DivModFact
  <2> QED
    BY <2>1, <2>2, <2>3
<1>2. n * c \in Nat \ {0}
  OBVIOUS
<1>3. a = (n * c) * s + (c * (q % n) + (a % c))
  <2> HIDE DEF s, q
  <2>1. c * q = c * (n * s) + c * (q % n)
    BY <1>1
  <2>2. c * (n * s) = (n * c) * s
    BY <1>1
  <2> QED
    BY <1>1, <2>1, <2>2
<1>4. c * (q % n) + (a % c) \in 0 .. (n * c) - 1
  <2> HIDE DEF s, q
  <2>1. c * (q % n) + c <= c * n
    BY <1>1, MulMonotone
  <2>2. c * (q % n) >= 0
    BY <1>1
  <2>3. c * n = n * c
    OBVIOUS
  <2> QED
    BY <1>1, <2>1, <2>2, <2>3
<1> QED
  BY <1>1, <1>2, <1>3, <1>4, DivModUnique

\* A set of numbers that is not empty has a smallest one.
LEMMA SmallestNumber ==
    ASSUME NEW T, T \subseteq Nat, T # {}
    PROVE  \E x \in T : \A y \in T : x <= y
<1> DEFINE R == {r \in Nat \X Nat : r[1] < r[2]}
<1>1. IsWellFoundedOn(R, Nat)
  BY NatLessThanWellFounded DEF OpToRel
<1>2. PICK x \in T : \A y \in T : ~(<<y, x>> \in R)
  <2> HIDE DEF R
  <2> QED BY <1>1, WFMin
<1>3. ASSUME NEW y \in T PROVE ~(y < x)
  <2> DEFINE r == <<y, x>>
  <2>1. r \in Nat \X Nat
    OBVIOUS
  <2>2. r \notin R
    BY <1>2
  <2> QED BY <2>1, <2>2
<1> QED BY <1>3

\* A set with 0 and the successor of each of its numbers has all numbers.
LEMMA SetInduction ==
    ASSUME NEW P, 0 \in P, \A n \in Nat : n \in P => n + 1 \in P
    PROVE  Nat \subseteq P
<1> DEFINE T == Nat \ P
<1> SUFFICES ASSUME T # {} PROVE FALSE
  OBVIOUS
<1>1. PICK x \in T : \A y \in T : x <= y
  <2> HIDE DEF T
  <2>1. T \subseteq Nat
    BY DEF T
  <2> QED BY <2>1, SmallestNumber
<1>2. x \in Nat /\ x # 0 /\ x - 1 \in Nat /\ (x - 1) + 1 = x
  OBVIOUS
<1>3. x - 1 \notin T
  BY <1>1, <1>2
<1> QED BY <1>2, <1>3

\* Sequences of whatever there is in them.
IsSequence(s) == \E S : s \in Seq(S)

\* Its length and its elements.
LEMMA Sequence ==
    ASSUME NEW s, IsSequence(s)
    PROVE  Len(s) \in Nat /\ DOMAIN s = 1 .. Len(s) /\ \E S : s \in Seq(S) /\ s \in [1 .. Len(s) -> S]
<1>1. PICK S : s \in Seq(S)
  BY DEF IsSequence
<1> QED BY <1>1, LenProperties

\* A sequence over a set is one over a larger set.
LEMMA WiderSeq ==
    ASSUME NEW S, NEW T, S \subseteq T, NEW s \in Seq(S)
    PROVE  s \in Seq(T)
<1>1. s \in [1 .. Len(s) -> S] /\ Len(s) \in Nat
  BY LenProperties
<1>2. s \in [1 .. Len(s) -> T]
  BY <1>1
<1> QED BY <1>1, <1>2

\* Where the elements are of two sequences put one behind the other.
LEMMA Concat ==
    ASSUME NEW s, NEW t, IsSequence(s), IsSequence(t)
    PROVE  /\ IsSequence(s \o t) /\ Len(s) \in Nat /\ Len(t) \in Nat
           /\ Len(s \o t) = Len(s) + Len(t)
           /\ \A i \in 1 .. Len(s) : (s \o t)[i] = s[i]
           /\ \A i \in 1 .. Len(t) : (s \o t)[Len(s) + i] = t[i]
<1>1. PICK S, T : s \in Seq(S) /\ t \in Seq(T)
  BY DEF IsSequence
<1> DEFINE U == S \cup T
<1>2. s \in Seq(U) /\ t \in Seq(U)
  BY <1>1, WiderSeq
<1> HIDE DEF U
<1>3. Len(s) \in Nat /\ Len(t) \in Nat
  BY <1>2, LenProperties
<1>4. /\ s \o t \in Seq(U) /\ Len(s \o t) = Len(s) + Len(t)
      /\ \A i \in 1 .. Len(s) + Len(t) :
            (s \o t)[i] = IF i <= Len(s) THEN s[i] ELSE t[i - Len(s)]
  BY <1>2, ConcatProperties
<1>5. ASSUME NEW i \in 1 .. Len(s) PROVE (s \o t)[i] = s[i]
  <2>1. i \in 1 .. Len(s) + Len(t) /\ i <= Len(s)
    BY <1>3
  <2> QED BY <1>4, <2>1
<1>6. ASSUME NEW i \in 1 .. Len(t) PROVE (s \o t)[Len(s) + i] = t[i]
  <2> DEFINE j == Len(s) + i
  <2>1. j \in 1 .. Len(s) + Len(t) /\ ~(j <= Len(s)) /\ j - Len(s) = i
    BY <1>3
  <2> HIDE DEF j
  <2>2. (s \o t)[j] = t[i]
    BY <1>4, <2>1
  <2> QED BY <2>2 DEF j
<1> QED BY <1>3, <1>4, <1>5, <1>6 DEF IsSequence

\* What is listed is a sequence.
LEMMA ListOf ==
    ASSUME NEW n \in Nat, NEW f, f = [k \in 1 .. n |-> f[k]]
    PROVE  IsSequence(f) /\ Len(f) = n
<1> DEFINE S == {f[k] : k \in 1 .. n}
<1>1. f \in [1 .. n -> S]
  OBVIOUS
<1> HIDE DEF S
<1> QED BY <1>1 DEF IsSequence

\* What is defined from a first value and from each value to the next exists.
StaysIn(S, n, next) == \A k \in 1 .. n, x \in S : next[<<k, x>>] \in S
Computed(S, first, n, next) ==
    \E f \in [0 .. n -> S] : f[0] = first /\ \A k \in 1 .. n : f[k] = next[<<k, f[k - 1]>>]

\* Values from S, when next stays in S.
LEMMA Recursion ==
    ASSUME NEW S, NEW first \in S, NEW n \in Nat, NEW next, StaysIn(S, n, next)
    PROVE  Computed(S, first, n, next)
<1> DEFINE Upto(m, f) == f[0] = first /\ \A k \in 1 .. m : f[k] = next[<<k, f[k - 1]>>]
           P == {m \in Nat : m <= n => \E f \in [0 .. m -> S] : Upto(m, f)}
<1>1. 0 \in P
  <2> DEFINE f == [k \in 0 .. 0 |-> first]
  <2>1. f \in [0 .. 0 -> S] /\ Upto(0, f)
    OBVIOUS
  <2> QED BY <2>1
<1>2. ASSUME NEW m \in Nat, m \in P PROVE m + 1 \in P
  <2> SUFFICES ASSUME m + 1 <= n PROVE \E g \in [0 .. m + 1 -> S] : Upto(m + 1, g)
    OBVIOUS
  <2>1. PICK f \in [0 .. m -> S] : Upto(m, f)
    BY <1>2
  <2> DEFINE g == [k \in 0 .. m + 1 |-> IF k = m + 1 THEN next[<<m + 1, f[m]>>] ELSE f[k]]
  <2>2. next[<<m + 1, f[m]>>] \in S
    BY <2>1 DEF StaysIn
  <2>3. g \in [0 .. m + 1 -> S] /\ g[0] = first
    BY <2>1, <2>2
  <2>4. ASSUME NEW k \in 1 .. m + 1 PROVE g[k] = next[<<k, g[k - 1]>>]
    <3>1. CASE k = m + 1
      <4>1. k - 1 = m /\ m \in 0 .. m + 1 /\ m # m + 1
        BY <3>1
      <4>2. g[k] = next[<<k, f[m]>>] /\ g[k - 1] = f[m]
        BY <3>1, <4>1
      <4> QED BY <4>2
    <3>2. CASE k # m + 1
      <4>1. k \in 1 .. m /\ k - 1 \in 0 .. m + 1 /\ k - 1 # m + 1
        BY <3>2
      <4>2. g[k] = f[k] /\ g[k - 1] = f[k - 1]
        BY <3>2, <4>1
      <4> QED BY <2>1, <4>1, <4>2
    <3> QED BY <3>1, <3>2
  <2> HIDE DEF g
  <2>5. Upto(m + 1, g)
    BY <2>3, <2>4
  <2> QED BY <2>3, <2>5
<1>3. Nat \subseteq P
  <2> HIDE DEF P
  <2> QED BY <1>1, <1>2, SetInduction
<1> QED BY <1>3 DEF Computed

\* Where a block lies when the chunks are dealt out to n disks.
LEMMA CellTypes ==
    ASSUME NEW r, IsArray(r), NEW n \in Nat \ {0}, NEW b \in Nat
    PROVE  /\ cnum(r, b) \in Nat /\ coff(r, b) \in 0 .. r.chunkSize - 1
           /\ cnum(r, b) \div n \in Nat
           /\ StripeDisk(r, n, b) \in 0 .. n - 1 /\ StripeOff(r, n, b) \in Nat
<1> DEFINE q == cnum(r, b)
<1>0. r.chunkSize \in Nat \ {0}
  BY DEF IsArray
<1>1. q \in Nat /\ coff(r, b) \in 0 .. r.chunkSize - 1
  <2>1. b \div r.chunkSize \in Nat
    BY <1>0, DivNat
  <2>2. b % r.chunkSize \in 0 .. r.chunkSize - 1
    BY <1>0, DivModFact
  <2> QED
    BY <2>1, <2>2 DEF cnum, coff
<1>2. q \div n \in Nat /\ StripeDisk(r, n, b) \in 0 .. n - 1
  <2> HIDE DEF q
  <2>1. q \div n \in Nat
    BY <1>1, DivNat
  <2>2. q % n \in 0 .. n - 1
    BY <1>1, DivModFact
  <2> QED
    BY <2>1, <2>2 DEF StripeDisk, q
<1>3. (cnum(r, b) \div n) * r.chunkSize \in Nat
  BY <1>0, <1>2
<1> QED
  BY <1>0, <1>1, <1>2, <1>3 DEF StripeOff

\* Blocks at one offset lie in one row, at one place of their chunks.
LEMMA SameRow ==
    ASSUME NEW r, IsArray(r), NEW n \in Nat \ {0}, NEW b \in Nat, NEW c \in Nat,
           StripeOff(r, n, b) = StripeOff(r, n, c)
    PROVE  cnum(r, b) \div n = cnum(r, c) \div n /\ coff(r, b) = coff(r, c)
<1> DEFINE d == r.chunkSize
           x == cnum(r, b) \div n
           y == cnum(r, c) \div n
           o == coff(r, b)
           p == coff(r, c)
<1>1. d \in Nat \ {0}
  BY DEF IsArray
<1>2. x \in Nat /\ y \in Nat /\ o \in 0 .. d - 1 /\ p \in 0 .. d - 1
  BY CellTypes
<1>3. x * d + o = y * d + p
  BY DEF StripeOff
<1> HIDE DEF d, x, y, o, p
<1>4. x = y /\ o = p
  BY <1>1, <1>2, <1>3, SameCell
<1> QED
  BY <1>4 DEF x, y, o, p

\* No two blocks lie at one place.
LEMMA CellsDiffer ==
    ASSUME NEW r, IsArray(r), NEW n \in Nat \ {0}, NEW b \in Nat, NEW c \in Nat,
           StripeOff(r, n, b) = StripeOff(r, n, c),
           StripeDisk(r, n, b) = StripeDisk(r, n, c)
    PROVE  b = c
<1>1. cnum(r, b) = cnum(r, c)
  BY SameRow, CellTypes, DivModInjective DEF StripeDisk
<1>2. coff(r, b) = coff(r, c)
  BY SameRow
<1> QED
  BY <1>1, <1>2, DivModInjective DEF cnum, coff, IsArray

\* Blocks dealt out to n disks of k chunks each fill them: a block lies on its
\* disk exactly if its number is below the capacity (what main does not test, and
\* the assertion of disk.enqueue then does).
THEOREM BlocksFillTheDisks ==
    ASSUME NEW r, IsArray(r), NEW n \in Nat \ {0}, NEW k \in Nat, NEW b \in Nat
    PROVE  StripeOff(r, n, b) < r.chunkSize * k <=> b < r.chunkSize * (n * k)
<1> DEFINE d == r.chunkSize
           q == cnum(r, b)
           row == q \div n
           o == coff(r, b)
           place == StripeOff(r, n, b)
<1>1. d \in Nat \ {0} /\ q \in Nat /\ row \in Nat /\ o \in 0 .. d - 1 /\ n * k \in Nat
  <2>1. d \in Nat \ {0}
    BY DEF IsArray
  <2>2. n * k \in Nat
    OBVIOUS
  <2> QED
    BY <2>1, <2>2, CellTypes
<1>2. place = row * d + o /\ place \in Nat
  BY CellTypes DEF StripeOff
<1>3. place \div d = row
  <2> HIDE DEF d, row, o, place
  <2>1. place = d * row + o
    BY <1>1, <1>2
  <2> QED
    BY <1>1, <1>2, <2>1, DivModUnique
<1>4. place < d * k <=> row < k
  <2> HIDE DEF d, row, place
  <2> QED
    BY <1>1, <1>2, <1>3, DivLess
<1>5. row < k <=> q < n * k
  <2> HIDE DEF q
  <2> QED
    BY <1>1, DivLess
<1>6. q < n * k <=> b < d * (n * k)
  <2> DEFINE m == n * k
  <2>1. m \in Nat
    BY <1>1
  <2> HIDE DEF m, d
  <2>2. b \div d < m <=> b < d * m
    BY <1>1, <2>1, DivLess
  <2> QED
    BY <2>2 DEF cnum, d, m
<1> QED
  BY <1>4, <1>5, <1>6

-----------------------------------------------------------------------------
\* RAID 4 and 5: the parity's disk is one of the array's, the same for a row.
LEMMA ParityDisk ==
    ASSUME NEW r, IsArray(r), r.level \in {4, 5}, NEW b \in Nat
    PROVE  /\ r.numDisks - 1 \in Nat \ {0}
           /\ ddsk(r, b) \in Nat /\ col(r, b) \in 0 .. r.numDisks - 1
           /\ pdisk(r, b) \in 0 .. r.numDisks - 1
<1>1. r.numDisks - 1 \in Nat \ {0}
  BY DEF IsArray
<1>2. ddsk(r, b) \in Nat
  BY <1>1, CellTypes DEF ddsk
<1>3. col(r, b) \in 0 .. r.numDisks - 1
  <2> DEFINE d == ddsk(r, b)
             n == r.numDisks
  <2>1. d \in Int /\ n \in Nat \ {0}
    BY <1>1, <1>2 DEF IsArray
  <2> HIDE DEF d, n
  <2>2. d % n \in 0 .. n - 1
    BY <2>1, DivModFact
  <2> QED
    BY <2>2 DEF col, d, n
<1> QED
  BY <1>1, <1>2, <1>3 DEF pdisk

\* bmap4, bmap5: no data on the parity's disk, and within a row the disk tells
\* the chunks apart.
LEMMA DataDiskAvoidsParity ==
    ASSUME NEW r, IsArray(r), r.level \in {4, 5}, NEW b \in Nat
    PROVE  DataDisk(r, b) \in (0 .. r.numDisks - 1) \ {pdisk(r, b)}
<1> DEFINE k == StripeDisk(r, r.numDisks - 1, b)
<1>2. r.numDisks \in Nat \ {0} /\ r.numDisks - 1 \in Nat \ {0}
  BY ParityDisk DEF IsArray
<1>1. k \in 0 .. r.numDisks - 2 /\ col(r, b) \in 0 .. r.numDisks - 1
  <2>1. k \in 0 .. (r.numDisks - 1) - 1
    BY <1>2, CellTypes
  <2> QED
    BY <1>2, <2>1, ParityDisk
<1> HIDE DEF k
<1>3. CASE r.level = 4
  BY <1>1, <1>2, <1>3 DEF DataDisk, pdisk, k
<1>4. CASE r.level = 5 /\ r.raid5type = "LS"
  <2> DEFINE N == r.numDisks
             x == k - col(r, b)
  <2>0. N \in Nat \ {0} /\ x \in -N + 1 .. N - 2
    BY <1>1, <1>2
  <2>1. (x < 0 => x % N = x + N) /\ (x >= 0 => x % N = x)
    <3> HIDE DEF N, x
    <3>1. x \in -N .. 2 * N - 1 /\ x < N
      BY <2>0
    <3> QED
      BY <2>0, <3>1, Wrap
  <2>2. DataDisk(r, b) = (k - col(r, b)) % r.numDisks
    BY <1>4 DEF DataDisk, k
  <2>3. pdisk(r, b) = (r.numDisks - 1) - col(r, b)
    BY <1>4 DEF pdisk
  <2> QED
    BY <1>1, <1>2, <2>0, <2>1, <2>2, <2>3
<1>5. CASE r.level = 5 /\ r.raid5type # "LS"
  <2>1. DataDisk(r, b) = IF k >= pdisk(r, b) THEN k + 1 ELSE k
    BY <1>5 DEF DataDisk, k
  <2>2. pdisk(r, b) \in 0 .. r.numDisks - 1
    BY ParityDisk
  <2> QED
    BY <1>1, <1>2, <2>1, <2>2
<1> QED
  BY <1>3, <1>4, <1>5

\* Two blocks of RAID 4 or 5 never lie at one place.
LEMMA DataDisksDiffer ==
    ASSUME NEW r, IsArray(r), r.level \in {4, 5}, NEW b \in Nat, NEW c \in Nat,
           bmap(r, b) = bmap(r, c)
    PROVE  b = c
<1> DEFINE n == r.numDisks - 1
           k == StripeDisk(r, n, b)
           l == StripeDisk(r, n, c)
<1>1. n \in Nat \ {0} /\ r.numDisks \in Nat \ {0} /\ r.numDisks = n + 1
  BY ParityDisk DEF IsArray
<1>2. StripeOff(r, n, b) = StripeOff(r, n, c) /\ DataDisk(r, b) = DataDisk(r, c)
  BY DEF bmap, Place
<1>3. col(r, b) = col(r, c) /\ pdisk(r, b) = pdisk(r, c)
  BY <1>1, <1>2, SameRow DEF col, ddsk, pdisk
<1>4. k \in 0 .. n - 1 /\ l \in 0 .. n - 1 /\ col(r, b) \in 0 .. n
  BY <1>1, CellTypes, ParityDisk
<1>5. k = l
  <2> HIDE DEF k, l, n
  <2>1. CASE r.level = 4
    BY <1>2, <2>1 DEF DataDisk, k, l, n
  <2>2. CASE r.level = 5 /\ r.raid5type = "LS"
    <3> DEFINE N == r.numDisks
               x == k - col(r, b)
               y == l - col(r, b)
    <3>1. DataDisk(r, b) = x % N /\ DataDisk(r, c) = y % N
      BY <1>3, <2>2 DEF DataDisk, k, l, n
    <3>2. /\ N \in Nat \ {0} /\ N = n + 1
          /\ x \in -n .. n - 1 /\ y \in -n .. n - 1 /\ k - l = x - y
      BY <1>1, <1>4
    <3>3. k - l \in -n + 1 .. n - 1
      BY <1>1, <1>4
    <3>4. x = y
      <4> HIDE DEF x, y, N
      <4>1. x \in -N .. 2 * N - 1 /\ y \in -N .. 2 * N - 1 /\ x < N /\ y < N
        BY <1>1, <3>2
      <4>2. (x < 0 => x % N = x + N) /\ (x >= 0 => x % N = x)
        BY <1>1, <3>2, <4>1, Wrap
      <4>3. (y < 0 => y % N = y + N) /\ (y >= 0 => y % N = y)
        BY <1>1, <3>2, <4>1, Wrap
      <4>4. x % N = y % N
        BY <1>2, <3>1
      <4> QED
        BY <1>1, <3>2, <3>3, <4>2, <4>3, <4>4
    <3> QED
      BY <1>4, <3>4
  <2>3. CASE r.level = 5 /\ r.raid5type # "LS"
    <3>1. /\ DataDisk(r, b) = IF k >= pdisk(r, b) THEN k + 1 ELSE k
          /\ DataDisk(r, c) = IF l >= pdisk(r, b) THEN l + 1 ELSE l
      BY <1>3, <2>3 DEF DataDisk, k, l, n
    <3>2. pdisk(r, b) \in Int /\ k \in Int /\ l \in Int
      BY <1>1, <1>4, ParityDisk
    <3>3. (IF k >= pdisk(r, b) THEN k + 1 ELSE k) = (IF l >= pdisk(r, b) THEN l + 1 ELSE l)
      BY <1>2, <3>1
    <3> QED
      BY <3>2, <3>3
  <2> QED
    BY <2>1, <2>2, <2>3
<1> QED
  BY <1>1, <1>2, <1>5, CellsDiffer

\* pmap5 computes the row's parity disk a second time, from the stripe's first
\* block, and finds the one that __bmap5 has left free.
LEMMA ParityOfRow ==
    ASSUME NEW r, IsArray(r), r.level \in {4, 5}, NEW b \in Nat
    PROVE  pmap(r, StripeOf(r, b)) = pdisk(r, b)
<1> DEFINE n == r.numDisks - 1
           C == r.chunkSize
           s == StripeOf(r, b)
<1>1. n \in Nat \ {0} /\ C \in Nat \ {0}
  BY ParityDisk DEF IsArray
<1>2. s = ddsk(r, b) /\ s \in Nat /\ n * C \in Nat \ {0}
  <2>1. n * C \in Nat \ {0} /\ b \div (n * C) = (b \div C) \div n
    <3> HIDE DEF n, C
    <3>1. \A c, m \in Nat \ {0} :
             m * c \in Nat \ {0} /\ b \div (m * c) = (b \div c) \div m
      BY DivDiv
    <3> QED
      BY <1>1, <3>1
  <2> QED
    BY <2>1, ParityDisk DEF StripeOf, blocksInStripe, ddsk, cnum
<1> HIDE DEF s
<1>3. s * (n * C) = C * (n * s) + 0
  <2> HIDE DEF n, C
  <2> QED
    BY <1>1, <1>2
<1>4. (s * (n * C)) \div C = n * s
  <2> HIDE DEF n, C
  <2>1. n * s \in Int /\ s * (n * C) \in Int
    BY <1>1, <1>2
  <2> QED
    BY <1>1, <1>2, <1>3, <2>1, DivModUnique
<1>5. (n * s) \div n = s
  <2> HIDE DEF n, C
  <2>1. n * s \in Int /\ n * s = n * s + 0
    BY <1>1, <1>2
  <2> QED
    BY <1>1, <1>2, <2>1, DivModUnique
<1>6. ddsk(r, s * blocksInStripe(r)) = ddsk(r, b)
  BY <1>2, <1>4, <1>5 DEF ddsk, cnum, blocksInStripe
<1> QED
  BY <1>6 DEF pmap, pdisk, col, s

-----------------------------------------------------------------------------
\* Two blocks never share a place.
LEMMA CopiesDisjoint ==
    ASSUME NEW r, IsArray(r), NEW b \in Nat, NEW c \in Nat, b # c
    PROVE  Copies(r, b) \cap Copies(r, c) = {}
<1>1. CASE r.level = 0
  BY <1>1, CellsDiffer DEF Copies, bmap0, Place, IsArray
<1>2. CASE r.level = 1
  <2> DEFINE n == Pairs(r)
             k == StripeDisk(r, n, b)
             l == StripeDisk(r, n, c)
  <2>1. n \in Nat \ {0}
    BY <1>2 DEF Pairs, IsArray
  <2>2. k \in Nat /\ l \in Nat
    BY <2>1, CellTypes
  <2>3. ~(StripeOff(r, n, b) = StripeOff(r, n, c) /\ k = l)
    BY <2>1, CellsDiffer
  <2>4. /\ Copies(r, b) = {Place(2 * k, StripeOff(r, n, b)), Place(2 * k + 1, StripeOff(r, n, b))}
        /\ Copies(r, c) = {Place(2 * l, StripeOff(r, n, c)), Place(2 * l + 1, StripeOff(r, n, c))}
    BY <1>2 DEF Copies, bmap1
  <2> HIDE DEF k, l, n
  <2> QED
    BY <2>2, <2>3, <2>4 DEF Place
<1>3. CASE r.level \in {4, 5}
  BY <1>3, DataDisksDiffer DEF Copies
<1> QED
  BY <1>1, <1>2, <1>3 DEF IsArray

\* No block lies on a parity.
LEMMA CopiesAvoidParity ==
    ASSUME NEW r, IsArray(r), NEW b \in Nat, NEW c \in Nat
    PROVE  Copies(r, b) \cap ParityOf(r, c) = {}
<1>1. CASE r.level \notin {4, 5}
  BY <1>1 DEF ParityOf
<1>2. CASE r.level \in {4, 5}
  <2> SUFFICES ASSUME bmap(r, b) = Place(pmap(r, StripeOf(r, c)), bmap(r, c).off)
               PROVE  FALSE
    BY <1>2 DEF Copies, ParityOf
  <2>1. /\ DataDisk(r, b) = pdisk(r, c)
        /\ StripeOff(r, r.numDisks - 1, b) = StripeOff(r, r.numDisks - 1, c)
    BY <1>2, ParityOfRow DEF bmap, Place
  <2>2. pdisk(r, b) = pdisk(r, c)
    BY <1>2, <2>1, ParityDisk, SameRow DEF pdisk, col, ddsk
  <2> QED
    BY <1>2, <2>1, <2>2, DataDiskAvoidsParity
<1> QED
  BY <1>1, <1>2

\* The two copies of RAID 1 lie on two disks.
LEMMA CopiesOnTwoDisks ==
    ASSUME NEW r, IsArray(r), r.level = 1, NEW b \in Nat
    PROVE  Cardinality(DisksOf(Copies(r, b))) = 2
<1> DEFINE k == StripeDisk(r, Pairs(r), b)
           o == StripeOff(r, Pairs(r), b)
<1>1. Copies(r, b) = {Place(2 * k, o), Place(2 * k + 1, o)}
  BY DEF Copies, bmap1
<1>2. k \in Nat
  <2> DEFINE n == Pairs(r)
  <2>1. n \in Nat \ {0} /\ k = StripeDisk(r, n, b)
    BY DEF Pairs, IsArray
  <2> HIDE DEF n, k
  <2>2. k \in 0 .. n - 1
    BY <2>1, CellTypes
  <2> QED BY <2>1, <2>2
<1> HIDE DEF k, o
<1>3. DisksOf(Copies(r, b)) = {2 * k, 2 * k + 1}
  BY <1>1 DEF DisksOf, Place
<1>4. 2 * k # 2 * k + 1
  BY <1>2
<1>5. \A x, y : x # y => Cardinality({x, y}) = 2
  <2> SUFFICES ASSUME NEW x, NEW y, x # y PROVE Cardinality({x, y}) = 2
    OBVIOUS
  <2>1. IsFiniteSet({x}) /\ Cardinality({x}) = 1
    BY FS_Singleton
  <2>2. Cardinality({x} \cup {y}) = 1 + 1
    BY <2>1, FS_AddElement
  <2>3. {x, y} = {x} \cup {y}
    OBVIOUS
  <2> QED BY <2>2, <2>3
<1>6. PICK d, e : d # e /\ DisksOf(Copies(r, b)) = {d, e}
  BY <1>3, <1>4
<1> QED BY <1>5, <1>6

\* RAID 4 and 5: a block and its parity lie on two disks, and so do two blocks
\* that enter one parity.
LEMMA RowOnManyDisks ==
    ASSUME NEW r, IsArray(r), r.level \in {4, 5}, NEW b \in Nat, NEW c \in Nat
    PROVE  /\ DisksOf(Copies(r, b)) \cap DisksOf(ParityOf(r, b)) = {}
           /\ b # c /\ ParityOf(r, b) = ParityOf(r, c)
                => DisksOf(Copies(r, b)) \cap DisksOf(Copies(r, c)) = {}
<1>1. \A d, o : DisksOf({Place(d, o)}) = {d}
  BY DEF DisksOf, Place
<1>2. /\ DisksOf(Copies(r, b)) = {DataDisk(r, b)} /\ DisksOf(Copies(r, c)) = {DataDisk(r, c)}
      /\ DisksOf(ParityOf(r, b)) = {pdisk(r, b)}
  <2>1. /\ Copies(r, b) = {Place(DataDisk(r, b), StripeOff(r, r.numDisks - 1, b))}
        /\ Copies(r, c) = {Place(DataDisk(r, c), StripeOff(r, r.numDisks - 1, c))}
        /\ ParityOf(r, b) = {Place(pdisk(r, b), bmap(r, b).off)}
    BY ParityOfRow DEF Copies, ParityOf, bmap
  <2> QED BY <1>1, <2>1
<1>3. DataDisk(r, b) # pdisk(r, b)
  BY DataDiskAvoidsParity
<1>4. ASSUME b # c, ParityOf(r, b) = ParityOf(r, c) PROVE DataDisk(r, b) # DataDisk(r, c)
  <2>1. bmap(r, b).off = bmap(r, c).off
    <3>1. \A d, o : Place(d, o).off = o
      BY DEF Place
    <3>2. PICK d, e : Place(d, bmap(r, b).off) = Place(e, bmap(r, c).off)
      BY <1>4 DEF ParityOf
    <3>3. Place(d, bmap(r, b).off).off = Place(e, bmap(r, c).off).off
      BY <3>2
    <3> QED BY <3>1, <3>3
  <2>2. DataDisk(r, b) = DataDisk(r, c) => bmap(r, b) = bmap(r, c)
    BY <2>1 DEF bmap, Place
  <2> QED BY <1>4, <2>2, DataDisksDiffer
<1> QED BY <1>2, <1>3, <1>4

\* No place of an array is used for two things, and a mirror's copies, or the
\* blocks of a row and their parity, lie on disks of their own, at any level and
\* layout.
THEOREM NoPlaceSharedTwice == Spec => []PlacesAreDistinct
<1>1. Init => array \in Arrays
  BY DEF Init
<1>2. array \in Arrays /\ [Next]_vars => (array \in Arrays)'
  BY DEF Next, Request, vars
<1>3. array \in Arrays => PlacesAreDistinct
  <2> SUFFICES ASSUME array \in Arrays, NEW b \in 0 .. RandRange - 1, NEW c \in 0 .. RandRange - 1
               PROVE  /\ b # c => Copies(array, b) \cap Copies(array, c) = {}
                      /\ Copies(array, b) \cap ParityOf(array, c) = {}
                      /\ array.level = 1 => Cardinality(DisksOf(Copies(array, b))) = 2
                      /\ array.level \in {4, 5} =>
                          /\ DisksOf(Copies(array, b)) \cap DisksOf(ParityOf(array, b)) = {}
                          /\ b # c /\ ParityOf(array, b) = ParityOf(array, c)
                              => DisksOf(Copies(array, b)) \cap DisksOf(Copies(array, c)) = {}
    BY DEF PlacesAreDistinct
  <2>1. IsArray(array) /\ b \in Nat /\ c \in Nat
    BY RaidAssumption
  <2> QED BY <2>1, CopiesDisjoint, CopiesAvoidParity, CopiesOnTwoDisks, RowOnManyDisks
<1> QED
  BY <1>1, <1>2, <1>3, PTL DEF Spec

-----------------------------------------------------------------------------
\* RAID 4 and 5: a stripe is a row of chunks.
LEMMA Stripes ==
    ASSUME NEW r, IsArray(r), r.level \in {4, 5}, NEW b \in Nat
    PROVE  /\ blocksInStripe(r) \in Nat \ {0}
           /\ StripeOf(r, b) \in Nat /\ StripeOf(r, b) = ddsk(r, b)
           /\ \A s \in Nat : StripeOf(r, b) = s <=>
                 b \in s * blocksInStripe(r) .. s * blocksInStripe(r) + blocksInStripe(r) - 1
<1> DEFINE n == r.numDisks - 1
           C == r.chunkSize
           B == blocksInStripe(r)
<1>1. n \in Nat \ {0} /\ C \in Nat \ {0}
  BY ParityDisk DEF IsArray
<1>2. n * C \in Nat \ {0} /\ b \div (n * C) = (b \div C) \div n
  <2> HIDE DEF n, C
  <2>1. \A c, m \in Nat \ {0} :
           m * c \in Nat \ {0} /\ b \div (m * c) = (b \div c) \div m
    BY DivDiv
  <2> QED BY <1>1, <2>1
<1>3. B \in Nat \ {0} /\ StripeOf(r, b) = ddsk(r, b) /\ StripeOf(r, b) = b \div B /\ StripeOf(r, b) \in Nat
  BY <1>2, ParityDisk DEF StripeOf, blocksInStripe, ddsk, cnum
<1>4. ASSUME NEW s \in Nat PROVE b \div B = s <=> b \in s * B .. s * B + B - 1
  <2> HIDE DEF B
  <2>1. b \div B \in Int /\ b % B \in 0 .. B - 1 /\ b = B * (b \div B) + (b % B)
    <3>1. b \in Int /\ B \in Nat \ {0}
      BY <1>3
    <3> QED BY <3>1, DivModFact
  <2>2. ASSUME b \div B = s PROVE b \in s * B .. s * B + B - 1
    <3>1. b = s * B + (b % B)
      BY <1>3, <2>1, <2>2
    <3>2. s * B \in Nat
      BY <1>3
    <3> QED BY <1>3, <2>1, <3>1, <3>2
  <2>3. ASSUME b \in s * B .. s * B + B - 1 PROVE b \div B = s
    <3> DEFINE o == b - s * B
    <3>0. s * B \in Nat
      BY <1>3
    <3>1. o \in 0 .. B - 1 /\ b = s * B + o
      BY <1>3, <2>3, <3>0
    <3> HIDE DEF o
    <3>2. b = B * s + o
      BY <1>3, <3>1
    <3> QED BY <1>3, <3>1, <3>2, DivModUnique
  <2> QED BY <2>2, <2>3
<1> HIDE DEF B
<1> QED BY <1>3, <1>4 DEF B

\* Blocks of one offset are in one stripe.
LEMMA SameStripe ==
    ASSUME NEW r, IsArray(r), r.level \in {4, 5}, NEW b \in Nat, NEW c \in Nat,
           bmap(r, b).off = bmap(r, c).off
    PROVE  StripeOf(r, b) = StripeOf(r, c)
<1>1. r.numDisks - 1 \in Nat \ {0}
  BY ParityDisk
<1>2. StripeOff(r, r.numDisks - 1, b) = StripeOff(r, r.numDisks - 1, c)
  BY DEF bmap, Place
<1>3. cnum(r, b) \div (r.numDisks - 1) = cnum(r, c) \div (r.numDisks - 1)
  BY <1>1, <1>2, SameRow
<1> QED BY <1>3, Stripes DEF ddsk

-----------------------------------------------------------------------------
\* What is in a list.
In(p, list) == \E i \in 1 .. Len(list) : list[i] = p

\* What is in two lists put one behind the other.
LEMMA InBoth ==
    ASSUME NEW s, NEW t, IsSequence(s), IsSequence(t), NEW p
    PROVE  In(p, s \o t) <=> In(p, s) \/ In(p, t)
<1>1. /\ Len(s) \in Nat /\ Len(t) \in Nat /\ Len(s \o t) = Len(s) + Len(t)
      /\ \A i \in 1 .. Len(s) : (s \o t)[i] = s[i]
      /\ \A i \in 1 .. Len(t) : (s \o t)[Len(s) + i] = t[i]
  BY Concat
<1>2. ASSUME In(p, s \o t) PROVE In(p, s) \/ In(p, t)
  <2>1. PICK i \in 1 .. Len(s) + Len(t) : (s \o t)[i] = p
    BY <1>1, <1>2 DEF In
  <2>2. CASE i \in 1 .. Len(s)
    BY <1>1, <2>1, <2>2 DEF In
  <2>3. CASE i \notin 1 .. Len(s)
    <3> DEFINE j == i - Len(s)
    <3>1. j \in 1 .. Len(t) /\ i = Len(s) + j
      BY <1>1, <2>3
    <3> HIDE DEF j
    <3> QED BY <1>1, <2>1, <3>1 DEF In
  <2> QED BY <2>2, <2>3
<1>3. ASSUME In(p, s) PROVE In(p, s \o t)
  <2>1. PICK i \in 1 .. Len(s) : s[i] = p
    BY <1>3 DEF In
  <2>2. i \in 1 .. Len(s \o t)
    BY <1>1
  <2> QED BY <1>1, <2>1, <2>2 DEF In
<1>4. ASSUME In(p, t) PROVE In(p, s \o t)
  <2>1. PICK i \in 1 .. Len(t) : t[i] = p
    BY <1>4 DEF In
  <2>2. Len(s) + i \in 1 .. Len(s \o t)
    BY <1>1
  <2> QED BY <1>1, <2>1, <2>2 DEF In
<1> QED BY <1>2, <1>3, <1>4

\* Whether nothing is in a list twice.
Once(list) == \A i, j \in 1 .. Len(list) : list[i] = list[j] => i = j

\* Two lists that have nothing in common.
LEMMA OnceBoth ==
    ASSUME NEW s, NEW t, IsSequence(s), IsSequence(t), Once(s), Once(t),
           \A p : ~(In(p, s) /\ In(p, t))
    PROVE  Once(s \o t)
<1>1. /\ Len(s) \in Nat /\ Len(t) \in Nat /\ Len(s \o t) = Len(s) + Len(t)
      /\ \A i \in 1 .. Len(s) : (s \o t)[i] = s[i]
      /\ \A i \in 1 .. Len(t) : (s \o t)[Len(s) + i] = t[i]
  BY Concat
<1> DEFINE z == s \o t
<1>2. ASSUME NEW i \in 1 .. Len(z)
      PROVE  \/ i \in 1 .. Len(s) /\ z[i] = s[i] /\ In(z[i], s)
             \/ \E j \in 1 .. Len(t) : i = Len(s) + j /\ z[i] = t[j] /\ In(z[i], t)
  <2>1. CASE i \in 1 .. Len(s)
    BY <1>1, <2>1 DEF In
  <2>2. CASE i \notin 1 .. Len(s)
    <3> DEFINE j == i - Len(s)
    <3>1. j \in 1 .. Len(t) /\ i = Len(s) + j
      BY <1>1, <2>2
    <3> HIDE DEF j, z
    <3>2. z[i] = t[j]
      BY <1>1, <3>1 DEF z
    <3> QED BY <3>1, <3>2 DEF In
  <2> QED BY <2>1, <2>2
<1> HIDE DEF z
<1>3. ASSUME NEW i \in 1 .. Len(z), NEW j \in 1 .. Len(z), z[i] = z[j] PROVE i = j
  <2>1. CASE In(z[i], s)
    <3>1. i \in 1 .. Len(s) /\ z[i] = s[i] /\ j \in 1 .. Len(s) /\ z[j] = s[j]
      BY <1>2, <1>3, <2>1
    <3> QED BY <1>3, <3>1 DEF Once
  <2>2. CASE ~In(z[i], s)
    <3>1. PICK k \in 1 .. Len(t) : i = Len(s) + k /\ z[i] = t[k]
      BY <1>2, <2>2
    <3>2. PICK l \in 1 .. Len(t) : j = Len(s) + l /\ z[j] = t[l]
      BY <1>2, <1>3, <2>2
    <3>3. k = l
      BY <1>3, <3>1, <3>2 DEF Once
    <3> QED BY <3>1, <3>2, <3>3
  <2> QED BY <2>1, <2>2
<1> QED BY <1>3 DEF Once, z

-----------------------------------------------------------------------------
\* range(begin, end)
LEMMA SpanIs ==
    ASSUME NEW begin \in Int, NEW end \in Int, begin <= end
    PROVE  /\ IsSequence(Span(begin, end)) /\ Len(Span(begin, end)) = end - begin
           /\ \A k \in 1 .. end - begin : Span(begin, end)[k] = begin + k - 1
           /\ \A b : In(b, Span(begin, end)) <=> b \in begin .. end - 1
           /\ Once(Span(begin, end))
<1> DEFINE s == Span(begin, end)
<1>1. end - begin \in Nat /\ s = [k \in 1 .. end - begin |-> s[k]]
  BY DEF Span
<1>2. \A k \in 1 .. end - begin : s[k] = begin + k - 1
  BY DEF Span
<1> HIDE DEF s
<1>3. IsSequence(s) /\ Len(s) = end - begin
  BY <1>1, ListOf
<1>4. ASSUME NEW b, In(b, s) PROVE b \in begin .. end - 1
  BY <1>2, <1>3, <1>4 DEF In
<1>5. ASSUME NEW b \in begin .. end - 1 PROVE In(b, s)
  <2> DEFINE k == b - begin + 1
  <2>1. k \in 1 .. end - begin /\ begin + k - 1 = b
    OBVIOUS
  <2> HIDE DEF k
  <2> QED BY <1>2, <1>3, <2>1 DEF In
<1>6. Once(s)
  BY <1>2, <1>3 DEF Once
<1> QED BY <1>2, <1>3, <1>4, <1>5, <1>6 DEF s

\* The places of blocks.
LEMMA DataPlacesAre ==
    ASSUME NEW blocks, IsSequence(blocks)
    PROVE  /\ IsSequence(DataPlaces(blocks)) /\ Len(DataPlaces(blocks)) = Len(blocks)
           /\ \A k \in 1 .. Len(blocks) : DataPlaces(blocks)[k] = bmap(array, blocks[k])
           /\ \A p : In(p, DataPlaces(blocks)) <=> \E b : In(b, blocks) /\ p = bmap(array, b)
<1> DEFINE d == DataPlaces(blocks)
<1>1. Len(blocks) \in Nat /\ DOMAIN blocks = 1 .. Len(blocks)
  BY Sequence
<1>2. d = [k \in 1 .. Len(blocks) |-> d[k]] /\ \A k \in 1 .. Len(blocks) : d[k] = bmap(array, blocks[k])
  BY <1>1 DEF DataPlaces
<1> HIDE DEF d
<1>3. IsSequence(d) /\ Len(d) = Len(blocks)
  BY <1>1, <1>2, ListOf
<1>4. \A p : In(p, d) <=> \E b : In(b, blocks) /\ p = bmap(array, b)
  BY <1>2, <1>3 DEF In
<1> QED BY <1>2, <1>3, <1>4 DEF d


-----------------------------------------------------------------------------
\* offList: what is in it after the first k blocks.
IsOffList(f, blocks) ==
    f = [k \in 0 .. Len(blocks) |->
            IF k = 0 THEN <<>>
            ELSE LET before == f[k - 1]
                     o == bmap(array, blocks[k]).off
                 IN  IF Contains(before, o) THEN before ELSE Append(before, o)]

\* The loop over the blocks comes to its end.
LEMMA OffListExists ==
    ASSUME NEW blocks, IsSequence(blocks)
    PROVE  \E f : IsOffList(f, blocks)
<1> DEFINE T == {bmap(array, blocks[k]).off : k \in 1 .. Len(blocks)}
           Add(before, o) == IF Contains(before, o) THEN before ELSE Append(before, o)
           next == [x \in (1 .. Len(blocks)) \X Seq(T) |-> Add(x[2], bmap(array, blocks[x[1]]).off)]
<1>1. Len(blocks) \in Nat
  BY Sequence
<1>2. \A k \in 1 .. Len(blocks), s \in Seq(T) : next[<<k, s>>] = Add(s, bmap(array, blocks[k]).off)
  OBVIOUS
<1>3. \A k \in 1 .. Len(blocks), s \in Seq(T) : Add(s, bmap(array, blocks[k]).off) \in Seq(T)
  <2> SUFFICES ASSUME NEW k \in 1 .. Len(blocks), NEW s \in Seq(T)
               PROVE  Add(s, bmap(array, blocks[k]).off) \in Seq(T)
    OBVIOUS
  <2>1. bmap(array, blocks[k]).off \in T
    OBVIOUS
  <2> HIDE DEF T
  <2> QED BY <2>1
<1>4. <<>> \in Seq(T)
  OBVIOUS
<1> HIDE DEF T, next
<1>9. \A k \in 1 .. Len(blocks), s \in Seq(T) : next[<<k, s>>] \in Seq(T)
  BY <1>2, <1>3
<1> HIDE DEF Add
<1>5. PICK f \in [0 .. Len(blocks) -> Seq(T)] :
            f[0] = <<>> /\ \A k \in 1 .. Len(blocks) : f[k] = next[<<k, f[k - 1]>>]
  <2>1. StaysIn(Seq(T), Len(blocks), next)
    BY <1>9 DEF StaysIn
  <2>2. Computed(Seq(T), <<>>, Len(blocks), next)
    BY <1>1, <1>4, <2>1, Recursion
  <2> QED BY <2>2 DEF Computed
<1>6. ASSUME NEW k \in 0 .. Len(blocks)
      PROVE  f[k] = IF k = 0 THEN <<>> ELSE Add(f[k - 1], bmap(array, blocks[k]).off)
  <2>1. CASE k = 0
    BY <1>5, <2>1
  <2>2. CASE k # 0
    <3>1. k \in 1 .. Len(blocks) /\ k - 1 \in 0 .. Len(blocks)
      BY <1>1, <2>2
    <3>2. f[k - 1] \in Seq(T) /\ f[k] = next[<<k, f[k - 1]>>]
      BY <1>5, <2>2, <3>1
    <3> QED BY <1>2, <2>2, <3>1, <3>2
  <2> QED BY <2>1, <2>2
<1>7. f = [k \in 0 .. Len(blocks) |-> f[k]]
  BY <1>5
<1>8. IsOffList(f, blocks)
  BY <1>6, <1>7 DEF IsOffList, Add
<1> QED BY <1>8

\* It has the offset of every block, once.
LEMMA OffsetsAre ==
    ASSUME NEW blocks, IsSequence(blocks)
    PROVE  /\ IsSequence(Offsets(blocks)) /\ Once(Offsets(blocks))
           /\ \A o : In(o, Offsets(blocks)) <=> \E b : In(b, blocks) /\ o = bmap(array, b).off
<1> DEFINE f == CHOOSE g : IsOffList(g, blocks)
           n == Len(blocks)
           Right(k, list) == /\ IsSequence(list) /\ Once(list)
                             /\ \A o : In(o, list) <=> \E i \in 1 .. k : o = bmap(array, blocks[i]).off
           P == {k \in Nat : k <= n => Right(k, f[k])}
<1>1. IsOffList(f, blocks)
  BY OffListExists
<1>2. Offsets(blocks) = f[n]
  BY DEF Offsets, IsOffList
<1>3. n \in Nat
  BY Sequence
<1> HIDE DEF f
<1>4. 0 \in P
  <2>1. f[0] = <<>>
    BY <1>1, <1>3 DEF IsOffList
  <2>2. IsSequence(<<>>) /\ Len(<<>>) = 0
    BY DEF IsSequence
  <2>3. Right(0, <<>>)
    BY <2>2 DEF Once, In
  <2> QED BY <2>1, <2>3
<1>5. ASSUME NEW k \in Nat, k \in P PROVE k + 1 \in P
  <2> SUFFICES ASSUME k + 1 <= n PROVE Right(k + 1, f[k + 1])
    OBVIOUS
  <2>1. Right(k, f[k])
    BY <1>3, <1>5
  <2> DEFINE s == f[k]
             here == bmap(array, blocks[k + 1]).off
  <2>2. f[k + 1] = IF Contains(s, here) THEN s ELSE Append(s, here)
    <3>1. k + 1 \in 0 .. n /\ k + 1 # 0 /\ (k + 1) - 1 = k
      BY <1>3
    <3> QED BY <1>1, <3>1 DEF IsOffList
  <2>3. Contains(s, here) <=> In(here, s)
    BY DEF Contains, In
  <2> HIDE DEF s, here, f
  <2>4. \A o : (\E i \in 1 .. k + 1 : o = bmap(array, blocks[i]).off)
                  <=> (\E i \in 1 .. k : o = bmap(array, blocks[i]).off) \/ o = here
    BY <1>3 DEF here
  <2>5. CASE In(here, s)
    BY <2>1, <2>2, <2>3, <2>4, <2>5 DEF s
  <2>6. CASE ~In(here, s)
    <3>1. f[k + 1] = Append(s, here) /\ IsSequence(s) /\ Once(s)
      BY <2>1, <2>2, <2>3, <2>6 DEF s
    <3>2. PICK T : s \in Seq(T)
      BY <3>1 DEF IsSequence
    <3> DEFINE U == T \cup {here}
    <3>3. s \in Seq(U) /\ here \in U
      BY <3>2, WiderSeq
    <3> HIDE DEF U
    <3>4. /\ Append(s, here) \in Seq(U) /\ Len(Append(s, here)) = Len(s) + 1 /\ Len(s) \in Nat
          /\ \A i \in 1 .. Len(s) : Append(s, here)[i] = s[i]
          /\ Append(s, here)[Len(s) + 1] = here
      BY <3>3, AppendProperties, LenProperties
    <3>5. \A o : In(o, Append(s, here)) <=> In(o, s) \/ o = here
      BY <3>4 DEF In
    <3>6. Once(Append(s, here))
      <4> SUFFICES ASSUME NEW i \in 1 .. Len(s) + 1, NEW j \in 1 .. Len(s) + 1,
                          Append(s, here)[i] = Append(s, here)[j]
                   PROVE  i = j
        BY <3>4 DEF Once
      <4>1. CASE i \in 1 .. Len(s) /\ j \in 1 .. Len(s)
        BY <3>1, <3>4, <4>1 DEF Once
      <4>2. CASE i = Len(s) + 1 /\ j \in 1 .. Len(s)
        BY <2>6, <3>4, <4>2 DEF In
      <4>3. CASE i \in 1 .. Len(s) /\ j = Len(s) + 1
        BY <2>6, <3>4, <4>3 DEF In
      <4> QED BY <3>4, <4>1, <4>2, <4>3
    <3>7. IsSequence(Append(s, here))
      BY <3>4 DEF IsSequence
    <3>8. \A o : In(o, s) <=> \E i \in 1 .. k : o = bmap(array, blocks[i]).off
      BY <2>1 DEF s
    <3>9. \A o : In(o, Append(s, here)) <=> \E i \in 1 .. k + 1 : o = bmap(array, blocks[i]).off
      BY <2>4, <3>5, <3>8
    <3> QED BY <3>1, <3>6, <3>7, <3>9
  <2> QED BY <2>5, <2>6
<1>6. Nat \subseteq P
  <2> HIDE DEF P
  <2> QED BY <1>4, <1>5, SetInduction
<1>7. Right(n, f[n])
  BY <1>3, <1>6
<1>8. \A o : (\E i \in 1 .. n : o = bmap(array, blocks[i]).off)
                 <=> \E b : In(b, blocks) /\ o = bmap(array, b).off
  BY DEF In
<1> QED BY <1>2, <1>7, <1>8

\* The parities of a row of blocks.
LEMMA ParityPlacesAre ==
    ASSUME NEW stripe, NEW blocks, IsSequence(blocks)
    PROVE  /\ IsSequence(ParityPlaces(stripe, blocks)) /\ Once(ParityPlaces(stripe, blocks))
           /\ \A p : In(p, ParityPlaces(stripe, blocks)) <=>
                 \E b : In(b, blocks) /\ p = Place(pmap(array, stripe), bmap(array, b).off)
<1> DEFINE o == Offsets(blocks)
           q == ParityPlaces(stripe, blocks)
<1>1. /\ IsSequence(o) /\ Once(o)
      /\ \A x : In(x, o) <=> \E b : In(b, blocks) /\ x = bmap(array, b).off
  BY OffsetsAre
<1>2. Len(o) \in Nat /\ DOMAIN o = 1 .. Len(o)
  BY <1>1, Sequence
<1>3. q = [k \in 1 .. Len(o) |-> q[k]] /\ \A k \in 1 .. Len(o) : q[k] = Place(pmap(array, stripe), o[k])
  <2> HIDE DEF o
  <2>1. q = [k \in DOMAIN o |-> Place(pmap(array, stripe), o[k])]
    BY DEF ParityPlaces, o
  <2> QED BY <1>2, <2>1
<1> HIDE DEF o, q
<1>4. IsSequence(q) /\ Len(q) = Len(o)
  BY <1>2, <1>3, ListOf
<1>5. \A p : In(p, q) <=> \E x : In(x, o) /\ p = Place(pmap(array, stripe), x)
  BY <1>3, <1>4 DEF In
<1>6. Once(q)
  BY <1>1, <1>3, <1>4 DEF Once, Place
<1> QED BY <1>1, <1>4, <1>5, <1>6 DEF q

\* I/Os of a list of places.
LEMMA ReadWrite ==
    /\ \A p, q : (Read(p) = Read(q) => p = q) /\ (Write(p) = Write(q) => p = q) /\ Read(p) # Write(q)
    /\ \A p : Read(p).place = p /\ Write(p).place = p /\ Read(p).isWrite = FALSE /\ Write(p).isWrite = TRUE
BY DEF Read, Write

\* One read per place.
LEMMA ReadsAre ==
    ASSUME NEW places, IsSequence(places)
    PROVE  /\ IsSequence(Reads(places)) /\ Len(Reads(places)) = Len(places)
           /\ \A k \in 1 .. Len(places) : Reads(places)[k] = Read(places[k])
<1> DEFINE d == Reads(places)
<1>1. Len(places) \in Nat /\ DOMAIN places = 1 .. Len(places)
  BY Sequence
<1>2. d = [k \in 1 .. Len(places) |-> d[k]] /\ \A k \in 1 .. Len(places) : d[k] = Read(places[k])
  BY <1>1 DEF Reads
<1> HIDE DEF d
<1>3. IsSequence(d) /\ Len(d) = Len(places)
  BY <1>1, <1>2, ListOf
<1> QED BY <1>2, <1>3 DEF d

\* One write per place.
LEMMA WritesAre ==
    ASSUME NEW places, IsSequence(places)
    PROVE  /\ IsSequence(Writes(places)) /\ Len(Writes(places)) = Len(places)
           /\ \A k \in 1 .. Len(places) : Writes(places)[k] = Write(places[k])
<1> DEFINE d == Writes(places)
<1>1. Len(places) \in Nat /\ DOMAIN places = 1 .. Len(places)
  BY Sequence
<1>2. d = [k \in 1 .. Len(places) |-> d[k]] /\ \A k \in 1 .. Len(places) : d[k] = Write(places[k])
  BY <1>1 DEF Writes
<1> HIDE DEF d
<1>3. IsSequence(d) /\ Len(d) = Len(places)
  BY <1>1, <1>2, ListOf
<1> QED BY <1>2, <1>3 DEF d


-----------------------------------------------------------------------------
\* RAID 4 and 5: what a list of I/Os does for some of the blocks asked for.
Parity == IsArray(array) /\ array.level \in {4, 5}

\* A place in the rows of the stripes that the blocks lie in.
Near(p, blocks) ==
    \E b \in blocks, c \in Nat : StripeOf(array, c) = StripeOf(array, b) /\ p.off = bmap(array, c).off

\* A place that a write of the blocks changes.
Changed(p, blocks) == \E b \in blocks : p \in Copies(array, b) \cup ParityOf(array, b)

ReadAt(x, p, j) == \E i \in 1 .. Len(x) : i < j /\ x[i] = Read(p)

Computable(x, j, b, asked) ==
    \/ \A c \in RowOf(b) \ asked : \A q \in Copies(array, c) : ReadAt(x, q, j)
    \/ /\ \A q \in ParityOf(array, b) : ReadAt(x, q, j)
       /\ \A c \in RowOf(b) \cap asked : \A q \in Copies(array, c) : ReadAt(x, q, j)

Settles(x, blocks, asked) ==
    /\ IsSequence(x)
    /\ \A j \in 1 .. Len(x) : \E p : x[j] \in {Read(p), Write(p)} /\ Near(p, blocks)
    /\ \A p : In(Write(p), x) <=> Changed(p, blocks)
    /\ \A i, j \in 1 .. Len(x) : \A p : x[i] = Write(p) /\ x[j] = Write(p) => i = j
    /\ \A b \in blocks, j \in 1 .. Len(x) : \A p \in ParityOf(array, b) :
          x[j] = Write(p) => Computable(x, j, b, asked)

\* A block of RAID 4 or 5 has one place, and its parity lies at the same offset.
LEMMA ChangedAre ==
    ASSUME Parity, NEW b \in Nat
    PROVE  /\ Copies(array, b) = {bmap(array, b)}
           /\ ParityOf(array, b) = {Place(pmap(array, StripeOf(array, b)), bmap(array, b).off)}
           /\ \A p \in Copies(array, b) \cup ParityOf(array, b) : p.off = bmap(array, b).off
BY DEF Parity, Copies, ParityOf, Place

\* What a write changes lies in the rows of its blocks.
LEMMA ChangedNear ==
    ASSUME Parity, NEW blocks \in SUBSET Nat, NEW p, Changed(p, blocks)
    PROVE  Near(p, blocks)
<1>1. PICK b \in blocks : p \in Copies(array, b) \cup ParityOf(array, b)
  BY DEF Changed
<1> QED BY <1>1, ChangedAre DEF Near

\* Blocks of different stripes have no rows in common.
Apart(P, Q) == \A b \in P, c \in Q : StripeOf(array, b) # StripeOf(array, c)

\* No place lies in the rows of two stripes.
LEMMA NotBoth ==
    ASSUME Parity, NEW P \in SUBSET Nat, NEW Q \in SUBSET Nat, Apart(P, Q), NEW p, Near(p, P), Near(p, Q)
    PROVE  FALSE
<1>1. PICK b \in P, c \in Nat : StripeOf(array, c) = StripeOf(array, b) /\ p.off = bmap(array, c).off
  BY DEF Near
<1>2. PICK d \in Q, e \in Nat : StripeOf(array, e) = StripeOf(array, d) /\ p.off = bmap(array, e).off
  BY DEF Near
<1>3. StripeOf(array, c) = StripeOf(array, e)
  BY <1>1, <1>2, SameStripe DEF Parity
<1> QED BY <1>1, <1>2, <1>3 DEF Apart

\* Two lists, for blocks of different stripes.
LEMMA Joined ==
    ASSUME Parity, NEW P \in SUBSET Nat, NEW Q \in SUBSET Nat, Apart(P, Q), NEW asked,
           NEW x, NEW y, Settles(x, P, asked), Settles(y, Q, asked), NEW R, R = P \cup Q
    PROVE  Settles(x \o y, R, asked)
<1> DEFINE z == x \o y
           m == Len(x)
<1>1. IsSequence(x) /\ IsSequence(y)
  BY DEF Settles
<1>2. /\ IsSequence(z) /\ m \in Nat /\ Len(y) \in Nat /\ Len(z) = m + Len(y)
      /\ \A i \in 1 .. m : z[i] = x[i]
      /\ \A i \in 1 .. Len(y) : z[m + i] = y[i]
  BY <1>1, Concat
<1>3. \A p : In(p, z) <=> In(p, x) \/ In(p, y)
  BY <1>1, InBoth
<1> HIDE DEF z, m
<1>4. ASSUME NEW j \in 1 .. Len(z)
      PROVE  \/ j \in 1 .. m /\ z[j] = x[j]
             \/ \E k \in 1 .. Len(y) : j = m + k /\ z[j] = y[k]
  <2>1. CASE j \in 1 .. m
    BY <1>2, <2>1
  <2>2. CASE j \notin 1 .. m
    <3> DEFINE k == j - m
    <3>1. k \in 1 .. Len(y) /\ j = m + k
      BY <1>2, <2>2
    <3> HIDE DEF k
    <3> QED BY <1>2, <3>1
  <2> QED BY <2>1, <2>2
<1>5. \A p : (Near(p, P) => Near(p, R)) /\ (Near(p, Q) => Near(p, R))
  BY DEF Near
<1>6. \A p : Changed(p, R) <=> Changed(p, P) \/ Changed(p, Q)
  BY DEF Changed
<1>7. ASSUME NEW j \in 1 .. m, NEW p, x[j] = Write(p) PROVE Near(p, P)
  <2>1. In(Write(p), x)
    BY <1>7 DEF In, m
  <2> QED BY <2>1, ChangedNear DEF Settles
<1>8. ASSUME NEW j \in 1 .. Len(y), NEW p, y[j] = Write(p) PROVE Near(p, Q)
  <2>1. In(Write(p), y)
    BY <1>8 DEF In
  <2> QED BY <2>1, ChangedNear DEF Settles
<1>9. ASSUME NEW j \in 1 .. Len(z) PROVE \E p : z[j] \in {Read(p), Write(p)} /\ Near(p, R)
  <2>1. CASE j \in 1 .. m /\ z[j] = x[j]
    <3>1. \A i \in 1 .. Len(x) : \E p : x[i] \in {Read(p), Write(p)} /\ Near(p, P)
      BY DEF Settles
    <3>2. PICK p : x[j] \in {Read(p), Write(p)} /\ Near(p, P)
      BY <2>1, <3>1 DEF m
    <3>3. z[j] \in {Read(p), Write(p)} /\ Near(p, R)
      BY <1>5, <2>1, <3>2
    <3> QED BY <3>3
  <2>2. CASE \E k \in 1 .. Len(y) : j = m + k /\ z[j] = y[k]
    <3>1. \A i \in 1 .. Len(y) : \E p : y[i] \in {Read(p), Write(p)} /\ Near(p, Q)
      BY DEF Settles
    <3>2. PICK k \in 1 .. Len(y) : z[j] = y[k]
      BY <2>2
    <3>3. PICK p : y[k] \in {Read(p), Write(p)} /\ Near(p, Q)
      BY <3>1
    <3>4. z[j] \in {Read(p), Write(p)} /\ Near(p, R)
      BY <1>5, <3>2, <3>3
    <3> QED BY <3>4
  <2> QED BY <1>4, <2>1, <2>2
<1>10. ASSUME NEW p PROVE In(Write(p), z) <=> Changed(p, R)
  BY <1>3, <1>6 DEF Settles
<1>11. ASSUME NEW i \in 1 .. Len(z), NEW j \in 1 .. Len(z), NEW p, z[i] = Write(p), z[j] = Write(p)
       PROVE  i = j
  <2>1. CASE i \in 1 .. m /\ z[i] = x[i]
    <3>1. Near(p, P)
      BY <1>7, <1>11, <2>1
    <3>2. j \in 1 .. m /\ z[j] = x[j]
      BY <1>4, <1>8, <1>11, <3>1, NotBoth
    <3>3. x[i] = Write(p) /\ x[j] = Write(p) /\ i \in 1 .. Len(x) /\ j \in 1 .. Len(x)
      BY <1>11, <2>1, <3>2 DEF m
    <3> QED BY <3>3 DEF Settles
  <2>2. CASE \E k \in 1 .. Len(y) : i = m + k /\ z[i] = y[k]
    <3>1. PICK k \in 1 .. Len(y) : i = m + k /\ z[i] = y[k]
      BY <2>2
    <3>2. Near(p, Q)
      BY <1>8, <1>11, <3>1
    <3>3. PICK l \in 1 .. Len(y) : j = m + l /\ z[j] = y[l]
      BY <1>4, <1>7, <1>11, <3>2, NotBoth
    <3>4. k = l
      BY <1>11, <3>1, <3>3 DEF Settles
    <3> QED BY <3>1, <3>3, <3>4
  <2> QED BY <1>4, <2>1, <2>2
<1>12. ASSUME NEW b \in R, NEW j \in 1 .. Len(z), NEW p \in ParityOf(array, b), z[j] = Write(p)
       PROVE  Computable(z, j, b, asked)
  <2>1. (b \in P => Near(p, P)) /\ (b \in Q => Near(p, Q)) /\ (b \in P \/ b \in Q)
    <3>1. (b \in P => Changed(p, P)) /\ (b \in Q => Changed(p, Q)) /\ (b \in P \/ b \in Q)
      BY DEF Changed
    <3> QED BY <3>1, ChangedNear
  <2>2. CASE j \in 1 .. m /\ z[j] = x[j]
    <3>1. b \in P
      BY <1>7, <1>12, <2>1, <2>2, NotBoth
    <3>2. Computable(x, j, b, asked)
      BY <1>12, <2>2, <3>1 DEF Settles, m
    <3>3. ASSUME NEW q, ReadAt(x, q, j) PROVE ReadAt(z, q, j)
      <4>1. PICK i \in 1 .. m : i < j /\ x[i] = Read(q)
        BY <3>3 DEF ReadAt, m
      <4>2. i \in 1 .. Len(z) /\ z[i] = Read(q)
        BY <1>2, <4>1
      <4> QED BY <4>1, <4>2 DEF ReadAt
    <3> QED BY <3>2, <3>3 DEF Computable
  <2>3. CASE \E k \in 1 .. Len(y) : j = m + k /\ z[j] = y[k]
    <3>1. PICK k \in 1 .. Len(y) : j = m + k /\ z[j] = y[k]
      BY <2>3
    <3>2. b \in Q
      BY <1>8, <1>12, <2>1, <3>1, NotBoth
    <3>3. Computable(y, k, b, asked)
      BY <1>12, <3>1, <3>2 DEF Settles
    <3>4. ASSUME NEW q, ReadAt(y, q, k) PROVE ReadAt(z, q, j)
      <4>1. PICK i \in 1 .. Len(y) : i < k /\ y[i] = Read(q)
        BY <3>4 DEF ReadAt
      <4>2. m + i \in 1 .. Len(z) /\ z[m + i] = Read(q) /\ m + i < j
        BY <1>2, <3>1, <4>1
      <4> QED BY <4>2 DEF ReadAt
    <3> QED BY <3>3, <3>4 DEF Computable
  <2> QED BY <1>4, <2>2, <2>3
<1>13. /\ IsSequence(z)
       /\ \A j \in 1 .. Len(z) : \E p : z[j] \in {Read(p), Write(p)} /\ Near(p, R)
       /\ \A p : In(Write(p), z) <=> Changed(p, R)
       /\ \A i, j \in 1 .. Len(z) : \A p : z[i] = Write(p) /\ z[j] = Write(p) => i = j
       /\ \A b \in R, j \in 1 .. Len(z) : \A p \in ParityOf(array, b) :
             z[j] = Write(p) => Computable(z, j, b, asked)
  BY <1>2, <1>9, <1>10, <1>11, <1>12
<1>14. Settles(z, R, asked)
  BY ONLY <1>13 DEF Settles
<1> QED BY <1>14 DEF z


-----------------------------------------------------------------------------
\* The reads before a write of a piece: what the parity can be computed from.
Suffices(R, b, asked) ==
    \/ \A c \in RowOf(b) \ asked : \A q \in Copies(array, c) : In(q, R)
    \/ /\ \A q \in ParityOf(array, b) : In(q, R)
       /\ \A c \in RowOf(b) \cap asked : \A q \in Copies(array, c) : In(q, R)

\* A list of reads of what suffices, and then of the writes.
LEMMA ReadThenWrite ==
    ASSUME Parity, NEW blocks \in SUBSET Nat, NEW asked, NEW R, IsSequence(R), NEW W, IsSequence(W),
           \A p : In(p, R) => Near(p, blocks), \A p : In(p, W) <=> Changed(p, blocks), Once(W),
           \A b \in blocks : Suffices(R, b, asked)
    PROVE  Settles(Reads(R) \o Writes(W), blocks, asked)
<1> DEFINE x == Reads(R)
           y == Writes(W)
           z == x \o y
           m == Len(R)
           n == Len(W)
<1>1. /\ IsSequence(x) /\ Len(x) = m /\ \A k \in 1 .. m : x[k] = Read(R[k])
      /\ IsSequence(y) /\ Len(y) = n /\ \A k \in 1 .. n : y[k] = Write(W[k])
  BY ReadsAre, WritesAre
<1> HIDE DEF x, y
<1>2. /\ IsSequence(z) /\ Len(x) \in Nat /\ Len(y) \in Nat /\ Len(z) = Len(x) + Len(y)
      /\ \A i \in 1 .. Len(x) : z[i] = x[i]
      /\ \A i \in 1 .. Len(y) : z[Len(x) + i] = y[i]
  BY <1>1, Concat
<1> HIDE DEF z
<1>3. /\ m \in Nat /\ n \in Nat /\ Len(z) = m + n
      /\ \A i \in 1 .. m : z[i] = Read(R[i])
      /\ \A i \in 1 .. n : z[m + i] = Write(W[i])
  BY <1>1, <1>2
<1> HIDE DEF m, n
<1>4. ASSUME NEW j \in 1 .. Len(z)
      PROVE  \/ j \in 1 .. m /\ z[j] = Read(R[j]) /\ In(R[j], R)
             \/ \E k \in 1 .. n : j = m + k /\ z[j] = Write(W[k]) /\ In(W[k], W)
  <2>1. CASE j \in 1 .. m
    BY <1>3, <2>1 DEF In, m
  <2>2. CASE j \notin 1 .. m
    <3> DEFINE k == j - m
    <3>1. k \in 1 .. n /\ j = m + k
      BY <1>3, <2>2
    <3> HIDE DEF k
    <3> QED BY <1>3, <3>1 DEF In, n
  <2> QED BY <2>1, <2>2
<1>5. ASSUME NEW j \in 1 .. Len(z), NEW p, z[j] = Write(p)
      PROVE  \E k \in 1 .. n : j = m + k /\ W[k] = p /\ In(p, W)
  BY <1>4, <1>5, ReadWrite
<1>6. ASSUME NEW j \in 1 .. Len(z) PROVE \E p : z[j] \in {Read(p), Write(p)} /\ Near(p, blocks)
  <2>1. CASE j \in 1 .. m /\ z[j] = Read(R[j]) /\ In(R[j], R)
    <3>1. z[j] \in {Read(R[j]), Write(R[j])} /\ Near(R[j], blocks)
      BY <2>1
    <3> QED BY <3>1
  <2>2. CASE \E k \in 1 .. n : j = m + k /\ z[j] = Write(W[k]) /\ In(W[k], W)
    <3>1. PICK k \in 1 .. n : z[j] = Write(W[k]) /\ In(W[k], W)
      BY <2>2
    <3>2. z[j] \in {Read(W[k]), Write(W[k])} /\ Near(W[k], blocks)
      BY <3>1, ChangedNear
    <3> QED BY <3>2
  <2> QED BY <1>4, <2>1, <2>2
<1>7. ASSUME NEW p PROVE In(Write(p), z) <=> Changed(p, blocks)
  <2>1. ASSUME In(Write(p), z) PROVE In(p, W)
    <3>1. PICK j \in 1 .. Len(z) : z[j] = Write(p)
      BY <2>1 DEF In
    <3> QED BY <1>5, <3>1
  <2>2. ASSUME In(p, W) PROVE In(Write(p), z)
    <3>1. PICK k \in 1 .. n : W[k] = p
      BY <2>2 DEF In, n
    <3>2. m + k \in 1 .. Len(z) /\ z[m + k] = Write(p)
      BY <1>3, <3>1
    <3> QED BY <3>2 DEF In
  <2> QED BY <2>1, <2>2
<1>8. ASSUME NEW i \in 1 .. Len(z), NEW j \in 1 .. Len(z), NEW p, z[i] = Write(p), z[j] = Write(p)
      PROVE  i = j
  <2>1. PICK k \in 1 .. n : i = m + k /\ W[k] = p
    BY <1>5, <1>8
  <2>2. PICK l \in 1 .. n : j = m + l /\ W[l] = p
    BY <1>5, <1>8
  <2>3. k = l
    BY <2>1, <2>2 DEF Once, n
  <2> QED BY <2>1, <2>2, <2>3
<1>9. ASSUME NEW b \in blocks, NEW j \in 1 .. Len(z), NEW p \in ParityOf(array, b), z[j] = Write(p)
      PROVE  Computable(z, j, b, asked)
  <2>1. PICK k \in 1 .. n : j = m + k
    BY <1>5, <1>9
  <2>2. ASSUME NEW q, In(q, R) PROVE ReadAt(z, q, j)
    <3>1. PICK i \in 1 .. m : R[i] = q
      BY <2>2 DEF In, m
    <3>2. i \in 1 .. Len(z) /\ i < j /\ z[i] = Read(q)
      BY <1>3, <2>1, <3>1
    <3> QED BY <3>2 DEF ReadAt
  <2>3. Suffices(R, b, asked)
    OBVIOUS
  <2> QED BY <2>2, <2>3 DEF Suffices, Computable
<1> QED BY <1>2, <1>6, <1>7, <1>8, <1>9 DEF Settles, z, x, y

\* doPartialWrite, for blocks begin .. end - 1 of a stripe when no other ones of
\* the stripe are asked for.
LEMMA Piece ==
    ASSUME Parity, NEW s \in Nat, NEW begin \in Nat, NEW end \in Nat,
           NEW B, B = blocksInStripe(array),
           s * B <= begin, begin <= end, end <= s * B + B,
           NEW asked, \A c \in s * B .. s * B + B - 1 : c \in asked <=> c \in begin .. end - 1,
           NEW blocks, blocks = begin .. end - 1
    PROVE  Settles(doPartialWrite(s, begin, end), blocks, asked)
<1> DEFINE first == s * B
           last  == s * B + B
           D == DataPlaces(Span(begin, end))
           PP == ParityPlaces(s, Span(begin, end))
           W == D \o PP
           R == ReadsForParity(s, begin, end)
<1>1. /\ IsArray(array) /\ array.level \in {4, 5} /\ B \in Nat \ {0} /\ first \in Nat /\ last \in Nat
      /\ \A c \in Nat : StripeOf(array, c) = s <=> c \in first .. last - 1
  <2>1. IsArray(array) /\ array.level \in {4, 5} /\ B \in Nat \ {0}
    BY Stripes DEF Parity
  <2>2. s * B \in Nat
    BY <2>1
  <2>3. \A c \in Nat : StripeOf(array, c) = s <=> c \in s * B .. s * B + B - 1
    BY <2>1, Stripes
  <2> QED BY <2>1, <2>2, <2>3
<1>2. /\ first <= begin /\ begin <= end /\ end <= last /\ last = first + B
      /\ \A c \in first .. last - 1 : c \in asked <=> c \in begin .. end - 1
  <2>1. /\ first <= begin /\ begin <= end /\ end <= last /\ last = first + B
        /\ first .. last - 1 = s * B .. s * B + B - 1
    BY <1>1
  <2> QED BY <2>1, Zenon
<1> HIDE DEF first, last
<1>3. /\ blocks \in SUBSET Nat
      /\ \A c \in blocks : c \in Nat /\ c \in first .. last - 1 /\ StripeOf(array, c) = s
  <2> SUFFICES ASSUME NEW c \in blocks
               PROVE  c \in Nat /\ c \in first .. last - 1 /\ StripeOf(array, c) = s
    OBVIOUS
  <2>1. first \in Nat /\ last \in Nat /\ first <= begin /\ end <= last
    BY <1>1, <1>2
  <2>2. c \in Nat /\ c \in first .. last - 1
    BY <2>1
  <2> QED BY <1>1, <2>2
<1>4. ASSUME NEW i \in Int, NEW j \in Int, i <= j
      PROVE  IsSequence(DataPlaces(Span(i, j)))
             /\ \A p : In(p, DataPlaces(Span(i, j))) <=> \E c \in i .. j - 1 : p = bmap(array, c)
  <2>1. IsSequence(Span(i, j)) /\ \A c : In(c, Span(i, j)) <=> c \in i .. j - 1
    BY <1>4, SpanIs
  <2>2. /\ IsSequence(DataPlaces(Span(i, j)))
        /\ \A p : In(p, DataPlaces(Span(i, j))) <=> \E c : In(c, Span(i, j)) /\ p = bmap(array, c)
    BY <2>1, DataPlacesAre
  <2> QED BY <2>1, <2>2
<1>5. IsSequence(D) /\ \A p : In(p, D) <=> \E c \in blocks : p = bmap(array, c)
  BY <1>4
<1>6. /\ IsSequence(PP) /\ Once(PP)
      /\ \A p : In(p, PP) <=> \E c \in blocks : p = Place(pmap(array, s), bmap(array, c).off)
  <2>1. IsSequence(Span(begin, end)) /\ \A c : In(c, Span(begin, end)) <=> c \in begin .. end - 1
    BY SpanIs
  <2> QED BY <2>1, ParityPlacesAre
<1>7. Once(D)
  <2>1. /\ IsSequence(Span(begin, end)) /\ Once(Span(begin, end))
        /\ \A c : In(c, Span(begin, end)) <=> c \in begin .. end - 1
    BY SpanIs
  <2> DEFINE sp == Span(begin, end)
  <2> HIDE DEF sp
  <2>2. /\ Len(DataPlaces(sp)) = Len(sp)
        /\ \A k \in 1 .. Len(sp) : DataPlaces(sp)[k] = bmap(array, sp[k])
    BY <2>1, DataPlacesAre DEF sp
  <2>3. \A k \in 1 .. Len(sp) : sp[k] \in Nat
    BY <1>3, <2>1 DEF In, sp
  <2>4. Once(DataPlaces(sp))
    <3> SUFFICES ASSUME NEW i \in 1 .. Len(sp), NEW j \in 1 .. Len(sp), bmap(array, sp[i]) = bmap(array, sp[j])
                 PROVE  i = j
      BY <2>2 DEF Once
    <3>1. sp[i] \in Nat /\ sp[j] \in Nat
      BY <2>3
    <3>2. sp[i] = sp[j]
      BY <1>1, <3>1, DataDisksDiffer
    <3>3. Once(sp)
      BY <2>1 DEF sp
    <3> QED BY <3>2, <3>3 DEF Once
  <2> QED BY <2>4 DEF sp
<1>8. ASSUME NEW c \in blocks
      PROVE  /\ Copies(array, c) = {bmap(array, c)}
             /\ ParityOf(array, c) = {Place(pmap(array, s), bmap(array, c).off)}
  BY <1>3, ChangedAre
<1>9. ASSUME NEW p PROVE ~(In(p, D) /\ In(p, PP))
  <2> SUFFICES ASSUME In(p, D), In(p, PP) PROVE FALSE
    OBVIOUS
  <2>1. PICK c \in blocks : p = bmap(array, c)
    BY <1>5
  <2>2. PICK d \in blocks : p = Place(pmap(array, s), bmap(array, d).off)
    BY <1>6
  <2>3. p \in Copies(array, c) /\ p \in ParityOf(array, d)
    BY <1>8, <2>1, <2>2
  <2>4. Copies(array, c) \cap ParityOf(array, d) = {}
    BY <1>1, <1>3, CopiesAvoidParity
  <2> QED BY <2>3, <2>4
<1> HIDE DEF D, PP
<1>10. /\ IsSequence(W) /\ Once(W)
       /\ \A p : In(p, W) <=> In(p, D) \/ In(p, PP)
  BY <1>5, <1>6, <1>7, <1>9, Concat, OnceBoth, InBoth
<1> HIDE DEF W
<1>11. ASSUME NEW p PROVE In(p, W) <=> Changed(p, blocks)
  BY <1>5, <1>6, <1>8, <1>10 DEF Changed
<1>12. ASSUME NEW b \in blocks PROVE RowOf(b) \subseteq first .. last - 1
  <2>1. StripeOf(array, b) * blocksInStripe(array) = first
    BY <1>3 DEF first
  <2>2. first + blocksInStripe(array) = last
    BY <1>2
  <2> SUFFICES ASSUME NEW c \in RowOf(b) PROVE c \in first .. last - 1
    OBVIOUS
  <2>3. c \in first .. first + blocksInStripe(array) - 1
    BY <2>1 DEF RowOf
  <2> QED BY <1>1, <2>2, <2>3
<1>13. ASSUME NEW c \in first .. last - 1
       PROVE  c \in Nat /\ Copies(array, c) = {bmap(array, c)}
  <2>1. c \in Nat
    BY <1>1
  <2> QED BY <2>1, ChangedAre
<1>14. /\ IsSequence(R) /\ \A p : In(p, R) => Near(p, blocks)
       /\ \A b \in blocks : Suffices(R, b, asked)
  <2>1. CASE (end - begin) + 1 <= blocksInStripe(array) - (end - begin)
    <3>1. R = W
      BY <2>1 DEF ReadsForParity, W, D, PP
    <3>2. ASSUME NEW b \in blocks PROVE Suffices(W, b, asked)
      <4>1. \A q \in ParityOf(array, b) : In(q, W)
        BY <1>6, <1>8, <1>10
      <4>2. ASSUME NEW c \in RowOf(b) \cap asked, NEW q \in Copies(array, c) PROVE In(q, W)
        <5>1. c \in first .. last - 1
          BY <1>12
        <5>2. c \in blocks /\ q = bmap(array, c)
          BY <1>2, <1>13, <5>1
        <5> QED BY <1>5, <1>10, <5>2
      <4> QED BY <4>1, <4>2 DEF Suffices
    <3> QED BY <1>3, <1>10, <1>11, <3>1, <3>2, ChangedNear
  <2>2. CASE ~((end - begin) + 1 <= blocksInStripe(array) - (end - begin))
    <3> DEFINE below == DataPlaces(Span(first, begin))
               above == DataPlaces(Span(end, last))
    <3>1. R = below \o above
      BY <2>2 DEF ReadsForParity, first, last
    <3>2. /\ IsSequence(below) /\ \A p : In(p, below) <=> \E c \in first .. begin - 1 : p = bmap(array, c)
          /\ IsSequence(above) /\ \A p : In(p, above) <=> \E c \in end .. last - 1 : p = bmap(array, c)
      <4>1. first \in Int /\ begin \in Int /\ end \in Int /\ last \in Int /\ first <= begin /\ end <= last
        BY <1>1, <1>2
      <4> QED BY <1>4, <4>1
    <3> HIDE DEF below, above
    <3>3. IsSequence(R) /\ \A p : In(p, R) <=> In(p, below) \/ In(p, above)
      BY <3>1, <3>2, Concat, InBoth
    <3>4. begin \in blocks
      <4>1. begin # end
        BY <1>1, <2>2
      <4> QED BY <1>2, <4>1
    <3>5. ASSUME NEW p, In(p, R) PROVE Near(p, blocks)
      <4>1. PICK c \in first .. last - 1 : p = bmap(array, c)
        <5>1. \A c : c \in first .. begin - 1 \/ c \in end .. last - 1 => c \in first .. last - 1
          <6>1. first \in Int /\ begin \in Int /\ end \in Int /\ last \in Int
            BY <1>1
          <6>2. first <= begin /\ begin <= end /\ end <= last
            BY <1>2
          <6> QED BY <6>1, <6>2
        <5> QED BY <3>2, <3>3, <3>5, <5>1
      <4>2. c \in Nat /\ StripeOf(array, c) = StripeOf(array, begin)
        BY <1>1, <1>3, <3>4
      <4> QED BY <3>4, <4>1, <4>2 DEF Near
    <3>6. ASSUME NEW b \in blocks PROVE Suffices(R, b, asked)
      <4>1. ASSUME NEW c \in RowOf(b) \ asked, NEW q \in Copies(array, c) PROVE In(q, R)
        <5>1. c \in first .. last - 1 /\ c \notin asked
          BY <1>12
        <5>2. q = bmap(array, c) /\ (c \in first .. begin - 1 \/ c \in end .. last - 1)
          BY <1>1, <1>2, <1>13, <5>1
        <5> QED BY <3>2, <3>3, <5>2
      <4> QED BY <4>1 DEF Suffices
    <3> QED BY <3>3, <3>5, <3>6
  <2> QED BY <2>1, <2>2
<1> HIDE DEF R
<1>15. Settles(Reads(R) \o Writes(W), blocks, asked)
  BY <1>3, <1>10, <1>11, <1>14, ReadThenWrite
<1> QED BY <1>15 DEF doPartialWrite, R, W, D, PP


-----------------------------------------------------------------------------
\* The loop of enqueue45 over n stripes: where it stands after each.
IsLoop(f, addr, n) ==
    f = [k \in 0 .. n |->
            IF k = 0 THEN [begin |-> addr, left |-> size, ios |-> <<>>]
            ELSE WriteStripe(f[k - 1], StripeOf(array, addr) + k - 1)]

\* The loop comes to its end.
LEMMA LoopExists ==
    ASSUME NEW addr, NEW n \in Nat
    PROVE  \E f : IsLoop(f, addr, n)
<1> DEFINE start == [begin |-> addr, left |-> size, ios |-> <<>>]
           step(acc, k) == WriteStripe(acc, StripeOf(array, addr) + k - 1)
           Loop(f, m) == f = [k \in 0 .. m |-> IF k = 0 THEN start ELSE step(f[k - 1], k)]
           P == {m \in Nat : \E f : Loop(f, m)}
<1> HIDE DEF start, step
<1>1. 0 \in P
  <2> DEFINE f == [k \in 0 .. 0 |-> start]
  <2>1. \A k \in 0 .. 0 : k = 0 /\ f[k] = start
    OBVIOUS
  <2>2. Loop(f, 0)
    BY <2>1
  <2> QED BY <2>2
<1>2. ASSUME NEW m \in Nat, m \in P PROVE m + 1 \in P
  <2>1. PICK f : Loop(f, m)
    BY <1>2
  <2> DEFINE g == [k \in 0 .. m + 1 |-> IF k = m + 1 THEN step(f[m], m + 1) ELSE f[k]]
  <2>2. ASSUME NEW k \in 0 .. m + 1 PROVE g[k] = IF k = 0 THEN start ELSE step(g[k - 1], k)
    <3>1. CASE k = m + 1
      <4>1. k - 1 = m /\ m \in 0 .. m + 1 /\ m # m + 1 /\ k # 0
        BY <3>1
      <4>2. g[k] = step(f[m], k) /\ g[k - 1] = f[m]
        BY <3>1, <4>1
      <4> QED BY <4>1, <4>2
    <3>2. CASE k # m + 1
      <4>1. k \in 0 .. m /\ (k # 0 => k - 1 \in 0 .. m + 1 /\ k - 1 # m + 1)
        BY <3>2
      <4>2. g[k] = f[k] /\ (k # 0 => g[k - 1] = f[k - 1])
        BY <3>2, <4>1
      <4>3. f[k] = IF k = 0 THEN start ELSE step(f[k - 1], k)
        BY <2>1, <4>1
      <4> QED BY <4>2, <4>3
    <3> QED BY <3>1, <3>2
  <2>3. g = [k \in 0 .. m + 1 |-> g[k]]
    OBVIOUS
  <2> HIDE DEF g
  <2>4. Loop(g, m + 1)
    BY <2>2, <2>3
  <2> QED BY <2>4
<1>3. Nat \subseteq P
  <2> HIDE DEF P
  <2> QED BY <1>1, <1>2, SetInduction
<1>4. PICK f : Loop(f, n)
  BY <1>3
<1> QED BY <1>4 DEF IsLoop, start, step

\* The stripes that a request meets.
LEMMA StripesOfRequest ==
    ASSUME Parity, size \in Nat, NEW addr \in Nat,
           NEW B, B = blocksInStripe(array), NEW first, first = StripeOf(array, addr),
           NEW n, n = StripeOf(array, addr + size - 1) + 1 - first
    PROVE  /\ B \in Nat \ {0} /\ first \in Nat /\ n \in Nat
           /\ first * B <= addr /\ addr <= (first + 1) * B
           /\ n = 0 => size = 0
           /\ n # 0 => addr + size <= (first + n) * B
           /\ \A k \in Nat : k < n /\ k # 0 => (first + k) * B <= addr + size
<1> DEFINE last == StripeOf(array, addr + size - 1)
<1>1. B \in Nat \ {0} /\ first \in Nat
  BY Stripes DEF Parity
<1>2. \A b \in Int : /\ StripeOf(array, b) \in Int
                     /\ b - B * StripeOf(array, b) \in 0 .. B - 1
  <2> SUFFICES ASSUME NEW b \in Int
               PROVE  StripeOf(array, b) \in Int /\ b - B * StripeOf(array, b) \in 0 .. B - 1
    OBVIOUS
  <2>1. StripeOf(array, b) = b \div B
    BY DEF StripeOf
  <2>2. b \div B \in Int /\ b % B \in 0 .. B - 1 /\ b = B * (b \div B) + (b % B)
    BY <1>1, DivModFact
  <2>3. b - B * (b \div B) = b % B
    BY <1>1, <2>2
  <2> QED BY <2>1, <2>2, <2>3
<1>3. last \in Int /\ (addr + size - 1) - B * last \in 0 .. B - 1 /\ addr - B * first \in 0 .. B - 1
  BY <1>2
<1> HIDE DEF last
<1>4. n = last + 1 - first
  BY DEF last
<1>5. first * B = B * first /\ (first + 1) * B = B * first + B /\ B * first \in Nat
  BY <1>1
<1>6. first * B <= addr /\ addr <= (first + 1) * B
  BY <1>1, <1>3, <1>5
<1>7. B * (last + 1) = B * last + B /\ B * last \in Int /\ addr + size <= B * (last + 1)
  BY <1>1, <1>3
<1>8. n \in Nat
  <2> SUFFICES ASSUME last + 1 < first PROVE FALSE
    BY <1>1, <1>3, <1>4
  <2>1. B * (last + 1) + B <= B * first
    BY <1>1, <1>3, MulMonotone
  <2> QED BY <1>1, <1>3, <1>5, <1>7, <2>1
<1>9. n = 0 => size = 0
  <2> SUFFICES ASSUME n = 0 PROVE size = 0
    OBVIOUS
  <2>1. first = last + 1
    BY <1>1, <1>3, <1>4
  <2> QED BY <1>1, <1>3, <1>5, <1>7, <2>1
<1>10. addr + size <= (first + n) * B
  <2>1. first + n = last + 1
    BY <1>1, <1>3, <1>4
  <2>2. (last + 1) * B = B * (last + 1)
    BY <1>1, <1>3
  <2> QED BY <1>7, <2>1, <2>2
<1>11. ASSUME NEW k \in Nat, k < n PROVE (first + k) * B <= addr + size
  <2> DEFINE s == first + k
  <2>1. s \in Nat /\ s <= last
    BY <1>1, <1>3, <1>4, <1>11
  <2> HIDE DEF s
  <2>2. B * s <= B * last
    <3>1. CASE s = last
      BY <1>1, <1>3, <3>1
    <3>2. CASE s < last
      <4>1. B * s + B <= B * last
        BY <1>1, <1>3, <2>1, <3>2, MulMonotone
      <4>2. B * s \in Int /\ B * last \in Int
        BY <1>1, <1>3, <2>1
      <4> QED BY <1>1, <4>1, <4>2
    <3> QED BY <1>3, <2>1, <3>1, <3>2
  <2>3. s * B = B * s /\ B * s \in Int
    BY <1>1, <2>1
  <2>4. s * B <= addr + size
    BY <1>1, <1>3, <1>7, <2>2, <2>3
  <2> QED BY <2>4 DEF s
<1> QED BY <1>1, <1>6, <1>8, <1>9, <1>10, <1>11

\* Where a piece of the loop ends.
LEMMA EndOfPieceIs ==
    ASSUME Parity, NEW B, B = blocksInStripe(array), NEW s \in Nat, NEW begin \in Nat, NEW left \in Nat,
           s * B <= begin
    PROVE  EndOfPiece(s, begin, left) = Lesser(begin + left, (s + 1) * B)
<1>1. B \in Nat \ {0}
  BY Stripes DEF Parity
<1> DEFINE here == s * B
           next == (s + 1) * B
<1>2. here \in Nat /\ next = here + B
  BY <1>1
<1> HIDE DEF here, next
<1>3. here <= begin
  BY DEF here
<1>4. EndOfPiece(s, begin, left) = Lesser(begin + Lesser(left, B), next)
  BY DEF EndOfPiece, next
<1>5. Lesser(begin + Lesser(left, B), next) = Lesser(begin + left, next)
  BY <1>1, <1>2, <1>3 DEF Lesser
<1> QED BY <1>4, <1>5 DEF next


-----------------------------------------------------------------------------
\* Nothing is done for no blocks.
LEMMA NothingSettles ==
    ASSUME NEW asked, NEW blocks, blocks = {}
    PROVE  Settles(<<>>, blocks, asked)
<1>1. IsSequence(<<>>) /\ Len(<<>>) = 0
  BY DEF IsSequence
<1>2. \A p : ~In(Write(p), <<>>) /\ ~Changed(p, blocks)
  BY <1>1 DEF In, Changed
<1> QED BY <1>1, <1>2 DEF Settles

\* Where the loop stands when it has done k stripes.
Reached(addr, k) ==
    IF k = 0 THEN addr ELSE Lesser(addr + size, (StripeOf(array, addr) + k) * blocksInStripe(array))
Standing(acc, addr, k, asked) ==
    /\ acc.begin = Reached(addr, k) /\ acc.begin \in addr .. addr + size
    /\ acc.left = addr + size - acc.begin
    /\ Settles(acc.ios, addr .. acc.begin - 1, asked)

\* One more stripe.
LEMMA OneMoreStripe ==
    ASSUME Parity, size \in Nat, NEW addr \in Nat,
           NEW n, n = StripeOf(array, addr + size - 1) + 1 - StripeOf(array, addr),
           NEW k \in Nat, k < n, NEW acc,
           NEW asked, asked = addr .. addr + size - 1, Standing(acc, addr, k, asked)
    PROVE  Standing(WriteStripe(acc, StripeOf(array, addr) + k), addr, k + 1, asked)
<1> DEFINE B == blocksInStripe(array)
           first == StripeOf(array, addr)
           s == first + k
           begin == acc.begin
           end == EndOfPiece(s, acc.begin, acc.left)
           next == (s + 1) * B
           x == acc.ios
           y == doPartialWrite(s, begin, end)
<1>1. /\ B \in Nat \ {0} /\ first \in Nat /\ n \in Nat
      /\ first * B <= addr /\ addr <= (first + 1) * B
      /\ (k # 0 => s * B <= addr + size)
  <2>1. n = StripeOf(array, addr + size - 1) + 1 - first
    OBVIOUS
  <2> HIDE DEF B, first
  <2> QED BY <2>1, StripesOfRequest DEF B, first
<1>2. /\ begin \in addr .. addr + size /\ acc.left = addr + size - begin
      /\ begin = Reached(addr, k) /\ Settles(x, addr .. begin - 1, asked)
  BY DEF Standing
<1> HIDE DEF x
<1>3. s \in Nat /\ s * B \in Nat /\ next = s * B + B /\ next \in Nat /\ (first + (k + 1)) * B = next
  <2> HIDE DEF first, B
  <2> QED BY <1>1
<1>4. s * B <= begin /\ begin <= next /\ (k = 0 => begin = addr) /\ (k # 0 => begin = s * B)
  <2>1. CASE k = 0
    <3>1. begin = addr /\ s = first
      BY <1>1, <1>2, <2>1 DEF Reached
    <3>2. next = (first + 1) * B /\ s * B = first * B
      BY <3>1
    <3> HIDE DEF s, first, B, next
    <3> QED BY <1>1, <2>1, <3>1, <3>2
  <2>2. CASE k # 0
    <3>1. begin = Lesser(addr + size, s * B)
      BY <1>2, <2>2 DEF Reached
    <3> HIDE DEF s, first, B, next
    <3>2. begin = s * B
      BY <1>1, <1>3, <2>2, <3>1 DEF Lesser
    <3> QED BY <1>1, <1>3, <2>2, <3>2
  <2> QED BY <2>1, <2>2
<1>5. end = Lesser(addr + size, next)
  <2>1. begin \in Nat /\ acc.left \in Nat /\ begin + acc.left = addr + size
    BY <1>2
  <2>2. end = Lesser(begin + acc.left, next)
    <3> HIDE DEF s
    <3> QED BY <1>3, <1>4, <2>1, EndOfPieceIs
  <2> HIDE DEF end, next
  <2> QED BY <2>1, <2>2
<1>6. end = Reached(addr, k + 1)
  <2>1. k + 1 # 0
    OBVIOUS
  <2>2. Reached(addr, k + 1) = Lesser(addr + size, (first + (k + 1)) * B)
    BY <2>1 DEF Reached
  <2> HIDE DEF end, next, B, first
  <2> QED BY <1>3, <1>5, <2>2
<1> HIDE DEF end, begin, next, s, first, B
<1>7. end \in Nat /\ begin \in Nat /\ begin <= end /\ end <= addr + size /\ end <= next
  <2> DEFINE here == s * B
  <2>1. here \in Nat /\ next = here + B /\ here <= begin /\ begin <= next /\ B \in Nat
    BY <1>1, <1>3, <1>4
  <2>2. begin \in Nat /\ begin <= addr + size
    BY <1>2
  <2> HIDE DEF here
  <2> QED BY <1>5, <2>1, <2>2 DEF Lesser
<1> DEFINE P == addr .. begin - 1
           Q == begin .. end - 1
<1>8. \A c \in s * B .. s * B + B - 1 : c \in asked <=> c \in begin .. end - 1
  <2> DEFINE here == s * B
  <2>1. here \in Nat /\ next = here + B /\ B \in Nat /\ (k = 0 => begin = addr) /\ (k # 0 => begin = here)
    BY <1>1, <1>3, <1>4
  <2>2. here <= begin
    BY <1>4
  <2> HIDE DEF here
  <2>3. ASSUME NEW c \in here .. here + B - 1 PROVE c \in asked <=> c \in begin .. end - 1
    <3>1. c \in Nat /\ here <= c /\ c < next
      BY <2>1, <2>3
    <3>2. c \in asked <=> addr <= c /\ c < addr + size
      BY <3>1
    <3>3. c \in begin .. end - 1 <=> begin <= c /\ c < end
      BY <1>7, <3>1
    <3>4. c < end <=> c < addr + size
      BY <1>5, <2>1, <3>1 DEF Lesser
    <3>5. begin <= c => addr <= c
      BY <1>2, <3>1
    <3>6. addr <= c => begin <= c
      BY <1>7, <2>1, <3>1
    <3> QED BY <3>2, <3>3, <3>4, <3>5, <3>6
  <2> QED BY <2>3 DEF here
<1>9. Settles(y, Q, asked)
  <2>1. s * B <= begin /\ begin <= end /\ end <= s * B + B
    BY <1>3, <1>4, <1>7
  <2> HIDE DEF y, Q
  <2> QED BY <1>3, <1>7, <1>8, <2>1, Piece DEF y, Q, B
<1> HIDE DEF y
<1>10. P \in SUBSET Nat /\ Q \in SUBSET Nat
  BY <1>7
<1>11. Apart(P, Q)
  <2> SUFFICES ASSUME NEW b \in P, NEW c \in Q, StripeOf(array, b) = StripeOf(array, c)
               PROVE  FALSE
    BY DEF Apart
  <2>1. b \in Nat /\ c \in Nat
    BY <1>10
  <2>2. /\ StripeOf(array, b) = s <=> b \in s * B .. s * B + B - 1
        /\ StripeOf(array, c) = s <=> c \in s * B .. s * B + B - 1
    BY <1>3, <2>1, Stripes DEF Parity, B
  <2>3. c \in s * B .. s * B + B - 1
    BY <1>1, <1>3, <1>4, <1>7
  <2>4. b >= s * B /\ b < begin /\ b >= addr
    BY <1>3, <1>7, <2>1, <2>2, <2>3
  <2> QED BY <1>3, <1>4, <1>7, <2>1, <2>4
<1>12. addr .. end - 1 = P \cup Q
  <2>1. begin \in Nat /\ end \in Nat /\ addr <= begin /\ begin <= end
    BY <1>2, <1>7
  <2> QED BY <2>1
<1> HIDE DEF P, Q
<1>13. Settles(x \o y, addr .. end - 1, asked)
  <2>1. Settles(x, P, asked)
    BY <1>2 DEF P
  <2> QED BY <1>9, <1>10, <1>11, <1>12, <2>1, Joined
<1>14. LET w == WriteStripe(acc, s)
       IN  w.begin = end /\ w.left = acc.left - (end - begin) /\ w.ios = x \o y
  BY DEF WriteStripe, end, begin, x, y
<1>15. acc.left - (end - begin) = addr + size - end /\ end \in addr .. addr + size
  <2>1. acc.left = addr + size - begin /\ begin \in Nat /\ addr <= begin
    BY <1>2, <1>7
  <2>2. end \in Nat /\ begin <= end /\ end <= addr + size
    BY <1>7
  <2> QED BY <2>1, <2>2
<1> QED BY <1>6, <1>13, <1>14, <1>15 DEF Standing, s, first

\* A write of RAID 4 and 5.
LEMMA WrittenSettles ==
    ASSUME Parity, size \in Nat, NEW addr \in Nat, NEW asked, asked = addr .. addr + size - 1
    PROVE  Settles(enqueue45(addr, TRUE), asked, asked)
<1> DEFINE first == StripeOf(array, addr)
           n == StripeOf(array, addr + size - 1) + 1 - first
           B == blocksInStripe(array)
           f == CHOOSE g : IsLoop(g, addr, n)
           S(k) == Standing(f[k], addr, k, asked)
           P == {k \in Nat : k <= n => S(k)}
<1>1. /\ B \in Nat \ {0} /\ first \in Nat /\ n \in Nat
      /\ (n = 0 => size = 0) /\ (n # 0 => addr + size <= (first + n) * B)
  <2> HIDE DEF first, B
  <2> QED BY StripesOfRequest DEF first, B
<1> HIDE DEF n
<1>2. IsLoop(f, addr, n)
  BY <1>1, LoopExists
<1>3. enqueue45(addr, TRUE) = f[n].ios
  BY DEF enqueue45, Written, IsLoop, n, first
<1> HIDE DEF f
<1>4. 0 \in P
  <2>1. f[0] = [begin |-> addr, left |-> size, ios |-> <<>>]
    BY <1>1, <1>2 DEF IsLoop
  <2>2. f[0].begin = addr /\ f[0].left = size /\ f[0].ios = <<>>
    BY <2>1
  <2>3. addr .. addr - 1 = {} /\ addr \in addr .. addr + size /\ size = addr + size - addr
    OBVIOUS
  <2>4. Settles(<<>>, addr .. addr - 1, asked)
    BY <2>3, NothingSettles
  <2>5. Reached(addr, 0) = addr
    BY DEF Reached
  <2> QED BY <2>2, <2>3, <2>4, <2>5 DEF Standing
<1>5. ASSUME NEW k \in Nat, k \in P PROVE k + 1 \in P
  <2> SUFFICES ASSUME k + 1 <= n PROVE S(k + 1)
    OBVIOUS
  <2>1. k < n /\ S(k)
    BY <1>1, <1>5
  <2>2. f[k + 1] = WriteStripe(f[k], first + k)
    <3>1. k + 1 \in 0 .. n /\ k + 1 # 0 /\ (k + 1) - 1 = k /\ (first + (k + 1)) - 1 = first + k
      BY <1>1
    <3>2. f[k + 1] = WriteStripe(f[(k + 1) - 1], first + (k + 1) - 1)
      BY <1>2, <3>1 DEF IsLoop
    <3> HIDE DEF first
    <3> QED BY <3>1, <3>2
  <2>3. Standing(WriteStripe(f[k], first + k), addr, k + 1, asked)
    BY <2>1, OneMoreStripe DEF n, first
  <2> QED BY <2>2, <2>3
<1>6. Nat \subseteq P
  <2> HIDE DEF P
  <2> QED BY <1>4, <1>5, SetInduction
<1>7. S(n)
  BY <1>1, <1>6
<1>8. Reached(addr, n) = addr + size
  <2>1. CASE n = 0
    BY <1>1, <2>1 DEF Reached
  <2>2. CASE n # 0
    <3> DEFINE end == (first + n) * B
    <3>1. Reached(addr, n) = Lesser(addr + size, end)
      BY <2>2 DEF Reached
    <3>2. end \in Nat /\ addr + size <= end
      <4> HIDE DEF first, B
      <4> QED BY <1>1, <2>2
    <3> HIDE DEF end
    <3> QED BY <3>1, <3>2 DEF Lesser
  <2> QED BY <2>1, <2>2
<1>9. f[n].begin = addr + size /\ Settles(f[n].ios, addr .. f[n].begin - 1, asked)
  BY <1>7, <1>8 DEF Standing
<1>10. addr .. f[n].begin - 1 = asked
  BY <1>9
<1>11. Settles(f[n].ios, asked, asked)
  BY <1>9, <1>10
<1>12. Settles(enqueue45(addr, TRUE), asked, asked)
  BY ONLY <1>3, <1>11
<1> QED BY <1>12


-----------------------------------------------------------------------------
\* What the I/Os of a request do, at any level.
Close(p, blocks) ==
    IF array.level \in {4, 5} THEN Near(p, blocks) ELSE \E b \in blocks : p \in Copies(array, b)

WritesRight(x, blocks) ==
    /\ \A p : In(Write(p), x) <=> Changed(p, blocks)
    /\ \A i, j \in 1 .. Len(x) : \A p : x[i] = Write(p) /\ x[j] = Write(p) => i = j
    /\ \A b \in blocks, j \in 1 .. Len(x) : \A p \in ParityOf(array, b) :
          x[j] = Write(p) => Computable(x, j, b, blocks)
ReadsRight(x, blocks) ==
    /\ Len(x) = size
    /\ \A j \in 1 .. Len(x) : /\ x[j].isWrite = FALSE
                             /\ \E b \in blocks : x[j].place \in Copies(array, b)

Right(x, blocks, isWrite) ==
    /\ IsSequence(x)
    /\ \A j \in 1 .. Len(x) : \E p : x[j] \in {Read(p), Write(p)} /\ Close(p, blocks)
    /\ \A b \in blocks : \E j \in 1 .. Len(x) : x[j].place \in Copies(array, b)
    /\ isWrite => WritesRight(x, blocks)
    /\ ~isWrite => ReadsRight(x, blocks)

\* The places of a block: one, or two on RAID 1.
LEMMA CopiesAre ==
    ASSUME IsArray(array), NEW b \in Nat
    PROVE  /\ array.level = 0 => Copies(array, b) = {bmap0(array, b)}
           /\ array.level = 1 => /\ Copies(array, b) = {bmap1(array, b)[1], bmap1(array, b)[2]}
                                 /\ bmap1(array, b)[1] # bmap1(array, b)[2]
           /\ array.level \in {4, 5} => Copies(array, b) = {bmap(array, b)}
           /\ array.level \notin {4, 5} => ParityOf(array, b) = {}
<1>1. array.level = 1 => bmap1(array, b)[1] # bmap1(array, b)[2]
  <2> SUFFICES ASSUME array.level = 1 PROVE bmap1(array, b)[1] # bmap1(array, b)[2]
    OBVIOUS
  <2> DEFINE k == StripeDisk(array, Pairs(array), b)
             o == StripeOff(array, Pairs(array), b)
  <2>1. Pairs(array) \in Nat \ {0}
    BY DEF Pairs, IsArray
  <2>2. k \in Nat
    <3> DEFINE n == Pairs(array)
    <3>1. n \in Nat \ {0} /\ k = StripeDisk(array, n, b)
      BY <2>1
    <3> HIDE DEF n, k
    <3>2. k \in 0 .. n - 1
      BY <3>1, CellTypes
    <3> QED BY <3>1, <3>2
  <2>3. bmap1(array, b)[1] = Place(2 * k, o) /\ bmap1(array, b)[2] = Place(2 * k + 1, o)
    BY DEF bmap1
  <2> HIDE DEF k, o
  <2> QED BY <2>2, <2>3 DEF Place
<1> QED BY <1>1 DEF Copies, ParityOf

\* The blocks of a request, counted from one.
LEMMA AskedBlocks ==
    ASSUME size \in Nat, NEW addr \in Nat, NEW asked, asked = addr .. addr + size - 1
    PROVE  /\ \A k \in 1 .. size : addr + k - 1 \in asked /\ addr + k - 1 \in Nat
           /\ \A b \in asked : b \in Nat /\ \E k \in 1 .. size : b = addr + k - 1
<1>1. ASSUME NEW b \in asked PROVE b \in Nat /\ \E k \in 1 .. size : b = addr + k - 1
  <2>1. b - addr + 1 \in 1 .. size /\ b = addr + (b - addr + 1) - 1 /\ b \in Nat
    OBVIOUS
  <2> QED BY <2>1
<1> QED BY <1>1

\* Striping.
LEMMA Right0 ==
    ASSUME IsArray(array), array.level = 0, size \in Nat, NEW addr \in Nat, NEW isWrite \in BOOLEAN,
           NEW asked, asked = addr .. addr + size - 1
    PROVE  Right(enqueue0(addr, isWrite), asked, isWrite)
<1> DEFINE x == enqueue0(addr, isWrite)
           b(k) == addr + k - 1
<1>1. x = [k \in 1 .. size |-> x[k]]
      /\ \A k \in 1 .. size : x[k] = [isWrite |-> isWrite, place |-> bmap0(array, b(k))]
  BY DEF enqueue0
<1> HIDE DEF x
<1>2. IsSequence(x) /\ Len(x) = size
  BY <1>1, ListOf
<1>3. /\ \A k \in 1 .. size : b(k) \in asked /\ b(k) \in Nat
      /\ \A c \in asked : c \in Nat /\ \E k \in 1 .. size : c = b(k)
  BY AskedBlocks
<1>4. \A k, l \in 1 .. size : b(k) = b(l) => k = l
  OBVIOUS
<1> HIDE DEF b
<1>5. \A k \in 1 .. size : x[k].isWrite = isWrite /\ x[k].place = bmap0(array, b(k))
                              /\ x[k] = IF isWrite THEN Write(bmap0(array, b(k))) ELSE Read(bmap0(array, b(k)))
  BY <1>1 DEF Read, Write
<1>6. \A c \in asked : c \in Nat /\ Copies(array, c) = {bmap0(array, c)} /\ ParityOf(array, c) = {}
  BY <1>3, CopiesAre
<1>7. ASSUME NEW k \in 1 .. Len(x) PROVE \E p : x[k] \in {Read(p), Write(p)} /\ Close(p, asked)
  <2> DEFINE p == bmap0(array, b(k))
  <2>1. x[k] \in {Read(p), Write(p)}
    BY <1>2, <1>5
  <2>2. p \in Copies(array, b(k)) /\ b(k) \in asked
    BY <1>2, <1>3, <1>6
  <2>3. Close(p, asked)
    BY <2>2 DEF Close
  <2> QED BY <2>1, <2>3
<1>8. ASSUME NEW c \in asked PROVE \E k \in 1 .. Len(x) : x[k].place \in Copies(array, c)
  BY <1>2, <1>3, <1>5, <1>6
<1>9. ASSUME isWrite PROVE WritesRight(x, asked)
  <2>1. \A k \in 1 .. size : x[k] = Write(bmap0(array, b(k)))
    BY <1>5, <1>9
  <2>2. ASSUME NEW p PROVE In(Write(p), x) <=> Changed(p, asked)
    <3>1. In(Write(p), x) <=> \E k \in 1 .. size : p = bmap0(array, b(k))
      BY <1>2, <2>1, ReadWrite DEF In
    <3>2. Changed(p, asked) <=> \E c \in asked : p = bmap0(array, c)
      BY <1>6 DEF Changed
    <3> QED BY <1>3, <3>1, <3>2
  <2>3. ASSUME NEW i \in 1 .. Len(x), NEW j \in 1 .. Len(x), NEW p, x[i] = Write(p), x[j] = Write(p)
        PROVE  i = j
    <3>1. p = bmap0(array, b(i)) /\ p = bmap0(array, b(j))
      BY <1>2, <2>1, <2>3, ReadWrite
    <3>2. /\ b(i) \in Nat /\ Copies(array, b(i)) = {p}
          /\ b(j) \in Nat /\ Copies(array, b(j)) = {p}
      BY <1>2, <1>3, <1>6, <3>1
    <3>3. b(i) = b(j)
      BY <3>2, CopiesDisjoint
    <3> QED BY <1>2, <1>4, <3>3
  <2> QED BY <1>6, <2>2, <2>3 DEF WritesRight
<1>10. ASSUME ~isWrite PROVE ReadsRight(x, asked)
  <2>1. ASSUME NEW k \in 1 .. size PROVE \E c \in asked : x[k].place \in Copies(array, c)
    <3>1. b(k) \in asked /\ x[k].place = bmap0(array, b(k))
      BY <1>3, <1>5
    <3> QED BY <1>6, <3>1
  <2> QED BY <1>2, <1>5, <1>10, <2>1 DEF ReadsRight
<1> QED BY <1>2, <1>7, <1>8, <1>9, <1>10 DEF Right, x

\* Mirroring: a read takes one copy.
LEMMA ReadsRight1 ==
    ASSUME IsArray(array), array.level = 1, size \in Nat, NEW addr \in Nat,
           NEW asked, asked = addr .. addr + size - 1
    PROVE  Right(enqueue1(addr, FALSE), asked, FALSE)
<1> DEFINE x == enqueue1(addr, FALSE)
           b(k) == addr + k - 1
<1>1. x = [k \in 1 .. size |-> x[k]] /\ \A k \in 1 .. size : x[k] = Read(Balanced(b(k)))
  BY DEF enqueue1
<1> HIDE DEF x
<1>2. IsSequence(x) /\ Len(x) = size
  BY <1>1, ListOf
<1>3. /\ \A k \in 1 .. size : b(k) \in asked /\ b(k) \in Nat
      /\ \A c \in asked : c \in Nat /\ \E k \in 1 .. size : c = b(k)
  BY AskedBlocks
<1> HIDE DEF b
<1>4. ASSUME NEW c \in Nat PROVE Balanced(c) \in Copies(array, c)
  <2> DEFINE copies == bmap1(array, c)
             o == copies[1].off
  <2>1. o = StripeOff(array, Pairs(array), c)
    BY DEF bmap1, Place
  <2>2. Pairs(array) \in Nat \ {0}
    BY DEF Pairs, IsArray
  <2>3. o \in Nat
    BY <2>1, <2>2, CellTypes
  <2> HIDE DEF o
  <2>4. (o % 2) + 1 \in {1, 2}
    BY <2>3
  <2>5. Balanced(c) = copies[(o % 2) + 1]
    BY DEF Balanced, o
  <2>6. Copies(array, c) = {copies[1], copies[2]}
    BY CopiesAre
  <2> HIDE DEF copies
  <2> QED BY <2>4, <2>5, <2>6
<1>5. ASSUME NEW k \in 1 .. Len(x) PROVE \E p : x[k] \in {Read(p), Write(p)} /\ Close(p, asked)
  <2> DEFINE p == Balanced(b(k))
  <2>1. x[k] \in {Read(p), Write(p)}
    BY <1>1, <1>2
  <2>2. p \in Copies(array, b(k)) /\ b(k) \in asked
    BY <1>2, <1>3, <1>4
  <2> HIDE DEF p
  <2>3. Close(p, asked)
    BY <2>2 DEF Close
  <2> QED BY <2>1, <2>3
<1>6. ASSUME NEW c \in asked PROVE \E k \in 1 .. Len(x) : x[k].place \in Copies(array, c)
  BY <1>1, <1>2, <1>3, <1>4, ReadWrite
<1>7. ReadsRight(x, asked)
  BY <1>1, <1>2, <1>3, <1>4, ReadWrite DEF ReadsRight
<1> QED BY <1>2, <1>5, <1>6, <1>7 DEF Right, x


-----------------------------------------------------------------------------
\* Mirroring: a write goes to both copies.
LEMMA WritesRight1 ==
    ASSUME IsArray(array), array.level = 1, size \in Nat, NEW addr \in Nat,
           NEW asked, asked = addr .. addr + size - 1
    PROVE  Right(enqueue1(addr, TRUE), asked, TRUE)
<1> DEFINE x == enqueue1(addr, TRUE)
           n == 2 * size
           row(k) == (k - 1) \div 2
           side(k) == (k - 1) % 2
           b(k) == addr + row(k)
           copy(c, m) == bmap1(array, c)[m + 1]
<1>1. n \in Nat /\ x = [k \in 1 .. n |-> x[k]] /\ \A k \in 1 .. n : x[k] = Write(copy(b(k), side(k)))
  BY DEF enqueue1
<1> HIDE DEF x
<1>2. IsSequence(x) /\ Len(x) = n
  BY <1>1, ListOf
<1>3. ASSUME NEW k \in 1 .. n
      PROVE  row(k) \in 0 .. size - 1 /\ side(k) \in {0, 1} /\ k = 2 * row(k) + side(k) + 1
  <2>1. \A a \in Int : a \div 2 \in Int /\ a % 2 \in 0 .. 1 /\ a = 2 * (a \div 2) + (a % 2)
    OBVIOUS
  <2>2. row(k) \in Int /\ side(k) \in 0 .. 1 /\ k - 1 = 2 * row(k) + side(k)
    BY <2>1
  <2> HIDE DEF row, side
  <2> QED BY <2>2
<1>4. ASSUME NEW c \in asked, NEW m \in {0, 1} PROVE \E k \in 1 .. n : b(k) = c /\ side(k) = m
  <2> DEFINE q == c - addr
             k == (2 * q + m) + 1
  <2>1. q \in 0 .. size - 1 /\ c = addr + q
    OBVIOUS
  <2> HIDE DEF q
  <2>2. k \in 1 .. n /\ k - 1 = 2 * q + m /\ k - 1 \in Int
    BY <2>1
  <2> HIDE DEF k
  <2>3. row(k) = q /\ side(k) = m
    <3>1. 2 \in Nat \ {0} /\ q \in Int /\ m \in 0 .. 2 - 1
      BY <2>1
    <3> QED BY <2>2, <3>1, DivModUnique
  <2> QED BY <2>1, <2>2, <2>3
<1> HIDE DEF row, side, copy
<1>5. \A k \in 1 .. n : b(k) \in asked
  BY <1>3
<1> HIDE DEF n
<1>6. ASSUME NEW c \in asked
      PROVE  /\ c \in Nat /\ Copies(array, c) = {copy(c, 0), copy(c, 1)} /\ copy(c, 0) # copy(c, 1)
             /\ ParityOf(array, c) = {}
  <2>1. c \in Nat
    OBVIOUS
  <2>2. copy(c, 0) = bmap1(array, c)[1] /\ copy(c, 1) = bmap1(array, c)[2]
    BY DEF copy
  <2> QED BY <2>1, <2>2, CopiesAre
<1>7. \A k \in 1 .. n : copy(b(k), side(k)) \in Copies(array, b(k))
  BY <1>3, <1>5, <1>6
<1>8. ASSUME NEW k \in 1 .. Len(x) PROVE \E p : x[k] \in {Read(p), Write(p)} /\ Close(p, asked)
  <2> DEFINE p == copy(b(k), side(k))
  <2>1. x[k] \in {Read(p), Write(p)}
    BY <1>1, <1>2
  <2>2. p \in Copies(array, b(k)) /\ b(k) \in asked
    BY <1>2, <1>5, <1>7
  <2> HIDE DEF p
  <2>3. Close(p, asked)
    BY <2>2 DEF Close
  <2> QED BY <2>1, <2>3
<1>9. ASSUME NEW c \in asked PROVE \E k \in 1 .. Len(x) : x[k].place \in Copies(array, c)
  <2>1. PICK k \in 1 .. n : b(k) = c /\ side(k) = 0
    BY <1>4
  <2>2. x[k].place \in Copies(array, c)
    BY <1>1, <1>7, <2>1, ReadWrite
  <2> QED BY <1>2, <2>2
<1>10. ASSUME NEW p PROVE In(Write(p), x) <=> Changed(p, asked)
  <2>1. In(Write(p), x) <=> \E k \in 1 .. n : p = copy(b(k), side(k))
    BY <1>1, <1>2, ReadWrite DEF In
  <2>2. Changed(p, asked) <=> \E c \in asked : p = copy(c, 0) \/ p = copy(c, 1)
    BY <1>6 DEF Changed
  <2>3. ASSUME NEW k \in 1 .. n, p = copy(b(k), side(k))
        PROVE  \E c \in asked : p = copy(c, 0) \/ p = copy(c, 1)
    BY <1>3, <1>5, <2>3
  <2>4. ASSUME NEW c \in asked, NEW m \in {0, 1}, p = copy(c, m)
        PROVE  \E k \in 1 .. n : p = copy(b(k), side(k))
    BY <1>4, <2>4
  <2> QED BY <2>1, <2>2, <2>3, <2>4
<1>11. ASSUME NEW i \in 1 .. Len(x), NEW j \in 1 .. Len(x), NEW p, x[i] = Write(p), x[j] = Write(p)
       PROVE  i = j
  <2>1. p = copy(b(i), side(i)) /\ p = copy(b(j), side(j)) /\ i \in 1 .. n /\ j \in 1 .. n
    BY <1>1, <1>2, <1>11, ReadWrite
  <2>2. /\ b(i) \in asked /\ b(i) \in Nat /\ p \in Copies(array, b(i))
        /\ b(j) \in asked /\ b(j) \in Nat /\ p \in Copies(array, b(j))
    BY <1>5, <1>6, <1>7, <2>1
  <2>3. b(i) = b(j)
    BY <2>2, CopiesDisjoint
  <2>4. row(i) = row(j)
    BY <1>3, <2>1, <2>3
  <2>5. side(i) = side(j)
    BY <1>3, <1>6, <2>1, <2>2, <2>3
  <2> QED BY <1>3, <2>1, <2>4, <2>5
<1>12. WritesRight(x, asked)
  BY <1>6, <1>10, <1>11 DEF WritesRight
<1> QED BY <1>2, <1>8, <1>9, <1>12 DEF Right, x

\* RAID 4 and 5: reads and writes.
LEMMA Right45 ==
    ASSUME Parity, size \in Nat, NEW addr \in Nat, NEW isWrite \in BOOLEAN,
           NEW asked, asked = addr .. addr + size - 1
    PROVE  Right(enqueue45(addr, isWrite), asked, isWrite)
<1> DEFINE x == enqueue45(addr, isWrite)
<1>0. /\ array.level \in {4, 5} /\ asked \in SUBSET Nat
      /\ \A c \in asked : Copies(array, c) = {bmap(array, c)}
  BY ChangedAre DEF Parity
<1>1. CASE isWrite
  <2>1. Settles(x, asked, asked)
    BY <1>1, WrittenSettles
  <2> HIDE DEF x
  <2>2. IsSequence(x) /\ WritesRight(x, asked)
    BY <2>1 DEF Settles, WritesRight
  <2>3. \A j \in 1 .. Len(x) : \E p : x[j] \in {Read(p), Write(p)} /\ Close(p, asked)
    <3>1. \A j \in 1 .. Len(x) : \E p : x[j] \in {Read(p), Write(p)} /\ Near(p, asked)
      BY <2>1 DEF Settles
    <3> QED BY <1>0, <3>1 DEF Close
  <2>4. ASSUME NEW c \in asked PROVE \E j \in 1 .. Len(x) : x[j].place \in Copies(array, c)
    <3> DEFINE p == bmap(array, c)
    <3>1. p \in Copies(array, c)
      BY <1>0
    <3>2. Changed(p, asked)
      BY <3>1 DEF Changed
    <3>3. In(Write(p), x)
      BY <2>2, <3>2 DEF WritesRight
    <3> HIDE DEF p
    <3>4. PICK j \in 1 .. Len(x) : x[j] = Write(p)
      BY <3>3 DEF In
    <3>5. x[j].place = p
      BY <3>4, ReadWrite
    <3> QED BY <3>1, <3>5
  <2> QED BY <1>1, <2>2, <2>3, <2>4 DEF Right, x
<1>2. CASE ~isWrite
  <2> DEFINE s == Span(addr, addr + size)
             d == DataPlaces(s)
  <2>1. x = Reads(d)
    BY <1>2 DEF enqueue45
  <2>2. IsSequence(s) /\ Len(s) = size /\ \A c : In(c, s) <=> c \in asked
    <3>1. addr \in Int /\ addr + size \in Int /\ addr <= addr + size /\ (addr + size) - addr = size
      OBVIOUS
    <3>2. /\ IsSequence(s) /\ Len(s) = (addr + size) - addr
          /\ \A c : In(c, s) <=> c \in addr .. (addr + size) - 1
      BY <3>1, SpanIs
    <3> HIDE DEF s
    <3> QED BY <3>1, <3>2
  <2> HIDE DEF s
  <2>3. IsSequence(d) /\ Len(d) = size /\ \A p : In(p, d) <=> \E c \in asked : p = bmap(array, c)
    BY <2>2, DataPlacesAre
  <2> HIDE DEF d
  <2>4. IsSequence(x) /\ Len(x) = size /\ \A k \in 1 .. size : x[k] = Read(d[k])
    BY <2>1, <2>3, ReadsAre
  <2> HIDE DEF x
  <2>5. ASSUME NEW k \in 1 .. Len(x) PROVE \E p : x[k] \in {Read(p), Write(p)} /\ Close(p, asked)
    <3>1. In(d[k], d)
      BY <2>3, <2>4 DEF In
    <3>2. PICK c \in asked : d[k] = bmap(array, c)
      BY <2>3, <3>1
    <3>3. d[k].off = bmap(array, c).off /\ c \in Nat
      BY <1>0, <3>2
    <3>4. Near(d[k], asked)
      BY <3>3 DEF Near
    <3>5. Close(d[k], asked) /\ x[k] \in {Read(d[k]), Write(d[k])}
      BY <1>0, <2>4, <3>4 DEF Close
    <3> QED BY <3>5
  <2>6. ASSUME NEW c \in asked PROVE \E k \in 1 .. Len(x) : x[k].place \in Copies(array, c)
    <3>1. In(bmap(array, c), d)
      BY <2>3
    <3>2. PICK k \in 1 .. size : d[k] = bmap(array, c)
      BY <2>3, <3>1 DEF In
    <3>3. x[k].place \in Copies(array, c)
      BY <1>0, <2>4, <3>2, ReadWrite
    <3> QED BY <2>4, <3>3
  <2>7. ASSUME NEW k \in 1 .. Len(x) PROVE x[k].isWrite = FALSE /\ \E c \in asked : x[k].place \in Copies(array, c)
    <3>1. PICK c \in asked : d[k] = bmap(array, c)
      BY <2>3, <2>4 DEF In
    <3>2. x[k].isWrite = FALSE /\ x[k].place = d[k]
      BY <2>4, ReadWrite
    <3> QED BY <1>0, <3>1, <3>2
  <2>8. ReadsRight(x, asked)
    BY <2>4, <2>7 DEF ReadsRight
  <2> QED BY <1>2, <2>4, <2>5, <2>6, <2>8 DEF Right, x
<1> QED BY <1>1, <1>2

\* raid.enqueue, at every level.
LEMMA IOsRight ==
    ASSUME IsArray(array), size \in Nat, NEW addr \in Nat, NEW isWrite \in BOOLEAN,
           NEW asked, asked = addr .. addr + size - 1
    PROVE  Right(PhysicalIOs(addr, isWrite), asked, isWrite)
<1>1. CASE array.level = 0
  BY <1>1, Right0 DEF PhysicalIOs
<1>2. CASE array.level = 1
  <2>1. isWrite = TRUE \/ isWrite = FALSE
    OBVIOUS
  <2>2. PhysicalIOs(addr, isWrite) = enqueue1(addr, isWrite)
    BY <1>2 DEF PhysicalIOs
  <2> QED BY <1>2, <2>1, <2>2, WritesRight1, ReadsRight1
<1>3. CASE array.level \in {4, 5}
  <2>1. PhysicalIOs(addr, isWrite) = enqueue45(addr, isWrite)
    BY <1>3 DEF PhysicalIOs
  <2> QED BY <1>3, <2>1, Right45 DEF Parity
<1> QED BY <1>1, <1>2, <1>3 DEF IsArray


-----------------------------------------------------------------------------
\* The types that the properties of a request rest on.
TypeInv == array \in Arrays /\ size \in Sizes /\ off \in Nat /\ count \in Nat

\* They hold in every state.
LEMMA Typing ==
    /\ Init => TypeInv
    /\ TypeInv /\ [Next]_vars => TypeInv'
<1>1. Init => TypeInv
  BY DEF Init, TypeInv
<1>2. ASSUME TypeInv, [Next]_vars PROVE TypeInv'
  <2>1. CASE UNCHANGED vars
    BY <1>2, <2>1 DEF TypeInv, vars
  <2>2. CASE Next
    <3>1. PICK addr \in 0 .. RandRange - 1 \cup {off}, isWrite \in BOOLEAN : Request(addr, isWrite)
      BY <2>2 DEF Next
    <3>2. size \in Nat
      BY <1>2, RaidAssumption DEF TypeInv
    <3> QED BY <1>2, <3>1, <3>2 DEF TypeInv, Request
  <2> QED BY <1>2, <2>1, <2>2
<1> QED BY <1>1, <1>2

\* One request: what is issued, and when it ends the program.
LEMMA Requested ==
    ASSUME TypeInv, NEW addr \in 0 .. RandRange - 1 \cup {off}, NEW isWrite \in BOOLEAN,
           Request(addr, isWrite), NEW x, x = PhysicalIOs(addr, isWrite),
           NEW asked, asked = addr .. addr + size - 1
    PROVE  /\ IsArray(array) /\ size \in Nat /\ addr \in Nat
           /\ array' = array /\ size' = size /\ request'.addr = addr /\ request'.isWrite = isWrite
           /\ Asked' = asked
           /\ Right(x, asked, isWrite) /\ DOMAIN x = 1 .. Len(x) /\ Len(x) \in Nat
           /\ ~failed' => issued' = x
           /\ failed' <=> \E k \in 1 .. Len(x) : x[k].place.off >= blocksPerDisk
<1>1. IsArray(array) /\ size \in Nat /\ addr \in Nat
  BY RaidAssumption DEF TypeInv
<1>2. /\ array' = array /\ size' = size /\ request' = [addr |-> addr, isWrite |-> isWrite]
  BY DEF Request
<1>3. request'.addr = addr /\ request'.isWrite = isWrite
  BY <1>2
<1>4. Asked' = asked
  BY <1>2, <1>3 DEF Asked
<1>5. Right(x, asked, isWrite)
  BY <1>1, IOsRight
<1>6. DOMAIN x = 1 .. Len(x) /\ Len(x) \in Nat
  BY <1>5, Sequence DEF Right
<1> DEFINE beyond == {k \in DOMAIN x : x[k].place.off >= blocksPerDisk}
<1>7. failed' = (beyond # {}) /\ (beyond = {} => issued' = x)
  BY DEF Request, enqueue
<1> QED BY <1>1, <1>2, <1>3, <1>4, <1>5, <1>6, <1>7

-----------------------------------------------------------------------------
\* The places that a list reads, or writes.
LEMMA PlacesOf ==
    ASSUME NEW x, NEW blocks, NEW isWrite, Right(x, blocks, isWrite), NEW k \in 1 .. Len(x)
    PROVE  x[k] = IF x[k].isWrite = TRUE THEN Write(x[k].place) ELSE Read(x[k].place)
<1>1. PICK p : x[k] \in {Read(p), Write(p)}
  BY DEF Right
<1> QED BY <1>1, ReadWrite

\* A write puts each block into its places and changes its parity once, however
\* it is split; a read takes one copy of each block: at every level, on arrays of
\* any number of disks, with any chunk and request size.
THEOREM WritesAreComplete == Spec => []TouchesExactlyWhatWasAsked
<1>1. Init => TouchesExactlyWhatWasAsked
  BY DEF Init, TouchesExactlyWhatWasAsked
<1>2. ASSUME TypeInv, TouchesExactlyWhatWasAsked, [Next]_vars PROVE TouchesExactlyWhatWasAsked'
  <2>1. CASE UNCHANGED vars
    BY <1>2, <2>1 DEF TouchesExactlyWhatWasAsked, Asked, Touched, PlacesAt, vars
  <2>2. CASE Next
    <3>1. PICK addr \in 0 .. RandRange - 1 \cup {off}, isWrite \in BOOLEAN : Request(addr, isWrite)
      BY <2>2 DEF Next
    <3> DEFINE x == PhysicalIOs(addr, isWrite)
               asked == addr .. addr + size - 1
               T(w) == {k \in 1 .. Len(x) : x[k].isWrite = w}
               At(indices) == {x[k].place : k \in indices}
    <3> SUFFICES ASSUME ~failed' PROVE TouchesExactlyWhatWasAsked'
      BY DEF TouchesExactlyWhatWasAsked
    <3>2. /\ array' = array /\ size' = size /\ request'.isWrite = isWrite /\ Asked' = asked
          /\ Right(x, asked, isWrite) /\ DOMAIN x = 1 .. Len(x) /\ issued' = x
      BY <1>2, <3>1, Requested
    <3> HIDE DEF x, asked
    <3>3. \A k \in 1 .. Len(x) : x[k] = IF x[k].isWrite = TRUE THEN Write(x[k].place) ELSE Read(x[k].place)
      BY <3>2, PlacesOf
    <3>4. ASSUME isWrite
          PROVE  /\ At(T(TRUE)) = UNION {Copies(array, b) \cup ParityOf(array, b) : b \in asked}
                 /\ \A j, k \in T(TRUE) : j # k => x[j].place # x[k].place
      <4>1. WritesRight(x, asked)
        BY <3>2, <3>4 DEF Right
      <4>2. \A p : p \in At(T(TRUE)) <=> In(Write(p), x)
        BY <3>3, ReadWrite DEF In
      <4>3. \A p : In(Write(p), x) <=> \E b \in asked : p \in Copies(array, b) \cup ParityOf(array, b)
        BY <4>1 DEF WritesRight, Changed
      <4>4. ASSUME NEW j \in T(TRUE), NEW k \in T(TRUE), x[j].place = x[k].place PROVE j = k
        <5>1. x[j] = Write(x[j].place) /\ x[k] = Write(x[j].place)
          BY <3>3, <4>4
        <5> QED BY <4>1, <5>1 DEF WritesRight
      <4>5. At(T(TRUE)) = UNION {Copies(array, b) \cup ParityOf(array, b) : b \in asked}
        <5> HIDE DEF At, T
        <5> QED BY <4>2, <4>3
      <4> QED BY <4>4, <4>5
    <3>5. ASSUME ~isWrite
          PROVE  /\ Len(x) = size /\ T(TRUE) = {}
                 /\ \A b \in asked : At(T(FALSE)) \cap Copies(array, b) # {}
      <4>1. Len(x) = size /\ \A j \in 1 .. Len(x) : x[j].isWrite = FALSE
        BY <3>2, <3>5 DEF Right, ReadsRight
      <4>2. T(TRUE) = {} /\ T(FALSE) = 1 .. Len(x)
        BY <4>1
      <4>3. ASSUME NEW b \in asked PROVE At(T(FALSE)) \cap Copies(array, b) # {}
        <5>1. PICK j \in 1 .. Len(x) : x[j].place \in Copies(array, b)
          BY <3>2 DEF Right
        <5> QED BY <4>2, <5>1
      <4> QED BY <4>1, <4>2, <4>3
    <3>6. Touched(TRUE)' = T(TRUE) /\ Touched(FALSE)' = T(FALSE)
      BY <3>2 DEF Touched
    <3>7. PlacesAt(Touched(TRUE))' = At(T(TRUE)) /\ PlacesAt(Touched(FALSE))' = At(T(FALSE))
      BY <3>2, <3>6 DEF PlacesAt
    <3> HIDE DEF T, At
    <3>8. CASE isWrite
      <4>1. /\ PlacesAt(Touched(TRUE))'
                 = UNION {Copies(array', b) \cup ParityOf(array', b) : b \in Asked'}
            /\ \A j, k \in Touched(TRUE)' : j # k => issued'[j].place # issued'[k].place
        BY <3>2, <3>4, <3>6, <3>7, <3>8
      <4> QED BY <3>2, <3>8, <4>1 DEF TouchesExactlyWhatWasAsked
    <3>9. CASE ~isWrite
      <4>1. /\ Len(issued') = size' /\ Touched(TRUE)' = {}
            /\ \A b \in Asked' : PlacesAt(Touched(FALSE))' \cap Copies(array', b) # {}
        BY <3>2, <3>5, <3>6, <3>7, <3>9
      <4> QED BY <3>2, <3>9, <4>1 DEF TouchesExactlyWhatWasAsked
    <3> QED BY <3>8, <3>9
  <2> QED BY <1>2, <2>1, <2>2
<1> QED BY <1>1, <1>2, Typing, PTL DEF Spec


-----------------------------------------------------------------------------
\* Whatever piece of a stripe is written, and whichever way of computing its
\* parity is the cheaper one: what the parity follows from has been read before
\* the parity is written.
THEOREM ParitiesAreComputable == Spec => []ParityCanBeComputed
<1>1. Init => ParityCanBeComputed
  BY DEF Init, ParityCanBeComputed
<1>2. ASSUME TypeInv, ParityCanBeComputed, [Next]_vars PROVE ParityCanBeComputed'
  <2>1. CASE UNCHANGED vars
    BY <1>2, <2>1 DEF ParityCanBeComputed, Asked, Touched, PlacesAt, RowOf, vars
  <2>2. CASE Next
    <3>1. PICK addr \in 0 .. RandRange - 1 \cup {off}, isWrite \in BOOLEAN : Request(addr, isWrite)
      BY <2>2 DEF Next
    <3> DEFINE x == PhysicalIOs(addr, isWrite)
               asked == addr .. addr + size - 1
               Earlier(k) == {x[j].place : j \in {i \in 1 .. Len(x) : x[i].isWrite = FALSE /\ i < k}}
               Row(b) == RowOf(b)
    <3>2. /\ array' = array /\ request'.isWrite = isWrite /\ Asked' = asked
          /\ Right(x, asked, isWrite) /\ DOMAIN x = 1 .. Len(x) /\ (~failed' => issued' = x)
      BY <1>2, <3>1, Requested
    <3> HIDE DEF x, asked
    <3> SUFFICES ASSUME ~failed', isWrite PROVE ParityCanBeComputed'
      BY <3>2 DEF ParityCanBeComputed
    <3>3. issued' = x /\ WritesRight(x, asked)
      BY <3>2 DEF Right
    <3>4. ASSUME NEW b \in asked, NEW k \in 1 .. Len(x), x[k].isWrite = TRUE,
                 {x[k].place} = ParityOf(array, b)
          PROVE  \/ \A c \in Row(b) \ asked : Copies(array, c) \subseteq Earlier(k)
                 \/ /\ ParityOf(array, b) \subseteq Earlier(k)
                    /\ \A c \in Row(b) \cap asked : Copies(array, c) \subseteq Earlier(k)
      <4>1. x[k] = Write(x[k].place)
        BY <3>2, <3>4, PlacesOf
      <4>2. Computable(x, k, b, asked)
        BY <3>3, <3>4, <4>1 DEF WritesRight
      <4>3. ASSUME NEW q, ReadAt(x, q, k) PROVE q \in Earlier(k)
        <5>1. PICK i \in 1 .. Len(x) : i < k /\ x[i] = Read(q)
          BY <4>3 DEF ReadAt
        <5>2. x[i].place = q /\ x[i].isWrite = FALSE
          BY <5>1, ReadWrite
        <5> QED BY <5>1, <5>2
      <4> HIDE DEF Earlier
      <4> QED BY <4>2, <4>3 DEF Computable
    <3>5. \A b : RowOf(b)' = Row(b)
      BY <3>2 DEF RowOf
    <3> HIDE DEF Row
    <3>6. \A k : PlacesAt({j \in Touched(FALSE) : j < k})' = Earlier(k)
      BY <3>2, <3>3 DEF PlacesAt, Touched
    <3>7. Touched(TRUE)' = {k \in 1 .. Len(x) : x[k].isWrite = TRUE}
      BY <3>2, <3>3 DEF Touched
    <3> HIDE DEF Earlier
    <3> SUFFICES ASSUME NEW b \in asked, NEW k \in Touched(TRUE)', {issued'[k].place} = ParityOf(array', b)
                 PROVE  \/ \A c \in RowOf(b)' \ Asked' :
                              Copies(array', c) \subseteq PlacesAt({j \in Touched(FALSE) : j < k})'
                        \/ /\ ParityOf(array', b) \subseteq PlacesAt({j \in Touched(FALSE) : j < k})'
                           /\ \A c \in RowOf(b)' \cap Asked' :
                                 Copies(array', c) \subseteq PlacesAt({j \in Touched(FALSE) : j < k})'
      BY <3>2 DEF ParityCanBeComputed
    <3>8. k \in 1 .. Len(x) /\ x[k].isWrite = TRUE /\ {x[k].place} = ParityOf(array, b)
      BY <3>2, <3>3, <3>7
    <3>9. \/ \A c \in Row(b) \ asked : Copies(array, c) \subseteq Earlier(k)
          \/ /\ ParityOf(array, b) \subseteq Earlier(k)
             /\ \A c \in Row(b) \cap asked : Copies(array, c) \subseteq Earlier(k)
      BY <3>4, <3>8
    <3>10. RowOf(b)' = Row(b) /\ PlacesAt({j \in Touched(FALSE) : j < k})' = Earlier(k)
      BY <3>5, <3>6
    <3>11. CASE \A c \in Row(b) \ asked : Copies(array, c) \subseteq Earlier(k)
      BY <3>2, <3>10, <3>11
    <3>12. CASE /\ ParityOf(array, b) \subseteq Earlier(k)
                /\ \A c \in Row(b) \cap asked : Copies(array, c) \subseteq Earlier(k)
      BY <3>2, <3>10, <3>12
    <3> QED BY <3>9, <3>11, <3>12
  <2> QED BY <1>2, <2>1, <2>2
<1> QED BY <1>1, <1>2, Typing, PTL DEF Spec

-----------------------------------------------------------------------------
\* The rows of chunks that a disk has room for, and those that begin on it.
LEMMA Rows ==
    ASSUME IsArray(array)
    PROVE  /\ wholeRows \in Nat /\ begunRows \in Nat /\ blocksPerDisk \in Nat
           /\ array.chunkSize * wholeRows <= blocksPerDisk
           /\ blocksPerDisk <= array.chunkSize * begunRows
<1> DEFINE C == array.chunkSize
           D == blocksPerDisk
           E == D + C - 1
           k == D \div C
           l == E \div C
<1>1. C \in Nat \ {0} /\ D \in Nat
  BY RaidAssumption DEF IsArray, blocksPerDisk
<1>2. E \in Nat /\ E = D + C - 1
  BY <1>1
<1>3. wholeRows = k /\ begunRows = l
  BY DEF wholeRows, begunRows
<1> HIDE DEF C, D, E
<1>4. k \in Nat /\ D % C \in 0 .. C - 1 /\ D = C * k + (D % C)
  <2>1. k \in Nat
    BY <1>1, DivNat
  <2>2. D % C \in 0 .. C - 1 /\ D = C * (D \div C) + (D % C)
    BY <1>1, DivModFact
  <2> QED BY <2>1, <2>2
<1>5. l \in Nat /\ E % C \in 0 .. C - 1 /\ E = C * l + (E % C)
  <2>1. l \in Nat
    BY <1>1, <1>2, DivNat
  <2>2. E % C \in 0 .. C - 1 /\ E = C * (E \div C) + (E % C)
    BY <1>1, <1>2, DivModFact
  <2> QED BY <2>1, <2>2
<1> HIDE DEF k, l
<1>6. C * k \in Int /\ C * l \in Int
  BY <1>1, <1>4, <1>5
<1>7. C * k <= D /\ D <= C * l
  BY <1>1, <1>2, <1>4, <1>5, <1>6
<1> QED BY <1>1, <1>3, <1>4, <1>5, <1>7 DEF C, D

\* The number of disks that data is dealt out to, and the offset of a block.
LEMMA Dealt ==
    ASSUME IsArray(array), NEW b \in Nat
    PROVE  /\ dataDisks \in Nat \ {0} /\ Copies(array, b) # {}
           /\ \A p \in Copies(array, b) : p.off = StripeOff(array, dataDisks, b) /\ p.off \in Nat
<1> DEFINE n == dataDisks
<1>1. array.level \in {0, 1, 4, 5}
  BY DEF IsArray
<1>2. n \in Nat \ {0}
  <2>1. array.level \in {4, 5} => array.numDisks - 1 \in Nat \ {0}
    BY ParityDisk
  <2> QED BY <1>1, <2>1 DEF IsArray, Pairs, dataDisks
<1>3. Copies(array, b) # {} /\ \A p \in Copies(array, b) : p.off = StripeOff(array, n, b)
  <2>1. CASE array.level = 0
    <3>1. Copies(array, b) = {bmap0(array, b)} /\ n = array.numDisks
      BY <2>1, CopiesAre DEF dataDisks
    <3> HIDE DEF n
    <3> QED BY <3>1 DEF bmap0, Place
  <2>2. CASE array.level = 1
    <3>1. Copies(array, b) = {bmap1(array, b)[1], bmap1(array, b)[2]} /\ n = Pairs(array)
      BY <2>2, CopiesAre DEF dataDisks
    <3> HIDE DEF n
    <3> QED BY <3>1 DEF bmap1, Place
  <2>3. CASE array.level \in {4, 5}
    <3>1. Copies(array, b) = {bmap(array, b)} /\ n = array.numDisks - 1
      BY <2>3, CopiesAre DEF dataDisks
    <3> HIDE DEF n
    <3> QED BY <3>1 DEF bmap, Place
  <2> QED BY <1>1, <2>1, <2>2, <2>3
<1> HIDE DEF n
<1>4. StripeOff(array, n, b) \in Nat
  BY <1>2, CellTypes
<1> QED BY <1>2, <1>3, <1>4 DEF n

\* The blocks of the whole rows lie on the disks, those behind the last row do
\* not.
LEMMA CopiesFit ==
    ASSUME IsArray(array), NEW b \in Nat
    PROVE  /\ BlocksIn(wholeRows) \in Nat /\ BlocksIn(begunRows) \in Nat
           /\ b < BlocksIn(wholeRows) => ~Beyond(b)
           /\ b >= BlocksIn(begunRows) => Beyond(b)
<1> DEFINE C == array.chunkSize
           n == dataDisks
           D == blocksPerDisk
           o == StripeOff(array, n, b)
           Fits(k) == o < C * k <=> b < C * (n * k)
<1>1. C \in Nat \ {0} /\ n \in Nat \ {0} /\ o \in Nat
  <2>1. n \in Nat \ {0}
    BY Dealt
  <2> HIDE DEF n
  <2> QED BY <2>1, CellTypes DEF IsArray
<1>2. \A k \in Nat : Fits(k)
  <2> HIDE DEF n
  <2> QED BY <1>1, BlocksFillTheDisks
<1>3. Beyond(b) <=> o >= D
  BY Dealt DEF Beyond
<1>4. PICK k \in Nat, l \in Nat : /\ k = wholeRows /\ l = begunRows
                                  /\ D \in Nat /\ C * k <= D /\ D <= C * l
  BY Rows
<1>5. BlocksIn(wholeRows) = C * (n * k) /\ BlocksIn(begunRows) = C * (n * l)
  BY <1>4 DEF BlocksIn
<1>6. Fits(k) /\ Fits(l)
  BY <1>2
<1> HIDE DEF C, n, D, o
<1>7. C * k \in Int /\ C * l \in Int /\ C * (n * k) \in Nat /\ C * (n * l) \in Nat
  BY <1>1
<1>8. b < C * (n * k) => ~(o >= D)
  BY <1>1, <1>4, <1>6, <1>7
<1>9. b >= C * (n * l) => o >= D
  BY <1>1, <1>4, <1>6, <1>7
<1> QED BY <1>3, <1>5, <1>7, <1>8, <1>9

\* RAID 4 and 5: a stripe is one row of chunks.
LEMMA StripesFit ==
    ASSUME Parity, NEW b \in Nat, NEW c \in Nat, StripeOf(array, b) = StripeOf(array, c), NEW k \in Nat
    PROVE  b < BlocksIn(k) <=> c < BlocksIn(k)
<1> DEFINE C == array.chunkSize
           n == array.numDisks - 1
           B == blocksInStripe(array)
<1>1. n \in Nat \ {0} /\ C \in Nat \ {0} /\ B = n * C /\ B \in Nat \ {0} /\ BlocksIn(k) = C * (n * k)
  BY ParityDisk, Stripes DEF Parity, IsArray, blocksInStripe, BlocksIn, dataDisks
<1>2. b \div B = c \div B
  BY DEF StripeOf
<1> HIDE DEF C, n, B
<1>3. BlocksIn(k) = B * k
  BY <1>1
<1> QED BY <1>1, <1>2, <1>3, DivLess

\* A request that touches a place beyond the disks asks for a block, or on RAID 4
\* and 5 writes to a stripe with a block, that lies there.
LEMMA FailsFor ==
    ASSUME IsArray(array), NEW asked \in SUBSET Nat, NEW isWrite \in BOOLEAN,
           NEW x, Right(x, asked, isWrite), NEW k \in 1 .. Len(x), x[k].place.off >= blocksPerDisk
    PROVE  \E b \in asked : Beyond(b) \/ (isWrite /\ \E c \in StripeMates(b) : Beyond(c))
<1>1. PICK p : x[k] \in {Read(p), Write(p)} /\ Close(p, asked)
  BY DEF Right
<1>2. p.off >= blocksPerDisk
  BY <1>1, ReadWrite
<1>3. CASE ~isWrite
  BY <1>3 DEF Right, ReadsRight, Beyond
<1>4. CASE array.level \notin {4, 5}
  BY <1>1, <1>2, <1>4 DEF Close, Beyond
<1>5. CASE isWrite /\ array.level \in {4, 5}
  <2>1. PICK b \in asked, c \in Nat : StripeOf(array, c) = StripeOf(array, b) /\ p.off = bmap(array, c).off
    BY <1>1, <1>5 DEF Close, Near
  <2>2. bmap(array, c) \in Copies(array, c)
    BY <1>5, CopiesAre
  <2>3. Beyond(c)
    BY <1>2, <2>1, <2>2 DEF Beyond
  <2>4. c \in StripeMates(b)
    <3>1. b \in Nat /\ c \in Nat
      BY <2>1
    <3> DEFINE s == StripeOf(array, b)
    <3>2. s \in Nat /\ StripeOf(array, c) = s
      BY <1>5, <2>1, <3>1, Stripes
    <3>3. c \in s * blocksInStripe(array) .. s * blocksInStripe(array) + blocksInStripe(array) - 1
      <4> HIDE DEF s
      <4> QED BY <1>5, <3>1, <3>2, Stripes
    <3> QED BY <1>5, <3>3 DEF StripeMates
  <2> QED BY <1>5, <2>1, <2>3, <2>4
<1> QED BY <1>3, <1>4, <1>5

\* No stripe of a whole row has a block beyond the disks.
LEMMA MatesFit ==
    ASSUME IsArray(array), NEW b \in Nat, NEW c \in StripeMates(b), Beyond(c)
    PROVE  b >= BlocksIn(wholeRows)
<1>1. array.level \in {4, 5}
  BY DEF StripeMates
<1> DEFINE s == StripeOf(array, b)
           m == BlocksIn(wholeRows)
<1>2. s \in Nat /\ blocksInStripe(array) \in Nat \ {0}
  BY <1>1, Stripes
<1>3. c \in s * blocksInStripe(array) .. s * blocksInStripe(array) + blocksInStripe(array) - 1
  BY <1>1 DEF StripeMates
<1>4. c \in Nat
  <2> DEFINE first == s * blocksInStripe(array)
  <2>1. first \in Nat
    BY <1>2
  <2> HIDE DEF first
  <2> QED BY <1>2, <1>3, <2>1 DEF first
<1>5. StripeOf(array, c) = s
  <2> HIDE DEF s
  <2> QED BY <1>1, <1>2, <1>3, <1>4, Stripes
<1>6. m \in Nat /\ ~(c < m)
  BY <1>4, CopiesFit
<1>7. b < m <=> c < m
  BY <1>1, <1>4, <1>5, Rows, StripesFit DEF Parity
<1> HIDE DEF m
<1>8. b >= m
  BY <1>6, <1>7
<1> QED BY <1>8 DEF m

-----------------------------------------------------------------------------
\* When a request touches a place beyond the disks.
LEMMA BeyondCapacity ==
    ASSUME IsArray(array), size \in Nat, NEW addr \in Nat, NEW asked, asked = addr .. addr + size - 1,
           NEW isWrite \in BOOLEAN, NEW x, Right(x, asked, isWrite),
           NEW fails \in BOOLEAN, fails <=> \E k \in 1 .. Len(x) : x[k].place.off >= blocksPerDisk
    PROVE  /\ fails => size > 0 /\ addr + size > BlocksIn(wholeRows)
           /\ size > 0 /\ addr + size > BlocksIn(begunRows) => fails
           /\ (\E b \in asked : Beyond(b)) => fails
           /\ fails => \E b \in asked : Beyond(b) \/ (isWrite /\ \E c \in StripeMates(b) : Beyond(c))
<1> DEFINE whole == BlocksIn(wholeRows)
           begun == BlocksIn(begunRows)
<1>0. asked \in SUBSET Nat /\ whole \in Nat /\ begun \in Nat
  BY CopiesFit
<1>1. fails => \E b \in asked : Beyond(b) \/ (isWrite /\ \E c \in StripeMates(b) : Beyond(c))
  BY <1>0, FailsFor
<1>2. ASSUME NEW b \in asked, Beyond(b) PROVE fails
  <2>1. PICK k \in 1 .. Len(x) : x[k].place \in Copies(array, b)
    BY DEF Right
  <2>2. b \in Nat
    BY <1>0
  <2>3. x[k].place.off >= blocksPerDisk
    BY <1>2, <2>1, <2>2, Dealt DEF Beyond
  <2> QED BY <2>3
<1>3. fails => size > 0 /\ addr + size > whole
  <2> SUFFICES ASSUME fails PROVE size > 0 /\ addr + size > whole
    OBVIOUS
  <2>1. PICK b \in asked : Beyond(b) \/ (isWrite /\ \E c \in StripeMates(b) : Beyond(c))
    BY <1>1
  <2>2. b \in Nat
    BY <1>0
  <2>3. b >= whole
    <3>1. CASE Beyond(b)
      <4>1. ~(b < whole)
        BY <2>2, <3>1, CopiesFit
      <4> HIDE DEF whole
      <4> QED BY <1>0, <2>2, <4>1
    <3>2. CASE \E c \in StripeMates(b) : Beyond(c)
      BY <2>2, <3>2, MatesFit
    <3> QED BY <2>1, <3>1, <3>2
  <2> HIDE DEF whole
  <2> QED BY <1>0, <2>2, <2>3
<1>4. size > 0 /\ addr + size > begun => fails
  <2> SUFFICES ASSUME size > 0, addr + size > begun PROVE fails
    OBVIOUS
  <2> DEFINE b == addr + size - 1
  <2>1. b \in asked /\ b \in Nat
    OBVIOUS
  <2>2. b >= begun
    <3> HIDE DEF begun
    <3> QED BY <1>0
  <2> HIDE DEF b
  <2>3. Beyond(b)
    BY <2>1, <2>2, CopiesFit
  <2> QED BY <1>2, <2>1, <2>3
<1> QED BY <1>1, <1>2, <1>3, <1>4

\* disk.enqueue's assertion ends no request that keeps to whole rows of chunks,
\* and every one that goes behind the last row, at any level and with any chunk;
\* in a torn row it is the blocks asked for that decide, and on RAID 4 and 5
\* those of the stripes that are written to.
THEOREM AssertionMeansCapacity == Spec => []EndsOnlyBeyondCapacity
<1>1. Init => EndsOnlyBeyondCapacity
  BY DEF Init, EndsOnlyBeyondCapacity
<1>2. ASSUME TypeInv, EndsOnlyBeyondCapacity, [Next]_vars PROVE EndsOnlyBeyondCapacity'
  <2>1. CASE UNCHANGED vars
    <3>1. /\ array' = array /\ size' = size /\ request' = request /\ count' = count /\ failed' = failed
      BY <2>1 DEF vars
    <3> QED BY <1>2, <3>1 DEF EndsOnlyBeyondCapacity, Asked, Beyond, StripeMates, BlocksIn, dataDisks,
                              wholeRows, begunRows
  <2>2. CASE Next
    <3>1. PICK addr \in 0 .. RandRange - 1 \cup {off}, isWrite \in BOOLEAN : Request(addr, isWrite)
      BY <2>2 DEF Next
    <3> DEFINE x == PhysicalIOs(addr, isWrite)
               asked == addr .. addr + size - 1
    <3>2. /\ array' = array /\ size' = size /\ request'.addr = addr /\ request'.isWrite = isWrite
          /\ Asked' = asked
          /\ IsArray(array) /\ size \in Nat /\ addr \in Nat /\ Right(x, asked, isWrite)
          /\ failed' <=> \E k \in 1 .. Len(x) : x[k].place.off >= blocksPerDisk
      BY <1>2, <3>1, Requested
    <3>3. failed' \in BOOLEAN
      BY <3>1 DEF Request, enqueue
    <3> HIDE DEF x, asked
    <3>4. /\ failed' => size > 0 /\ addr + size > BlocksIn(wholeRows)
          /\ size > 0 /\ addr + size > BlocksIn(begunRows) => failed'
          /\ (\E b \in asked : Beyond(b)) => failed'
          /\ failed' => \E b \in asked : Beyond(b) \/ (isWrite /\ \E c \in StripeMates(b) : Beyond(c))
      BY <3>2, <3>3, BeyondCapacity DEF asked
    <3>5. /\ BlocksIn(wholeRows)' = BlocksIn(wholeRows) /\ BlocksIn(begunRows)' = BlocksIn(begunRows)
          /\ \A b : Beyond(b)' = Beyond(b) /\ StripeMates(b)' = StripeMates(b)
      BY <3>2 DEF BlocksIn, dataDisks, wholeRows, begunRows, Beyond, StripeMates
    <3> QED BY <3>2, <3>4, <3>5 DEF EndsOnlyBeyondCapacity
  <2> QED BY <1>2, <2>1, <2>2
<1> QED BY <1>1, <1>2, Typing, PTL DEF Spec
=============================================================================
