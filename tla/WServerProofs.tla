--------------------------- MODULE WServerProofs ---------------------------
(***************************************************************************)
(* What the queue operators of wserver.c compute for every queue, and the  *)
(* invariants of the server, for every number of workers and connections,  *)
(* every -b and both schedulers.  The rounds of sortQueue are followed by  *)
(* induction, with the set of the numbers a statement holds for in the     *)
(* place of a predicate.                                                   *)
(***************************************************************************)
EXTENDS WServer, SequenceTheorems, WellFoundedInduction, TLAPS, FiniteSetTheorems

-----------------------------------------------------------------------------
\* What these proofs need to know of numbers.

\* A set of numbers that is not empty has a smallest one.
LEMMA SmallestNumber ==
    ASSUME NEW T, T \subseteq Nat, T # {}
    PROVE  \E x \in T : \A y \in T : x <= y
<1> DEFINE R == {r \in Nat \X Nat : r[1] < r[2]}
<1>1. IsWellFoundedOn(R, Nat)
  BY NatLessThanWellFounded DEF OpToRel
<1>2. PICK x \in T : \A y \in T : ~(<<y, x>> \in R)
  <2> HIDE DEF R
  <2> QED BY <1>1, WFMin
<1>3. ASSUME NEW y \in T PROVE ~(y < x)
  <2> DEFINE r == <<y, x>>
  <2>1. r \in Nat \X Nat
    OBVIOUS
  <2>2. r \notin R
    BY <1>2
  <2> QED BY <2>1, <2>2
<1> QED BY <1>3

\* A set with 0 and the successor of each of its numbers has all numbers.
LEMMA SetInduction ==
    ASSUME NEW P, 0 \in P, \A n \in Nat : n \in P => n + 1 \in P
    PROVE  Nat \subseteq P
<1> DEFINE T == Nat \ P
<1> SUFFICES ASSUME T # {} PROVE FALSE
  OBVIOUS
<1>1. PICK x \in T : \A y \in T : x <= y
  <2> HIDE DEF T
  <2>1. T \subseteq Nat
    BY DEF T
  <2> QED BY <2>1, SmallestNumber
<1>2. x \in Nat /\ x # 0 /\ x - 1 \in Nat /\ (x - 1) + 1 = x
  OBVIOUS
<1>3. x - 1 \notin T
  BY <1>1, <1>2
<1> QED BY <1>2, <1>3

-----------------------------------------------------------------------------
\* Among m + 1 numbers there is a last smallest one.
LEMMA LastSmallest ==
    ASSUME NEW m \in Nat, NEW v, \A j \in 1..(m + 1) : v[j] \in Int
    PROVE  \E i \in 1..(m + 1) : \A j \in 1..(m + 1) :
               v[i] <= v[j] /\ (v[i] = v[j] => j <= i)
<1> DEFINE Best(i, n) == \A j \in 1..(n + 1) : v[i] <= v[j] /\ (v[i] = v[j] => j <= i)
           P == {n \in Nat : n <= m => \E i \in 1..(n + 1) : Best(i, n)}
<1>1. 0 \in P
  OBVIOUS
<1>2. ASSUME NEW n \in Nat, n \in P PROVE n + 1 \in P
  <2>1. SUFFICES ASSUME n + 1 <= m PROVE \E i \in 1..(n + 2) : Best(i, n + 1)
    OBVIOUS
  <2>2. PICK i \in 1..(n + 1) : Best(i, n)
    BY <1>2, <2>1
  <2>3. v[i] \in Int /\ v[n + 2] \in Int
    BY <2>1
  <2>4. CASE v[n + 2] <= v[i]
    BY <2>1, <2>2, <2>3, <2>4
  <2>5. CASE v[i] < v[n + 2]
    BY <2>1, <2>2, <2>3, <2>5
  <2> QED BY <2>3, <2>4, <2>5
<1>3. Nat \subseteq P
  <2> HIDE DEF P
  <2> QED BY <1>1, <1>2, SetInduction
<1> QED BY <1>3

\* minIndex finds a position of a smallest file among those it looks at.
LEMMA MinIndexFinds ==
    ASSUME NEW q, NEW sizes, NEW sortedIndex \in Nat,
           \A j \in 1..(sortedIndex + 1) : sizes[q[j]] \in Int
    PROVE  /\ minIndex(q, sizes, sortedIndex) \in 1..(sortedIndex + 1)
           /\ \A j \in 1..(sortedIndex + 1) :
                 sizes[q[minIndex(q, sizes, sortedIndex)]] <= sizes[q[j]]
<1> DEFINE v == [j \in 1..(sortedIndex + 1) |-> sizes[q[j]]]
<1>1. \A j \in 1..(sortedIndex + 1) : v[j] \in Int
  OBVIOUS
<1>2. \E i \in 1..(sortedIndex + 1) : \A j \in 1..(sortedIndex + 1) :
               v[i] <= v[j] /\ (v[i] = v[j] => j <= i)
  <2> HIDE DEF v
  <2> QED BY <1>1, LastSmallest
<1>3. \E i \in 1..(sortedIndex + 1) : \A j \in 1..(sortedIndex + 1) :
            /\ sizes[q[i]] <= sizes[q[j]]
            /\ sizes[q[i]] = sizes[q[j]] => j <= i
  BY <1>2
<1> QED BY <1>3 DEF minIndex

\* What insertMinToRear does to each position.
LEMMA InsertMoves ==
    ASSUME NEW S, NEW q \in Seq(S), NEW i \in 1..Len(q)
    PROVE  /\ insertMinToRear(q, i) \in Seq(S)
           /\ Len(insertMinToRear(q, i)) = Len(q)
           /\ \A j \in 1..Len(q) : insertMinToRear(q, i)[j] =
                 IF j = Len(q) THEN q[i] ELSE IF j < i THEN q[j] ELSE q[j + 1]
<1> DEFINE a == SubSeq(q, 1, i - 1)
           b == SubSeq(q, i + 1, Len(q))
<1>1. Len(q) \in Nat /\ \A j \in 1..Len(q) : q[j] \in S
  BY ElementOfSeq, LenProperties
<1>2. /\ a \in Seq(S) /\ Len(a) = i - 1
      /\ \A j \in 1..(i - 1) : a[j] = q[j]
  BY <1>1, SubSeqProperties
<1>3. /\ b \in Seq(S) /\ Len(b) = Len(q) - i
      /\ \A j \in 1..(Len(q) - i) : b[j] = q[i + j]
  BY <1>1, SubSeqProperties
<1> HIDE DEF a, b
<1> DEFINE c == a \o b
<1>4. /\ c \in Seq(S) /\ Len(c) = Len(q) - 1
      /\ \A j \in 1..(Len(q) - 1) : c[j] = IF j < i THEN q[j] ELSE q[j + 1]
  <2>1. /\ c \in Seq(S) /\ Len(c) = Len(a) + Len(b)
        /\ \A j \in 1..(Len(a) + Len(b)) : c[j] =
               IF j <= Len(a) THEN a[j] ELSE b[j - Len(a)]
    BY <1>2, <1>3, ConcatProperties
  <2> HIDE DEF c
  <2>2. Len(c) = Len(q) - 1
    BY <1>1, <1>2, <1>3, <2>1
  <2>3. ASSUME NEW j \in 1..(Len(q) - 1)
        PROVE  c[j] = IF j < i THEN q[j] ELSE q[j + 1]
    <3> DEFINE m == Len(a)
               n == Len(b)
    <3>1. /\ m = i - 1 /\ n = Len(q) - i /\ m \in Nat /\ n \in Nat /\ j \in 1..(m + n)
          /\ c[j] = IF j <= m THEN a[j] ELSE b[j - m]
      <4>1. m = i - 1 /\ n = Len(q) - i
        BY <1>2, <1>3
      <4> HIDE DEF m, n
      <4>2. m \in Nat /\ n \in Nat /\ j \in 1..(m + n)
        BY <1>1, <4>1
      <4> QED BY <2>1, <4>1, <4>2 DEF m, n
    <3> HIDE DEF m, n
    <3>2. CASE j < i
      <4>1. j \in 1..(i - 1) /\ j <= m
        BY <1>1, <3>1, <3>2
      <4> QED BY <1>2, <3>1, <3>2, <4>1
    <3>3. CASE ~(j < i)
      <4>1. ~(j <= m) /\ j - m = j - (i - 1) /\ j - (i - 1) \in 1..(Len(q) - i)
        BY <1>1, <3>1, <3>3
      <4>2. i + (j - (i - 1)) = j + 1
        BY <1>1
      <4> QED BY <1>3, <3>1, <3>3, <4>1, <4>2
    <3> QED BY <3>2, <3>3
  <2> QED BY <2>1, <2>2, <2>3
<1>5. insertMinToRear(q, i) = Append(c, q[i])
  BY DEF insertMinToRear, RemoveAt, a, b
<1> HIDE DEF c
<1>6. /\ Append(c, q[i]) \in Seq(S) /\ Len(Append(c, q[i])) = Len(c) + 1
      /\ Append(c, q[i])[Len(c) + 1] = q[i]
      /\ \A j \in 1..Len(c) : Append(c, q[i])[j] = c[j]
  BY <1>1, <1>4, AppendProperties
<1>7. ASSUME NEW j \in 1..Len(q)
      PROVE  Append(c, q[i])[j] = IF j = Len(q) THEN q[i] ELSE IF j < i THEN q[j] ELSE q[j + 1]
  BY <1>1, <1>4, <1>6
<1> QED BY <1>1, <1>4, <1>5, <1>6, <1>7

\* The rounds of sortQueue, its first m of n.
Round(q, sizes, n, k) == insertMinToRear(q, minIndex(q, sizes, n - k))
IsRounds(f, list, sizes, n, m) ==
    f = [k \in 0..m |-> IF k = 0 THEN list ELSE Round(f[k - 1], sizes, n, k)]

\* They are well defined.
LEMMA RoundsExist ==
    ASSUME NEW list, NEW sizes, NEW n \in Nat
    PROVE  \E f : IsRounds(f, list, sizes, n, n)
<1> DEFINE P == {m \in Nat : \E f : IsRounds(f, list, sizes, n, m)}
<1>1. 0 \in P
  <2> DEFINE f == [k \in 0..0 |-> list]
  <2>1. IsRounds(f, list, sizes, n, 0)
    BY DEF IsRounds
  <2> QED BY <2>1
<1>2. ASSUME NEW m \in Nat, m \in P PROVE m + 1 \in P
  <2>1. PICK f : IsRounds(f, list, sizes, n, m)
    BY <1>2
  <2> DEFINE g == [k \in 0..(m + 1) |-> IF k = m + 1 THEN Round(f[m], sizes, n, m + 1) ELSE f[k]]
  <2>2. ASSUME NEW k \in 0..(m + 1)
        PROVE  g[k] = IF k = 0 THEN list ELSE Round(g[k - 1], sizes, n, k)
    <3>1. CASE k = m + 1
      BY <3>1
    <3>2. CASE k # m + 1
      <4>1. k \in 0..m /\ (k # 0 => k - 1 \in 0..m)
        BY <3>2
      <4>2. f[k] = IF k = 0 THEN list ELSE Round(f[k - 1], sizes, n, k)
        BY <2>1, <4>1 DEF IsRounds
      <4>3. g[k] = f[k] /\ (k # 0 => g[k - 1] = f[k - 1])
        BY <3>2, <4>1
      <4> QED BY <4>2, <4>3
    <3> QED BY <3>1, <3>2
  <2>3. IsRounds(g, list, sizes, n, m + 1)
    BY <2>2 DEF IsRounds
  <2> HIDE DEF g
  <2> QED BY <2>3
<1>3. n \in P
  <2> HIDE DEF P
  <2> QED BY <1>1, <1>2, SetInduction
<1> QED BY <1>3

\* The last k positions of q are sorted and hold nothing larger than the others.
LastSorted(q, sizes, k) ==
    /\ \A i, j \in (Len(q) - k + 1)..Len(q) : i < j => sizes[q[i]] <= sizes[q[j]]
    /\ \A i \in 1..(Len(q) - k) : \A j \in (Len(q) - k + 1)..Len(q) :
          sizes[q[j]] <= sizes[q[i]]

\* r holds what q holds, and twice only what q holds twice.
SameElements(q, r) ==
    /\ Len(r) = Len(q)
    /\ \A i \in 1..Len(q) : \E j \in 1..Len(q) : r[j] = q[i]
    /\ \A i \in 1..Len(q) : \E j \in 1..Len(q) : q[j] = r[i]
    /\ (\A i, j \in 1..Len(q) : i # j => q[i] # q[j])
          => \A i, j \in 1..Len(q) : i # j => r[i] # r[j]

LEMMA SameElementsTransitive ==
    ASSUME NEW q, NEW r, NEW s, SameElements(q, r), SameElements(r, s)
    PROVE  SameElements(q, s)
<1> DEFINE n == Len(q)
<1>1. Len(r) = n /\ Len(s) = n
  BY DEF SameElements
<1>2. ASSUME NEW i \in 1..n PROVE \E j \in 1..n : s[j] = q[i]
  <2>1. PICK h \in 1..n : r[h] = q[i]
    BY DEF SameElements
  <2>2. PICK j \in 1..n : s[j] = r[h]
    BY <1>1 DEF SameElements
  <2> QED BY <2>1, <2>2
<1>3. ASSUME NEW i \in 1..n PROVE \E j \in 1..n : q[j] = s[i]
  <2>1. PICK h \in 1..n : r[h] = s[i]
    BY <1>1 DEF SameElements
  <2>2. PICK j \in 1..n : q[j] = r[h]
    BY DEF SameElements
  <2> QED BY <2>1, <2>2
<1>4. (\A i, j \in 1..n : i # j => q[i] # q[j]) => \A i, j \in 1..n : i # j => s[i] # s[j]
  BY <1>1 DEF SameElements
<1> QED BY <1>1, <1>2, <1>3, <1>4 DEF SameElements

LEMMA InsertKeeps ==
    ASSUME NEW S, NEW q \in Seq(S), NEW i \in 1..Len(q)
    PROVE  SameElements(q, insertMinToRear(q, i))
<1> DEFINE r == insertMinToRear(q, i)
           n == Len(q)
<1>1. n \in Nat
  BY LenProperties
<1>2. /\ Len(r) = n
      /\ \A j \in 1..n : r[j] = IF j = n THEN q[i] ELSE IF j < i THEN q[j] ELSE q[j + 1]
  BY InsertMoves
<1> HIDE DEF r
<1>3. ASSUME NEW k \in 1..n PROVE \E j \in 1..n : r[j] = q[k]
  <2>1. CASE k < i
    BY <1>1, <1>2, <2>1
  <2>2. CASE k = i
    BY <1>1, <1>2, <2>2
  <2>3. CASE k > i
    <3>1. k - 1 \in 1..n /\ k - 1 # n /\ ~(k - 1 < i) /\ (k - 1) + 1 = k
      BY <1>1, <2>3
    <3> QED BY <1>2, <3>1
  <2> QED BY <1>1, <2>1, <2>2, <2>3
<1>4. ASSUME NEW k \in 1..n PROVE \E j \in 1..n : q[j] = r[k]
  BY <1>1, <1>2
<1>5. ASSUME \A j, k \in 1..n : j # k => q[j] # q[k], NEW j \in 1..n, NEW k \in 1..n, j # k
      PROVE  r[j] # r[k]
  <2> DEFINE From(x) == IF x = n THEN i ELSE IF x < i THEN x ELSE x + 1
  <2>1. From(j) \in 1..n /\ From(k) \in 1..n /\ From(j) # From(k)
    BY <1>1, <1>5
  <2>2. r[j] = q[From(j)] /\ r[k] = q[From(k)]
    BY <1>2
  <2> HIDE DEF From
  <2> QED BY <1>5, <2>1, <2>2
<1> QED BY <1>2, <1>3, <1>4, <1>5 DEF SameElements, r

\* What a round of sortQueue does: one more position is sorted.
LEMMA RoundSorts ==
    ASSUME NEW S, NEW q \in Seq(S), NEW sizes, \A c \in S : sizes[c] \in Int,
           NEW k \in 1..Len(q), LastSorted(q, sizes, k - 1)
    PROVE  LET r == insertMinToRear(q, minIndex(q, sizes, Len(q) - k)) IN
           r \in Seq(S) /\ SameElements(q, r) /\ LastSorted(r, sizes, k)
<1> DEFINE n == Len(q)
           m == minIndex(q, sizes, n - k)
           r == insertMinToRear(q, m)
<1>1. n \in Nat /\ \A j \in 1..n : q[j] \in S /\ sizes[q[j]] \in Int
  BY ElementOfSeq, LenProperties
<1>2. n - k \in Nat /\ (n - k) + 1 \in 1..n /\ \A j \in 1..((n - k) + 1) : sizes[q[j]] \in Int
  BY <1>1
<1>3. m \in 1..((n - k) + 1) /\ \A j \in 1..((n - k) + 1) : sizes[q[m]] <= sizes[q[j]]
  <2> HIDE DEF n
  <2> QED BY <1>2, MinIndexFinds
<1> HIDE DEF m
<1>4. m \in 1..n
  BY <1>1, <1>3
<1>5. /\ r \in Seq(S) /\ Len(r) = n /\ SameElements(q, r)
      /\ \A j \in 1..n : r[j] = IF j = n THEN q[m] ELSE IF j < m THEN q[j] ELSE q[j + 1]
  BY <1>4, InsertMoves, InsertKeeps
<1> HIDE DEF r
<1>6. /\ \A i, j \in (n - k + 2)..n : i < j => sizes[q[i]] <= sizes[q[j]]
      /\ \A i \in 1..(n - k + 1) : \A j \in (n - k + 2)..n : sizes[q[j]] <= sizes[q[i]]
  <2>1. n - (k - 1) + 1 = n - k + 2 /\ n - (k - 1) = n - k + 1
    BY <1>1
  <2> QED BY <2>1 DEF LastSorted
<1> HIDE DEF n
<1>7. ASSUME NEW i \in (n - k + 1)..(n - 1) PROVE r[i] = q[i + 1] /\ i + 1 \in (n - k + 2)..n
  BY <1>1, <1>3, <1>5
<1>8. r[n] = q[m] /\ n \in Nat \ {0}
  BY <1>1, <1>4, <1>5
<1>9. ASSUME NEW i \in (n - k + 1)..n, NEW j \in (n - k + 1)..n, i < j
      PROVE  sizes[r[i]] <= sizes[r[j]]
  <2>1. i \in (n - k + 1)..(n - 1) /\ i \in Int /\ j \in Int
    BY <1>1, <1>9
  <2>2. CASE j = n
    BY <1>3, <1>6, <1>7, <1>8, <2>1, <2>2
  <2>3. CASE j # n
    <3>1. j \in (n - k + 1)..(n - 1) /\ i + 1 < j + 1
      BY <1>1, <1>9, <2>1, <2>3
    <3> QED BY <1>6, <1>7, <2>1, <3>1
  <2> QED BY <2>2, <2>3
<1>10. ASSUME NEW i \in 1..(n - k), NEW j \in (n - k + 1)..n
       PROVE  sizes[r[j]] <= sizes[r[i]]
  <2>1. PICK h \in 1..(n - k + 1) : r[i] = q[h]
    BY <1>1, <1>5
  <2>2. CASE j = n
    BY <1>3, <1>8, <2>1, <2>2
  <2>3. CASE j # n
    <3>1. j \in (n - k + 1)..(n - 1)
      BY <1>1, <2>3
    <3> QED BY <1>6, <1>7, <2>1, <3>1
  <2> QED BY <2>2, <2>3
<1>11. LastSorted(r, sizes, k)
  BY <1>5, <1>9, <1>10 DEF LastSorted
<1> QED BY <1>5, <1>11 DEF r, m, n

\* sortQueue keeps what is in the queue and sorts it by size.
THEOREM SortQueueSorts ==
    ASSUME NEW S, NEW list \in Seq(S), NEW sizes, \A c \in S : sizes[c] \in Int
    PROVE  LET sorted == sortQueue(list, sizes) IN
           /\ sorted \in Seq(S) /\ SameElements(list, sorted)
           /\ \A i, j \in 1..Len(sorted) : i < j => sizes[sorted[i]] <= sizes[sorted[j]]
<1> DEFINE n == Len(list)
           rounds == CHOOSE f : IsRounds(f, list, sizes, n, n)
<1>1. sortQueue(list, sizes) = rounds[n]
  BY DEF sortQueue, IsRounds, Round
<1>2. n \in Nat
  BY LenProperties
<1>3. rounds = [k \in 0..n |-> IF k = 0 THEN list ELSE Round(rounds[k - 1], sizes, n, k)]
  <2> HIDE DEF n
  <2>1. IsRounds(rounds, list, sizes, n, n)
    BY <1>2, RoundsExist
  <2> HIDE DEF rounds
  <2> QED BY <2>1 DEF IsRounds
<1> HIDE DEF rounds
<1> DEFINE Good(k) == /\ rounds[k] \in Seq(S) /\ SameElements(list, rounds[k])
                      /\ LastSorted(rounds[k], sizes, k)
           P == {k \in Nat : k <= n => Good(k)}
<1>4. 0 \in P
  <2>1. rounds[0] = list
    BY <1>2, <1>3
  <2>2. SameElements(list, list)
    BY DEF SameElements
  <2>3. LastSorted(list, sizes, 0)
    BY <1>2 DEF LastSorted
  <2> QED BY <2>1, <2>2, <2>3
<1>5. ASSUME NEW k \in Nat, k \in P PROVE k + 1 \in P
  <2>1. SUFFICES ASSUME k + 1 <= n PROVE Good(k + 1)
    OBVIOUS
  <2> DEFINE q == rounds[k]
             r == rounds[k + 1]
  <2>2. Good(k) /\ k \in 0..n /\ k + 1 \in 1..n /\ (k + 1) - 1 = k
    BY <1>2, <1>5, <2>1
  <2>3. r = Round(q, sizes, n, k + 1)
    <3> HIDE DEF n
    <3>1. k + 1 \in 0..n /\ k + 1 # 0
      BY <1>2, <2>2
    <3> QED BY <1>3, <2>2, <3>1
  <2>4. q \in Seq(S) /\ Len(q) = n /\ SameElements(list, q) /\ LastSorted(q, sizes, (k + 1) - 1)
    BY <2>2 DEF SameElements
  <2>5. r \in Seq(S) /\ SameElements(q, r) /\ LastSorted(r, sizes, k + 1)
    <3> HIDE DEF q
    <3> QED BY <2>2, <2>3, <2>4, RoundSorts DEF Round
  <2>6. SameElements(list, r)
    BY <2>4, <2>5, SameElementsTransitive
  <2> QED BY <2>5, <2>6
<1>6. Good(n)
  <2>1. n \in P
    <3> HIDE DEF P, n
    <3> QED BY <1>2, <1>4, <1>5, SetInduction
  <2> QED BY <1>2, <2>1
<1>7. LET s == rounds[n] IN
        /\ Len(s) = n
        /\ \A i, j \in 1..n : i < j => sizes[s[i]] <= sizes[s[j]]
  <2>1. Len(rounds[n]) = n /\ n - n + 1 = 1
    BY <1>2, <1>6 DEF SameElements
  <2> QED BY <1>6, <2>1 DEF LastSorted
<1> QED BY <1>1, <1>6, <1>7

-----------------------------------------------------------------------------
\* The schedulers put the connection into the queue and nothing else; SFF sorts
\* the queue.
LEMMA SchedulersInsert ==
    ASSUME NEW q \in Seq(Connections), NEW l \in Nat, Len(q) < l,
           NEW sizes \in [Connections -> Int], NEW c \in Connections
    PROVE  /\ FIFO(q, l, sizes, c) = Append(q, c)
           /\ LET r == SFF(q, l, sizes, c) IN
              /\ r \in Seq(Connections) /\ SameElements(Append(q, c), r)
              /\ \A i, j \in 1..Len(r) : i < j => sizes[r[i]] <= sizes[r[j]]
<1> DEFINE a == Append(q, c)
<1>1. Len(q) \in Nat /\ a \in Seq(Connections) /\ Len(a) = Len(q) + 1
  BY LenProperties, AppendProperties
<1>2. Inserted(q, l, c) = a
  BY <1>1 DEF Inserted
<1> HIDE DEF a
<1>3. \A d \in Connections : sizes[d] \in Int
  OBVIOUS
<1>4. LET s == sortQueue(a, sizes) IN
      /\ s \in Seq(Connections) /\ SameElements(a, s)
      /\ \A i, j \in 1..Len(s) : i < j => sizes[s[i]] <= sizes[s[j]]
  BY <1>1, <1>3, SortQueueSorts
<1>5. CASE Len(a) > 1
  <2>1. SFF(q, l, sizes, c) = sortQueue(a, sizes)
    BY <1>2, <1>5 DEF SFF
  <2> QED BY <1>2, <1>4, <2>1 DEF FIFO, a
<1>6. CASE ~(Len(a) > 1)
  <2>1. SFF(q, l, sizes, c) = a
    BY <1>2, <1>6 DEF SFF
  <2>2. SameElements(a, a)
    BY DEF SameElements
  <2>3. \A i, j \in 1..Len(a) : ~(i < j)
    BY <1>1, <1>6
  <2> QED BY <1>1, <1>2, <2>1, <2>2, <2>3 DEF FIFO, a
<1> QED BY <1>5, <1>6

-----------------------------------------------------------------------------
\* Who is where.  As long as nobody else has unlocked it, the mutex is held by the
\* thread that is inside; as long as it is not broken, there is one at most, and a
\* worker that pops has the head of the queue.  The waiters of the condition
\* variables are waiting, and main has a connection in its hands exactly between
\* accept and the next one.
HolderInside ==
    /\ main = "inside" => owner = TheMain
    /\ \A w \in Workers : pc[w] \in {"inside", "popping"} => owner = w

OneInside ==
    /\ main = "inside" => \A w \in Workers : pc[w] \notin {"inside", "popping"}
    /\ \A v, w \in Workers :
          pc[v] \in {"inside", "popping"} /\ pc[w] \in {"inside", "popping"} => v = w
    /\ \A w \in Workers : pc[w] = "popping" => queue # <<>> /\ request[w] = Head(queue)

Control ==
    /\ exclusion = "kept" => HolderInside
    /\ ~Broken => OneInside
    /\ full # {} => main = "waiting"
    /\ \A w \in sleep : pc[w] = "waiting"
    /\ IF main = "accept" THEN conn = None ELSE conn = accepted /\ conn \in Connections
    /\ \A w \in Workers : pc[w] \in {"popping", "handling"} => request[w] \in Connections

IInv == TypeOK /\ Control

LEMMA InitType == Init => IInv
<1> SUFFICES ASSUME Init PROVE IInv
  OBVIOUS
<1> USE WServerAssumption
<1>1. limit \in Nat \ {0}
  BY DEF Init, EffectiveLimit
<1>2. queue \in Seq(Connections) /\ Len(queue) <= limit
  BY <1>1 DEF Init
<1>3. TypeOK
  BY <1>1, <1>2 DEF Init, TypeOK, TheMain, MainPlaces, WorkerPlaces, Connections, Exclusions
<1>4. Control
  BY DEF Init, Control, HolderInside, OneInside, TheMain
<1> QED BY <1>3, <1>4 DEF IInv

LEMMA SizesAreIntegers == TypeOK => filesize \in [Connections -> Int]
<1> SUFFICES ASSUME filesize \in [Connections -> Sizes \cup {-1}]
             PROVE  filesize \in [Connections -> Int]
  BY DEF TypeOK
<1>1. ASSUME NEW c \in Connections PROVE filesize[c] \in Int
  <2>1. filesize[c] \in Sizes \/ filesize[c] = -1
    OBVIOUS
  <2>2. Sizes \subseteq Int /\ -1 \in Int
    BY WServerAssumption
  <2> QED BY <2>1, <2>2
<1>2. filesize = [c \in Connections |-> filesize[c]]
  OBVIOUS
<1> QED BY <1>1, <1>2

\* A signal takes one of the waiters.
LEMMA SignalTakesOne ==
    ASSUME NEW W, NEW V \in AfterSignal(W)
    PROVE  V \subseteq W /\ (W # {} => \E t \in W : V = W \ {t})
BY DEF AfterSignal

\* A mutex that is broken stays so.
LEMMA BrokenStays == [Next]_vars /\ ~Broken' => ~Broken
BY DEF Next, MainStep, WorkerStep, MainAccepts, MainRefuses, MainViews, MainLocks,
       MainWaits, MainSchedules, WorkerLocks, WorkerSleeps, WorkerReadsHead,
       WorkerAdvances, WorkerCloses, WorkerUnlocksAgain, Enters, Broken, vars

\* Whoever enters without breaking the mutex is alone.
LEMMA EntersAlone ==
    ASSUME NEW t, Enters(t), ~Broken'
    PROVE  /\ main # "inside" /\ \A w \in Workers : pc[w] \notin {"inside", "popping"}
           /\ exclusion' = exclusion
<1>1. Inside = {} /\ exclusion' = exclusion
  BY DEF Enters, Broken
<1>2. main # "inside"
  BY <1>1 DEF Inside
<1> QED BY <1>1, <1>2 DEF Inside

LEMMA NextType == IInv /\ [Next]_vars => IInv'
<1> SUFFICES ASSUME IInv, [Next]_vars PROVE IInv'
  OBVIOUS
<1> USE WServerAssumption DEF TheMain
<1> USE DEF IInv, TypeOK, Control, HolderInside, OneInside, options, clients
<1>stays. ~Broken' => ~Broken
  BY BrokenStays
<1> USE DEF Broken
<1>0. /\ Len(queue) \in Nat /\ \A c \in Connections : c \in Int
      /\ 0..MaxConnections \subseteq Int /\ 1..MaxConnections = Connections
  BY LenProperties DEF Connections
<1>1. CASE MainAccepts
  BY <1>0, <1>1 DEF MainAccepts, MainPlaces
<1>2. CASE MainRefuses
  BY <1>2 DEF MainRefuses, MainPlaces
<1>3. CASE MainViews
  BY <1>3 DEF MainViews, MainPlaces
<1>4. CASE MainLocks
  <2>1. TypeOK'
    BY <1>4 DEF MainLocks, Enters, MainPlaces, Exclusions
  <2>2. ASSUME ~Broken' PROVE OneInside' /\ (exclusion' = "kept" => HolderInside')
    <3>1. \A w \in Workers : pc[w] \notin {"inside", "popping"}
      BY <1>4, <2>2, EntersAlone DEF MainLocks
    <3> QED BY <1>4, <3>1 DEF MainLocks, Enters
  <2> QED BY <1>4, <2>1, <2>2 DEF MainLocks
<1>5. CASE MainWaits
  BY <1>5 DEF MainWaits, MainPlaces
<1>6. CASE MainSchedules
  <2>1. /\ Len(queue) < limit /\ limit \in Nat /\ conn \in Connections
        /\ filesize \in [Connections -> Int]
    <3>1. Len(queue) <= limit /\ Len(queue) # limit /\ limit \in Nat
      BY <1>6 DEF MainSchedules, isFull
    <3>2. conn \in Connections
      BY <1>6 DEF MainSchedules
    <3>3. filesize \in [Connections -> Int]
      BY SizesAreIntegers
    <3> QED BY <1>0, <3>1, <3>2, <3>3
  <2>2. SameElements(Append(queue, conn), queue') /\ queue' \in Seq(Connections)
    <3>1. /\ FIFO(queue, limit, filesize, conn) = Append(queue, conn)
          /\ SFF(queue, limit, filesize, conn) \in Seq(Connections)
          /\ SameElements(Append(queue, conn), SFF(queue, limit, filesize, conn))
      BY <2>1, SchedulersInsert
    <3>2. SameElements(Append(queue, conn), Append(queue, conn))
      BY DEF SameElements
    <3>3. Append(queue, conn) \in Seq(Connections)
      BY <2>1, AppendProperties
    <3> QED BY <1>6, <3>1, <3>2, <3>3 DEF MainSchedules
  <2>3. Len(queue') = Len(queue) + 1
    BY <2>1, <2>2, AppendProperties DEF SameElements
  <2>4. sleep' \subseteq sleep
    BY <1>6, SignalTakesOne DEF MainSchedules
  <2>5. Len(queue') <= limit
    BY <1>0, <2>1, <2>3
  <2>6. TypeOK'
    BY <1>6, <2>2, <2>4, <2>5 DEF MainSchedules, MainPlaces
  <2>7. Control'
    BY <1>6, <2>4 DEF MainSchedules
  <2> QED BY <2>6, <2>7
<1>7. ASSUME NEW w \in Workers, WorkerStep(w) PROVE IInv'
  <2>1. CASE WorkerLocks(w)
    <3>1. TypeOK'
      BY <2>1 DEF WorkerLocks, Enters, Goto, WorkerPlaces, Exclusions
    <3>2. ASSUME ~Broken' PROVE OneInside' /\ (exclusion' = "kept" => HolderInside')
      <4>1. main # "inside" /\ \A v \in Workers : pc[v] \notin {"inside", "popping"}
        BY <2>1, <3>2, EntersAlone DEF WorkerLocks
      <4> QED BY <2>1, <4>1 DEF WorkerLocks, Enters, Goto
    <3> QED BY <2>1, <3>1, <3>2 DEF WorkerLocks, Goto
  <2>2. CASE WorkerSleeps(w)
    BY <2>2 DEF WorkerSleeps, Goto, WorkerPlaces
  <2>3. CASE WorkerReadsHead(w)
    <3>1. queue # <<>> /\ Head(queue) \in Connections
      BY <2>3, HeadTailProperties DEF WorkerReadsHead, isEmpty
    <3>2. full' \subseteq full
      BY <2>3, SignalTakesOne DEF WorkerReadsHead
    <3> QED BY <2>3, <3>1, <3>2 DEF WorkerReadsHead, Goto, WorkerPlaces
  <2>4. CASE WorkerAdvances(w)
    <3>1. queue # <<>> /\ Head(queue) \in Connections
          /\ Tail(queue) \in Seq(Connections) /\ Len(Tail(queue)) = Len(queue) - 1
      BY <2>4, HeadTailProperties DEF WorkerAdvances, isEmpty
    <3>2. Len(Tail(queue)) <= limit
      BY <1>0, <3>1
    <3>3. TypeOK'
      BY <2>4, <3>1, <3>2 DEF WorkerAdvances, Goto, WorkerPlaces
    <3>4. Control'
      BY <2>4, <3>1 DEF WorkerAdvances, Goto
    <3> QED BY <3>3, <3>4
  <2>5. CASE WorkerCloses(w)
    BY <2>5 DEF WorkerCloses, Goto, WorkerPlaces
  <2>6. CASE WorkerUnlocksAgain(w)
    BY <2>6 DEF WorkerUnlocksAgain, Goto, WorkerPlaces, Exclusions
  <2> QED BY <1>7, <2>1, <2>2, <2>3, <2>4, <2>5, <2>6 DEF WorkerStep
<1>8. CASE UNCHANGED vars
  BY <1>8 DEF vars
<1> QED BY <1>1, <1>2, <1>3, <1>4, <1>5, <1>6, <1>7, <1>8 DEF Next, MainStep

\* A queue never exceeds its limit, and a worker that handles a request has one.
THEOREM TypeCorrect == Spec => []TypeOK
<1>1. IInv => TypeOK
  BY DEF IInv
<1> QED BY InitType, NextType, <1>1, PTL DEF Spec

\* Before a second unlock has freed the mutex of another thread, whoever is inside
\* holds it, so nobody can enter.
LEMMA EntersKept ==
    ASSUME IInv, exclusion = "kept", NEW t, Enters(t)
    PROVE  exclusion' # "broken"
<1> USE WServerAssumption
<1>1. owner = None /\ HolderInside
  BY DEF Enters, IInv, Control
<1>2. main # "inside" /\ \A w \in Workers : pc[w] \notin {"inside", "popping"}
  BY <1>1 DEF HolderInside, TheMain
<1>3. Inside = {}
  BY <1>2 DEF Inside
<1> QED BY <1>3 DEF Enters

\* Mutual exclusion: two threads are inside together only after a second unlock
\* of a worker has freed the mutex under another thread.
THEOREM OnlySecondUnlockBreaks == Spec => BrokenOnlyBySecondUnlock
<1>1. ASSUME IInv, Next, exclusion = "kept" PROVE exclusion' # "broken"
  <2>1. CASE MainLocks
    BY <1>1, <2>1, EntersKept DEF MainLocks
  <2>2. ASSUME NEW w \in Workers, WorkerLocks(w) PROVE exclusion' # "broken"
    BY <1>1, <2>2, EntersKept DEF WorkerLocks
  <2>3. CASE MainAccepts \/ MainRefuses \/ MainViews \/ MainWaits \/ MainSchedules
    BY <1>1, <2>3 DEF MainAccepts, MainRefuses, MainViews, MainWaits, MainSchedules
  <2>4. ASSUME NEW w \in Workers,
               \/ WorkerSleeps(w) \/ WorkerReadsHead(w) \/ WorkerAdvances(w)
               \/ WorkerCloses(w) \/ WorkerUnlocksAgain(w)
        PROVE  exclusion' # "broken"
    BY <1>1, <2>4 DEF WorkerSleeps, WorkerReadsHead, WorkerAdvances, WorkerCloses,
                      WorkerUnlocksAgain
  <2> QED BY <1>1, <2>1, <2>2, <2>3, <2>4 DEF Next, MainStep, WorkerStep
<1>2. IInv /\ [Next]_vars => [exclusion' = "broken" => exclusion # "kept"]_vars
  BY <1>1
<1> QED BY InitType, NextType, <1>2, PTL DEF Spec, BrokenOnlyBySecondUnlock

-----------------------------------------------------------------------------
\* A worker has a connection it neither finds in the queue nor has closed.
Handles(w, c) == pc[w] = "handling" /\ request[w] = c

\* EveryConnectionOnce without cardinalities, which holds while the mutex is not
\* broken: an accepted connection is in one of the four places, and the places
\* exclude each other.
Once ==
    /\ \A i \in 1..Len(queue) : queue[i] \in 1..accepted
    /\ \A c \in Connections : c \notin 1..accepted => closes[c] = 0
    /\ \A w \in Workers : pc[w] = "handling" => request[w] \in 1..accepted
    /\ \A i, j \in 1..Len(queue) : i # j => queue[i] # queue[j]
    /\ \A i \in 1..Len(queue) : queue[i] # conn /\ closes[queue[i]] = 0
    /\ main # "accept" => closes[conn] = 0
    /\ \A w \in Workers : pc[w] = "handling" =>
          /\ request[w] # conn /\ closes[request[w]] = 0
          /\ \A i \in 1..Len(queue) : queue[i] # request[w]
          /\ \A v \in Workers : v # w /\ pc[v] = "handling" => request[v] # request[w]
    /\ \A c \in 1..accepted :
          \/ conn = c
          \/ \E i \in 1..Len(queue) : queue[i] = c
          \/ \E w \in Workers : Handles(w, c)
          \/ closes[c] = 1

LEMMA InitOnce == Init => Once
<1> SUFFICES ASSUME Init PROVE Once
  OBVIOUS
<1>1. Len(queue) = 0 /\ 1..accepted = {}
  BY DEF Init
<1>2. 1..Len(queue) = {}
  BY <1>1
<1> QED BY <1>1, <1>2 DEF Init, Once, Connections

\* The new connection joins the queue.
LEMMA QueueAfterSchedule ==
    ASSUME IInv, MainSchedules
    PROVE  /\ queue' \in Seq(Connections) /\ Len(queue') = Len(queue) + 1
           /\ \A i \in 1..Len(queue') :
                 queue'[i] = conn \/ \E j \in 1..Len(queue) : queue'[i] = queue[j]
           /\ \E i \in 1..Len(queue') : queue'[i] = conn
           /\ \A j \in 1..Len(queue) : \E i \in 1..Len(queue') : queue'[i] = queue[j]
           /\ (/\ \A i, j \in 1..Len(queue) : i # j => queue[i] # queue[j]
               /\ \A i \in 1..Len(queue) : queue[i] # conn)
                 => \A i, j \in 1..Len(queue') : i # j => queue'[i] # queue'[j]
           /\ scheduler = "FIFO" => queue' = Append(queue, conn)
           /\ scheduler = "SFF" =>
                 \A i, j \in 1..Len(queue') : i < j => filesize[queue'[i]] <= filesize[queue'[j]]
<1>1. /\ Len(queue) \in Nat /\ limit \in Nat /\ conn \in Connections
      /\ Len(queue) <= limit /\ Len(queue) # limit
      /\ queue \in Seq(Connections) /\ filesize \in [Connections -> Int]
  <2>1. TypeOK /\ filesize \in [Connections -> Int]
    BY SizesAreIntegers DEF IInv
  <2>2. Len(queue) \in Nat /\ limit \in Nat
    BY <2>1, LenProperties DEF TypeOK
  <2>3. conn \in Connections /\ Len(queue) # limit
    BY DEF IInv, Control, MainSchedules, isFull
  <2> QED BY <2>1, <2>2, <2>3 DEF TypeOK
<1>2. Len(queue) < limit
  BY <1>1
<1> DEFINE a == Append(queue, conn)
<1>3. /\ a \in Seq(Connections) /\ Len(a) = Len(queue) + 1
      /\ \A i \in 1..Len(queue) : a[i] = queue[i]
      /\ a[Len(queue) + 1] = conn
  BY <1>1, AppendProperties
<1>4. SameElements(a, a)
  BY DEF SameElements
<1>5. /\ queue' \in Seq(Connections) /\ SameElements(a, queue')
      /\ scheduler = "FIFO" => queue' = a
      /\ scheduler = "SFF" =>
            \A i, j \in 1..Len(queue') : i < j => filesize[queue'[i]] <= filesize[queue'[j]]
  BY <1>1, <1>2, <1>3, <1>4, SchedulersInsert DEF MainSchedules
<1> HIDE DEF a
<1>6. ASSUME NEW i \in 1..Len(a)
      PROVE  a[i] = conn \/ \E j \in 1..Len(queue) : a[i] = queue[j]
  <2>1. i \in 1..Len(queue) \/ i = Len(queue) + 1
    BY <1>1, <1>3
  <2> QED BY <1>3, <2>1
<1>7. Len(queue') = Len(a)
  BY <1>5 DEF SameElements
<1>8. \A i \in 1..Len(a) : \E j \in 1..Len(a) : queue'[j] = a[i]
  BY <1>5 DEF SameElements
<1>9. \A i \in 1..Len(a) : \E j \in 1..Len(a) : a[j] = queue'[i]
  BY <1>5 DEF SameElements
<1>10. ASSUME \A i, j \in 1..Len(queue) : i # j => queue[i] # queue[j],
              \A i \in 1..Len(queue) : queue[i] # conn
       PROVE  \A i, j \in 1..Len(queue') : i # j => queue'[i] # queue'[j]
  <2>1. ASSUME NEW i \in 1..Len(a), NEW j \in 1..Len(a), i # j PROVE a[i] # a[j]
    <3>1. i \in 1..Len(queue) \/ i = Len(queue) + 1
      BY <1>1, <1>3
    <3>2. j \in 1..Len(queue) \/ j = Len(queue) + 1
      BY <1>1, <1>3
    <3> QED BY <1>3, <1>10, <2>1, <3>1, <3>2
  <2> QED BY <1>5, <1>7, <2>1 DEF SameElements
<1>11. \E i \in 1..Len(queue') : queue'[i] = conn
  <2>1. Len(queue) + 1 \in 1..Len(a)
    BY <1>1, <1>3
  <2>2. PICK j \in 1..Len(a) : queue'[j] = a[Len(queue) + 1]
    BY <1>8, <2>1
  <2> QED BY <1>3, <1>7, <2>2
<1>12. \A j \in 1..Len(queue) : \E i \in 1..Len(queue') : queue'[i] = queue[j]
  <2>1. \A j \in 1..Len(queue) : j \in 1..Len(a) /\ a[j] = queue[j]
    BY <1>1, <1>3
  <2> QED BY <1>7, <1>8, <2>1
<1>13. \A i \in 1..Len(queue') :
          queue'[i] = conn \/ \E j \in 1..Len(queue) : queue'[i] = queue[j]
  BY <1>6, <1>7, <1>9
<1> QED BY <1>3, <1>5, <1>7, <1>10, <1>11, <1>12, <1>13 DEF a

LEMMA NextOnce == IInv /\ IInv' /\ (~Broken => Once) /\ [Next]_vars => (~Broken' => Once')
<1> SUFFICES ASSUME IInv, IInv', Once, [Next]_vars, ~Broken, ~Broken' PROVE Once'
  BY BrokenStays
<1> USE DEF options, clients
<1>0. /\ accepted \in Nat /\ Connections = 1..MaxConnections /\ MaxConnections \in Nat
      /\ accepted <= MaxConnections /\ Len(queue) \in Nat /\ None \notin Nat
      /\ \A c \in Connections : c \in Nat
      /\ closes \in [Connections -> Nat] /\ request \in [Workers -> Connections \cup {None}]
      /\ pc \in [Workers -> WorkerPlaces] /\ queue \in Seq(Connections)
  <2>1. /\ accepted \in Nat /\ accepted <= MaxConnections
        /\ closes \in [Connections -> Nat] /\ request \in [Workers -> Connections \cup {None}]
        /\ pc \in [Workers -> WorkerPlaces] /\ queue \in Seq(Connections)
    BY DEF IInv, TypeOK
  <2>2. /\ Connections = 1..MaxConnections /\ MaxConnections \in Nat /\ None \notin Nat
        /\ \A c \in Connections : c \in Nat
    BY WServerAssumption DEF Connections
  <2> QED BY <2>1, <2>2, LenProperties
<1>1. CASE MainAccepts
  <2>1. /\ accepted' = accepted + 1 /\ conn' = accepted + 1 /\ accepted < MaxConnections
        /\ main' = "reading" /\ main = "accept"
        /\ UNCHANGED <<queue, pc, request, closes>>
    BY <1>1 DEF MainAccepts
  <2>2. conn' \in Connections /\ conn' \notin 1..accepted /\ 1..accepted' = 1..accepted \cup {conn'}
    BY <1>0, <2>1
  <2>3. conn = None
    BY <2>1 DEF IInv, Control
  <2>4. \A c \in 1..accepted : c # None
    BY <1>0
  <2> QED BY <2>1, <2>2, <2>3, <2>4, SMTT(30) DEF Once, Handles
<1>2. CASE MainRefuses
  <2>1. conn \in Connections /\ conn = accepted /\ main # "accept"
    BY <1>2 DEF MainRefuses, IInv, Control
  <2>2. /\ conn' = None /\ main' = "accept"
        /\ \A c \in Connections : closes'[c] = IF c = conn THEN closes[c] + 1 ELSE closes[c]
        /\ UNCHANGED <<queue, pc, request, accepted>>
    BY <1>0, <1>2, <2>1 DEF MainRefuses
  <2>3. \A c \in 1..accepted : c # None /\ c \in Connections
    BY <1>0
  <2>4. conn \in 1..accepted
    BY <1>0, <2>1
  <2>5. /\ closes'[conn] = 1
        /\ \A c \in Connections : c # conn => closes'[c] = closes[c]
    BY <2>1, <2>2 DEF Once
  <2>6. \A i \in 1..Len(queue) :
           queue[i] \in 1..accepted /\ queue[i] # conn' /\ closes'[queue[i]] = 0
    BY <2>2, <2>3, <2>5 DEF Once
  <2>7. \A c \in Connections : c \notin 1..accepted => closes'[c] = 0
    BY <2>4, <2>5 DEF Once
  <2>8. \A w \in Workers : pc[w] = "handling" =>
           request[w] \in 1..accepted /\ request[w] # conn' /\ closes'[request[w]] = 0
    BY <2>2, <2>3, <2>5 DEF Once
  <2>9. \A c \in 1..accepted :
          \/ \E i \in 1..Len(queue) : queue[i] = c
          \/ \E w \in Workers : Handles(w, c)
          \/ closes'[c] = 1
    BY <2>3, <2>5 DEF Once
  <2> QED BY <2>2, <2>6, <2>7, <2>8, <2>9 DEF Once, Handles
<1>3. CASE MainViews
  BY <1>3 DEF MainViews, Once, Handles
<1>4. CASE MainLocks
  BY <1>4 DEF MainLocks, Once, Handles
<1>5. CASE MainWaits
  BY <1>5 DEF MainWaits, Once, Handles
<1>6. CASE MainSchedules
  <2>1. conn \in Connections /\ conn = accepted /\ main # "accept" /\ conn \in 1..accepted
    BY <1>0, <1>6 DEF MainSchedules, IInv, Control
  <2>2. conn' = None /\ main' = "accept" /\ UNCHANGED <<pc, request, accepted, closes>>
    BY <1>6 DEF MainSchedules
  <2>3. \A c \in 1..accepted : c # None
    BY <1>0
  <2>4. /\ \A i \in 1..Len(queue') :
              queue'[i] = conn \/ \E j \in 1..Len(queue) : queue'[i] = queue[j]
        /\ \E i \in 1..Len(queue') : queue'[i] = conn
        /\ \A j \in 1..Len(queue) : \E i \in 1..Len(queue') : queue'[i] = queue[j]
        /\ \A i, j \in 1..Len(queue') : i # j => queue'[i] # queue'[j]
    BY <1>6, QueueAfterSchedule DEF Once
  <2>5. \A i \in 1..Len(queue') : queue'[i] \in 1..accepted /\ closes[queue'[i]] = 0
    BY <2>1, <2>4 DEF Once
  <2>6. \A w \in Workers : pc[w] = "handling" =>
          \A i \in 1..Len(queue') : queue'[i] # request[w]
    BY <2>1, <2>4 DEF Once
  <2>7. \A c \in 1..accepted :
          \/ \E i \in 1..Len(queue') : queue'[i] = c
          \/ \E w \in Workers : Handles(w, c)
          \/ closes[c] = 1
    BY <2>4, SMTT(30) DEF Once
  <2> QED BY <2>2, <2>3, <2>4, <2>5, <2>6, <2>7 DEF Once, Handles
<1>7. ASSUME NEW w \in Workers, WorkerStep(w) PROVE Once'
  <2>1. CASE WorkerLocks(w)
    BY <1>0, <2>1 DEF WorkerLocks, Goto, Once, Handles
  <2>2. CASE WorkerSleeps(w)
    BY <1>0, <2>2 DEF WorkerSleeps, Goto, Once, Handles
  <2>3. CASE WorkerReadsHead(w)
    BY <1>0, <2>3 DEF WorkerReadsHead, Goto, Once, Handles
  <2>4. CASE WorkerAdvances(w)
    <3>1. /\ queue # <<>> /\ request[w] = Head(queue) /\ pc[w] = "popping"
          /\ \A v \in Workers : pc'[v] = IF v = w THEN "handling" ELSE pc[v]
          /\ UNCHANGED <<main, conn, request, accepted, closes>>
      BY <1>0, <2>4 DEF WorkerAdvances, Goto, IInv, Control, OneInside
    <3>2. /\ Len(queue') = Len(queue) - 1 /\ Len(queue) > 0
          /\ \A i \in 1..(Len(queue) - 1) : queue'[i] = queue[i + 1]
      BY <1>0, <2>4, <3>1, HeadTailProperties DEF WorkerAdvances
    <3>3. request[w] = queue[1] /\ 1 \in 1..Len(queue)
      BY <1>0, <3>1, <3>2
    <3> DEFINE n == Len(queue)
               m == Len(queue')
    <3>10. n \in Nat /\ m = n - 1 /\ \A i \in 1..m : queue'[i] = queue[i + 1]
      BY <1>0, <3>2
    <3>11. \A i, j \in 1..Len(queue) : i # j => queue[i] # queue[j]
      BY DEF Once
    <3> HIDE DEF n, m
    <3>12. ASSUME NEW i \in 1..m PROVE i + 1 \in 1..n /\ i + 1 # 1 /\ queue'[i] = queue[i + 1]
      BY <3>10
    <3>13. \A i \in 1..m : \E j \in 1..n : j # 1 /\ queue'[i] = queue[j]
      BY <3>12
    <3>4. \A i \in 1..Len(queue') : \E j \in 1..Len(queue) : j # 1 /\ queue'[i] = queue[j]
      BY <3>13 DEF n, m
    <3>5. \A j \in 1..Len(queue) : j # 1 => \E i \in 1..Len(queue') : queue'[i] = queue[j]
      <4>1. ASSUME NEW j \in 1..n, j # 1
            PROVE  j - 1 \in 1..m /\ queue'[j - 1] = queue[j]
        <5>1. j - 1 \in 1..m /\ (j - 1) + 1 = j
          BY <3>10, <4>1
        <5> QED BY <3>10, <5>1
      <4> QED BY <4>1 DEF n, m
    <3>6. \A i, j \in 1..Len(queue') : i # j => queue'[i] # queue'[j]
      <4>1. ASSUME NEW i \in 1..m, NEW j \in 1..m, i # j PROVE queue'[i] # queue'[j]
        <5>1. i + 1 # j + 1
          BY <3>10, <4>1
        <5> QED BY <3>11, <3>12, <5>1 DEF n
      <4> QED BY <4>1 DEF m
    <3>7. \A i \in 1..Len(queue') :
            queue'[i] \in 1..accepted /\ queue'[i] # conn /\ closes[queue'[i]] = 0
      BY <3>4 DEF Once
    <3>8. \A v \in Workers : pc'[v] = "handling" =>
             /\ request[v] \in 1..accepted
             /\ request[v] # conn /\ closes[request[v]] = 0
             /\ \A i \in 1..Len(queue') : queue'[i] # request[v]
             /\ \A u \in Workers : u # v /\ pc'[u] = "handling" => request[u] # request[v]
      <4>1. \A i \in 1..Len(queue) : i # 1 => queue[i] # request[w]
        BY <3>3, <3>11
      <4>2. \A v \in Workers : pc'[v] = "handling" =>
               /\ request[v] \in 1..accepted
               /\ request[v] # conn /\ closes[request[v]] = 0
        BY <3>1, <3>3 DEF Once
      <4>3. \A v \in Workers : pc'[v] = "handling" =>
               \A i \in 1..Len(queue') : queue'[i] # request[v]
        BY <3>1, <3>4, <4>1 DEF Once
      <4>4. \A v \in Workers : pc'[v] = "handling" =>
               \A u \in Workers : u # v /\ pc'[u] = "handling" => request[u] # request[v]
        BY <3>1, <3>3 DEF Once
      <4> QED BY <4>2, <4>3, <4>4
    <3>9. \A c \in 1..accepted :
             \/ conn = c
             \/ \E i \in 1..Len(queue') : queue'[i] = c
             \/ \E v \in Workers : pc'[v] = "handling" /\ request[v] = c
             \/ closes[c] = 1
      <4>1. ASSUME NEW c \in 1..accepted, NEW j \in 1..Len(queue), queue[j] = c
            PROVE  \/ \E i \in 1..Len(queue') : queue'[i] = c
                   \/ pc'[w] = "handling" /\ request[w] = c
        BY <3>1, <3>3, <3>5, <4>1
      <4>2. ASSUME NEW c \in 1..accepted, NEW v \in Workers, Handles(v, c)
            PROVE  pc'[v] = "handling" /\ request[v] = c
        BY <3>1, <4>2 DEF Handles
      <4> QED BY <4>1, <4>2 DEF Once
    <3> QED BY <3>1, <3>6, <3>7, <3>8, <3>9 DEF Once, Handles
  <2>5. CASE WorkerCloses(w)
    <3>1. /\ pc[w] = "handling" /\ request[w] \in Connections
          /\ \A v \in Workers : pc'[v] = IF v = w THEN "unlocking" ELSE pc[v]
          /\ \A c \in Connections : closes'[c] = IF c = request[w] THEN closes[c] + 1 ELSE closes[c]
          /\ UNCHANGED <<queue, main, conn, request, accepted>>
      BY <1>0, <2>5 DEF WorkerCloses, Goto, IInv, Control
    <3>2. \A c \in 1..accepted : c \in Connections
      BY <1>0
    <3>3. main # "accept" => conn \in Connections
      BY DEF IInv, Control
    <3>4. /\ closes'[request[w]] = 1
          /\ \A c \in Connections : c # request[w] => closes'[c] = closes[c]
      BY <3>1 DEF Once
    <3>5. \A i \in 1..Len(queue) : queue[i] # request[w] /\ closes'[queue[i]] = 0
      BY <3>1, <3>2, <3>4 DEF Once
    <3>6. \A c \in Connections : c \notin 1..accepted => closes'[c] = 0
      BY <3>1, <3>4 DEF Once
    <3>7. \A v \in Workers : pc'[v] = "handling" =>
             pc[v] = "handling" /\ v # w /\ closes'[request[v]] = 0
      BY <3>1, <3>2, <3>4 DEF Once
    <3>8. main # "accept" => closes'[conn] = 0
      BY <3>1, <3>3, <3>4 DEF Once
    <3>9. \A c \in 1..accepted :
             \/ conn = c
             \/ \E i \in 1..Len(queue) : queue[i] = c
             \/ \E v \in Workers : pc'[v] = "handling" /\ request[v] = c
             \/ closes'[c] = 1
      BY <3>1, <3>2, <3>4 DEF Once, Handles
    <3> QED BY <3>1, <3>5, <3>6, <3>7, <3>8, <3>9 DEF Once, Handles
  <2>6. CASE WorkerUnlocksAgain(w)
    BY <1>0, <2>6 DEF WorkerUnlocksAgain, Goto, Once, Handles
  <2> QED BY <1>7, <2>1, <2>2, <2>3, <2>4, <2>5, <2>6 DEF WorkerStep
<1>8. CASE UNCHANGED vars
  BY <1>8 DEF vars, Once, Handles
<1> QED BY <1>1, <1>2, <1>3, <1>4, <1>5, <1>6, <1>7, <1>8 DEF Next, MainStep

\* From the four places that exclude each other to their numbers.
LEMMA OnceCounts == IInv /\ (~Broken => Once) => EveryConnectionOnce
<1> SUFFICES ASSUME IInv, Once, NEW c \in 1..accepted
             PROVE  (IF conn = c THEN 1 ELSE 0) + Cardinality(Places(c))
                        + Cardinality(Holders(c)) + closes[c] = 1
  BY DEF EveryConnectionOnce
<1>1. /\ c \in Connections /\ closes[c] \in Nat
      /\ DOMAIN queue = 1..Len(queue)
      /\ main = "accept" => conn # c
  BY WServerAssumption, LenProperties DEF IInv, TypeOK, Control, Connections
<1>2. /\ \A i \in Places(c) : i \in 1..Len(queue) /\ queue[i] = c
      /\ \A i \in 1..Len(queue) : queue[i] = c => i \in Places(c)
      /\ \A i \in Places(c), j \in Places(c) : i = j
  BY <1>1 DEF Places, Once
<1>3. /\ \A w \in Holders(c) : w \in Workers /\ Handles(w, c)
      /\ \A w \in Workers : Handles(w, c) => w \in Holders(c)
      /\ \A v \in Holders(c), w \in Holders(c) : v = w
  BY DEF Holders, Handles, Once
<1>4. Cardinality(Places(c)) = IF Places(c) = {} THEN 0 ELSE 1
  <2>1. CASE Places(c) = {}
    BY <2>1, FS_EmptySet
  <2>2. CASE Places(c) # {}
    <3>1. PICK i : Places(c) = {i}
      BY <1>2, <2>2
    <3> QED BY <2>2, <3>1, FS_Singleton
  <2> QED BY <2>1, <2>2
<1>5. Cardinality(Holders(c)) = IF Holders(c) = {} THEN 0 ELSE 1
  <2>1. CASE Holders(c) = {}
    BY <2>1, FS_EmptySet
  <2>2. CASE Holders(c) # {}
    <3>1. PICK w : Holders(c) = {w}
      BY <1>3, <2>2
    <3> QED BY <2>2, <3>1, FS_Singleton
  <2> QED BY <2>1, <2>2
<1>6. conn = c \/ Places(c) # {} \/ Holders(c) # {} \/ closes[c] = 1
  BY <1>2, <1>3 DEF Once
<1>7. conn = c => Places(c) = {} /\ Holders(c) = {} /\ closes[c] = 0
  BY <1>1, <1>2, <1>3 DEF Once, Handles
<1>8. Places(c) # {} => Holders(c) = {} /\ closes[c] = 0
  BY <1>2, <1>3 DEF Once, Handles
<1>9. Holders(c) # {} => closes[c] = 0
  BY <1>3 DEF Once, Handles
<1>10. CASE conn = c
  BY <1>4, <1>5, <1>7, <1>10
<1>11. CASE conn # c /\ Places(c) # {}
  BY <1>4, <1>5, <1>8, <1>11
<1>12. CASE conn # c /\ Places(c) = {} /\ Holders(c) # {}
  BY <1>4, <1>5, <1>9, <1>12
<1>13. CASE conn # c /\ Places(c) = {} /\ Holders(c) = {}
  BY <1>4, <1>5, <1>6, <1>13
<1> QED BY <1>10, <1>11, <1>12, <1>13

\* Until two threads are inside together, no connection is lost, and none is
\* handled or closed twice.
THEOREM ConnectionsHandledOnce == Spec => []EveryConnectionOnce
<1>1. /\ Init => IInv /\ (~Broken => Once)
      /\ IInv /\ (~Broken => Once) /\ [Next]_vars => (IInv /\ (~Broken => Once))'
  BY InitType, InitOnce, NextType, NextOnce
<1> QED BY OnceCounts, <1>1, PTL DEF Spec

-----------------------------------------------------------------------------
\* The workers that are on their way to the queue.
Awake == {w \in Workers : \/ pc[w] = "waiting" /\ w \notin sleep
                          \/ pc[w] \in {"inside", "popping"}}

LEMMA InitAwake == Init => WokenWorkersCoverQueue
BY DEF Init, WokenWorkersCoverQueue

LEMMA NextAwake == IInv /\ IInv' /\ WokenWorkersCoverQueue /\ [Next]_vars
                     => WokenWorkersCoverQueue'
<1> SUFFICES ASSUME IInv, IInv', sleep # {} => Len(queue) <= Cardinality(Awake), [Next]_vars,
                    sleep' # {}
             PROVE  Len(queue') <= Cardinality(Awake')
  BY BrokenStays DEF WokenWorkersCoverQueue, Awake
<1> USE DEF options, clients
<1>0. /\ Len(queue) \in Nat /\ Len(queue') \in Nat
      /\ pc \in [Workers -> WorkerPlaces] /\ sleep \subseteq Workers
      /\ \A w \in sleep : pc[w] = "waiting"
      /\ queue \in Seq(Connections)
  BY LenProperties DEF IInv, TypeOK, Control
<1>1. /\ IsFiniteSet(Awake) /\ IsFiniteSet(Awake')
      /\ Cardinality(Awake) \in Nat /\ Cardinality(Awake') \in Nat
  <2>1. Awake \in SUBSET Workers /\ Awake' \in SUBSET Workers /\ IsFiniteSet(Workers)
    BY WServerAssumption DEF Awake
  <2>2. IsFiniteSet(Awake) /\ IsFiniteSet(Awake')
    BY <2>1, FS_Subset
  <2> QED BY <2>2, FS_CardinalityType
<1>2. ASSUME sleep # {}, Len(queue') <= Len(queue), Awake \subseteq Awake'
      PROVE  Len(queue') <= Cardinality(Awake')
  <2>1. Cardinality(Awake) <= Cardinality(Awake')
    BY <1>1, <1>2, FS_Subset
  <2> QED BY <1>0, <1>1, <1>2, <2>1
<1>3. CASE UNCHANGED <<queue, sleep, pc>>
  <2>1. Awake' = Awake /\ queue' = queue /\ sleep' = sleep
    BY <1>3 DEF Awake
  <2> QED BY <2>1
<1>4. CASE MainSchedules
  <2>1. Len(queue') = Len(queue) + 1
    BY <1>4, QueueAfterSchedule
  <2>2. sleep # {}
    BY <1>4 DEF MainSchedules, AfterSignal
  <2>3. PICK t \in sleep : sleep' = sleep \ {t}
    BY <1>4, <2>2, SignalTakesOne DEF MainSchedules
  <2>4. Awake' = Awake \cup {t} /\ t \notin Awake
    BY <1>0, <1>4, <2>3 DEF Awake, MainSchedules
  <2>5. Cardinality(Awake') = Cardinality(Awake) + 1
    BY <1>1, <2>4, FS_AddElement
  <2> QED BY <1>0, <1>1, <2>1, <2>2, <2>5
<1>5. ASSUME NEW w \in Workers, WorkerStep(w) PROVE Len(queue') <= Cardinality(Awake')
  <2>1. CASE WorkerLocks(w)
    <3>1. queue' = queue /\ sleep' = sleep /\ Awake \subseteq Awake'
      BY <1>0, <2>1 DEF WorkerLocks, Goto, Awake
    <3> QED BY <1>0, <1>2, <3>1
  <2>2. CASE WorkerSleeps(w)
    <3>1. queue' = <<>>
      BY <2>2 DEF WorkerSleeps, isEmpty
    <3> QED BY <1>1, <3>1
  <2>3. CASE WorkerReadsHead(w)
    <3>1. queue' = queue /\ sleep' = sleep /\ Awake \subseteq Awake'
      BY <1>0, <2>3 DEF WorkerReadsHead, Goto, Awake
    <3> QED BY <1>0, <1>2, <3>1
  <2>4. CASE WorkerAdvances(w)
    <3>1. Len(queue') = Len(queue) - 1 /\ sleep' = sleep
      BY <1>0, <2>4, HeadTailProperties DEF WorkerAdvances, isEmpty
    <3>2. Awake' = Awake \ {w} /\ w \in Awake
      BY <1>0, <2>4 DEF WorkerAdvances, Goto, Awake
    <3>3. Cardinality(Awake') = Cardinality(Awake) - 1
      BY <1>1, <3>2, FS_RemoveElement
    <3> QED BY <1>0, <1>1, <3>1, <3>3
  <2>5. CASE WorkerCloses(w) \/ WorkerUnlocksAgain(w)
    <3>1. queue' = queue /\ sleep' = sleep /\ Awake \subseteq Awake'
      BY <1>0, <2>5 DEF WorkerCloses, WorkerUnlocksAgain, Goto, Awake
    <3> QED BY <1>0, <1>2, <3>1
  <2> QED BY <1>5, <2>1, <2>2, <2>3, <2>4, <2>5 DEF WorkerStep
<1>6. CASE MainAccepts \/ MainRefuses \/ MainViews \/ MainLocks \/ MainWaits \/ UNCHANGED vars
  BY <1>3, <1>6 DEF MainAccepts, MainRefuses, MainViews, MainLocks, MainWaits, vars
<1> QED BY <1>4, <1>5, <1>6 DEF Next, MainStep

\* No worker sleeps through work, however many workers there are, until two
\* threads are inside together.
THEOREM NobodySleepsThroughWork == Spec => []WokenWorkersCoverQueue
<1> QED BY InitType, NextType, InitAwake, NextAwake, PTL DEF Spec

-----------------------------------------------------------------------------
LEMMA InitOrder == Init => QueueInOrder
BY DEF Init, QueueInOrder

LEMMA NextOrder ==
    IInv /\ IInv' /\ (~Broken => Once) /\ QueueInOrder /\ [Next]_vars => QueueInOrder'
<1> SUFFICES ASSUME IInv, IInv', Once, QueueInOrder, [Next]_vars, ~Broken, ~Broken'
             PROVE  QueueInOrder'
  BY BrokenStays DEF QueueInOrder
<1> USE DEF options, clients
<1>0. /\ Len(queue) \in Nat /\ queue \in Seq(Connections) /\ accepted \in Nat
      /\ DOMAIN queue = 1..Len(queue) /\ DOMAIN queue' = 1..Len(queue')
      /\ scheduler \in {"FIFO", "SFF"} /\ scheduler' = scheduler
      /\ filesize \in [Connections -> Sizes \cup {-1}]
  <2>1. scheduler' = scheduler
    BY DEF Next, MainStep, WorkerStep, MainAccepts, MainRefuses, MainViews, MainLocks,
           MainWaits, MainSchedules, WorkerLocks, WorkerSleeps, WorkerReadsHead,
           WorkerAdvances, WorkerCloses, WorkerUnlocksAgain, vars
  <2> QED BY <2>1, LenProperties DEF IInv, TypeOK
<1>1. CASE MainViews
  <2>1. /\ queue' = queue /\ conn \in Connections
        /\ \A c \in Connections : c # conn => filesize'[c] = filesize[c]
    BY <1>0, <1>1 DEF MainViews, IInv, Control
  <2>2. \A i \in 1..Len(queue) : queue[i] \in Connections /\ queue[i] # conn
    BY <1>0, ElementOfSeq DEF Once
  <2>3. \A i \in 1..Len(queue) : filesize'[queue[i]] = filesize[queue[i]]
    BY <2>1, <2>2
  <2> QED BY <1>0, <2>1, <2>3 DEF QueueInOrder
<1>2. CASE MainSchedules
  <2>1. filesize' = filesize
    BY <1>2 DEF MainSchedules
  <2>2. CASE scheduler = "SFF"
    BY <1>0, <1>2, <2>1, <2>2, QueueAfterSchedule DEF QueueInOrder
  <2>3. CASE scheduler = "FIFO"
    <3>1. queue' = Append(queue, conn) /\ conn \in Connections /\ conn = accepted
      BY <1>2, <2>3, QueueAfterSchedule DEF IInv, Control, MainSchedules
    <3>2. /\ Len(queue') = Len(queue) + 1 /\ queue'[Len(queue) + 1] = conn
          /\ \A i \in 1..Len(queue) : queue'[i] = queue[i]
      BY <1>0, <3>1, AppendProperties
    <3>3. \A i \in 1..Len(queue) : queue[i] \in 1..accepted /\ queue[i] # accepted
      BY <3>1 DEF Once
    <3>4. \A i \in 1..Len(queue) : queue[i] < conn
      BY <1>0, <3>1, <3>3
    <3>5. \A i, j \in 1..Len(queue) : i < j => queue[i] < queue[j]
      BY <1>0, <2>3 DEF QueueInOrder
    <3>6. ASSUME NEW i \in 1..Len(queue'), NEW j \in 1..Len(queue'), i < j
          PROVE  queue'[i] < queue'[j]
      <4>1. i \in 1..Len(queue) /\ (j = Len(queue) + 1 \/ j \in 1..Len(queue))
        BY <1>0, <3>2, <3>6
      <4> QED BY <3>2, <3>4, <3>5, <3>6, <4>1
    <3> QED BY <1>0, <2>3, <3>6 DEF QueueInOrder
  <2> QED BY <1>0, <2>2, <2>3
<1>3. ASSUME NEW w \in Workers, WorkerAdvances(w) PROVE QueueInOrder'
  <2>1. /\ Len(queue') = Len(queue) - 1 /\ filesize' = filesize
        /\ \A i \in 1..(Len(queue) - 1) : queue'[i] = queue[i + 1]
    BY <1>0, <1>3, HeadTailProperties DEF WorkerAdvances, isEmpty
  <2>2. ASSUME NEW i \in 1..Len(queue'), NEW j \in 1..Len(queue'), i < j
        PROVE  /\ i + 1 \in 1..Len(queue) /\ j + 1 \in 1..Len(queue) /\ i + 1 < j + 1
               /\ queue'[i] = queue[i + 1] /\ queue'[j] = queue[j + 1]
    BY <1>0, <2>1, <2>2
  <2>3. \A i, j \in 1..Len(queue) : i < j =>
           IF scheduler = "SFF" THEN filesize[queue[i]] <= filesize[queue[j]]
                                ELSE queue[i] < queue[j]
    BY <1>0 DEF QueueInOrder
  <2>4. \A i, j \in 1..Len(queue') : i < j =>
           IF scheduler = "SFF" THEN filesize[queue'[i]] <= filesize[queue'[j]]
                                ELSE queue'[i] < queue'[j]
    BY <2>2, <2>3
  <2> QED BY <1>0, <2>1, <2>4 DEF QueueInOrder
<1>4. CASE UNCHANGED <<queue, filesize>>
  BY <1>0, <1>4 DEF QueueInOrder
<1>5. CASE \/ MainAccepts \/ MainRefuses \/ MainLocks \/ MainWaits \/ UNCHANGED vars
           \/ \E w \in Workers : \/ WorkerLocks(w) \/ WorkerSleeps(w) \/ WorkerReadsHead(w)
                                 \/ WorkerCloses(w) \/ WorkerUnlocksAgain(w)
  BY <1>4, <1>5 DEF MainAccepts, MainRefuses, MainLocks, MainWaits, WorkerLocks,
        WorkerSleeps, WorkerReadsHead, WorkerCloses, WorkerUnlocksAgain, vars
<1> QED BY <1>1, <1>2, <1>3, <1>5 DEF Next, MainStep, WorkerStep

\* First in first out, and smallest file first: until two threads are inside
\* together the queue is in the order of its scheduler.
THEOREM SchedulerOrder == Spec => []QueueInOrder
<1>1. /\ Init => IInv /\ (~Broken => Once) /\ QueueInOrder
      /\ IInv /\ (~Broken => Once) /\ QueueInOrder /\ [Next]_vars
            => (IInv /\ (~Broken => Once) /\ QueueInOrder)'
  BY InitType, InitOnce, InitOrder, NextType, NextOnce, NextOrder
<1> QED BY <1>1, PTL DEF Spec
=============================================================================
