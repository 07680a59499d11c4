----------------------------- MODULE DiskProofs -----------------------------
(***************************************************************************)
(* What the disk scheduler does with its queue, and how long its requests  *)
(* take, for every disk, policy, window and list of requests.              *)
(***************************************************************************)
EXTENDS Disk, SequenceTheorems, WellFoundedInduction, TLAPS, FiniteSetTheorems

-----------------------------------------------------------------------------
\* What these proofs need to know of numbers.

\* The definition of \div and %, for a positive divisor.
LEMMA DivModFact ==
    ASSUME NEW a \in Int, NEW m \in Nat \ {0}
    PROVE  a \div m \in Int /\ a % m \in 0 .. m - 1 /\ a = m * (a \div m) + (a % m)
OBVIOUS

\* A larger number of rows is larger by a whole row.
LEMMA MulMonotone ==
    ASSUME NEW m \in Nat \ {0}, NEW x \in Int, NEW y \in Int, x < y
    PROVE  m * x + m <= m * y
OBVIOUS

\* A number has one row and one place in it.
LEMMA SameCell ==
    ASSUME NEW m \in Nat \ {0}, NEW x \in Int, NEW y \in Int,
           NEW r \in 0 .. m - 1, NEW s \in 0 .. m - 1, m * x + r = m * y + s
    PROVE  x = y /\ r = s
<1>1. ~(x < y)
  <2> SUFFICES ASSUME x < y PROVE FALSE
    OBVIOUS
  <2> QED
    BY MulMonotone
<1>2. ~(y < x)
  <2> SUFFICES ASSUME y < x PROVE FALSE
    OBVIOUS
  <2> QED
    BY MulMonotone
<1> QED
  BY <1>1, <1>2

\* The quotient and the remainder are the only ones.
LEMMA DivModUnique ==
    ASSUME NEW a \in Int, NEW m \in Nat \ {0}, NEW q \in Int, NEW r \in 0 .. m - 1,
           a = m * q + r
    PROVE  a \div m = q /\ a % m = r
BY DivModFact, SameCell

\* The quotient of a natural number is one.
LEMMA DivNat ==
    ASSUME NEW a \in Nat, NEW m \in Nat \ {0}
    PROVE  a \div m \in Nat
<1>1. a \div m >= 0
  <2> SUFFICES ASSUME a \div m < 0 PROVE FALSE
    BY DivModFact
  <2>1. m * (a \div m) + m <= m * 0
    BY DivModFact, MulMonotone
  <2> QED
    BY <2>1, DivModFact
<1> QED
  BY <1>1, DivModFact

\* A quotient below k is a number below k times the divisor.
LEMMA DivLess ==
    ASSUME NEW a \in Nat, NEW m \in Nat \ {0}, NEW k \in Nat
    PROVE  a \div m < k <=> a < m * k
<1> DEFINE q == a \div m
           r == a % m
<1>1. q \in Nat /\ r \in 0 .. m - 1 /\ a = m * q + r
  <2>1. q \in Nat
    BY DivNat
  <2>2. r \in 0 .. m - 1 /\ a = m * q + r
    BY DivModFact
  <2> QED
    BY <2>1, <2>2
<1> HIDE DEF q, r
<1>2. q < k => m * q + m <= m * k
  BY <1>1, MulMonotone
<1>3. k < q => m * k + m <= m * q
  BY <1>1, MulMonotone
<1>4. q < k <=> a < m * k
  <2>1. m * q \in Int /\ m * k \in Int /\ (k = q => m * k = m * q)
    BY <1>1
  <2>2. CASE q < k
    BY <1>1, <1>2, <2>1, <2>2
  <2>3. CASE k < q
    BY <1>1, <1>3, <2>1, <2>3
  <2>4. CASE k = q
    BY <1>1, <2>1, <2>4
  <2> QED
    BY <1>1, <2>2, <2>3, <2>4
<1> QED
  BY <1>4 DEF q

\* A set of numbers that is not empty has a smallest one.
LEMMA SmallestNumber ==
    ASSUME NEW T, T \subseteq Nat, T # {}
    PROVE  \E x \in T : \A y \in T : x <= y
<1> DEFINE R == {r \in Nat \X Nat : r[1] < r[2]}
<1>1. IsWellFoundedOn(R, Nat)
  BY NatLessThanWellFounded DEF OpToRel
<1>2. PICK x \in T : \A y \in T : ~(<<y, x>> \in R)
  <2> HIDE DEF R
  <2> QED BY <1>1, WFMin
<1>3. ASSUME NEW y \in T PROVE ~(y < x)
  <2> DEFINE r == <<y, x>>
  <2>1. r \in Nat \X Nat
    OBVIOUS
  <2>2. r \notin R
    BY <1>2
  <2> QED BY <2>1, <2>2
<1> QED BY <1>3

\* A sequence over a set is one over a larger set.
LEMMA WiderSeq ==
    ASSUME NEW S, NEW T, S \subseteq T, NEW s \in Seq(S)
    PROVE  s \in Seq(T)
<1>1. s \in [1 .. Len(s) -> S] /\ Len(s) \in Nat
  BY LenProperties
<1>2. s \in [1 .. Len(s) -> T]
  BY <1>1
<1> QED BY <1>1, <1>2

-----------------------------------------------------------------------------
\* What the program was started with.
Started ==
    /\ options \in Options /\ requests \in Seq(Blocks)
    /\ lateRequests \in Late /\ lateRequests.blocks \in Seq(Blocks)

\* The disk's fields that say which request is served, and their types.
Fields ==
    {"queue", "done", "lateCount", "requestCount", "currWindow", "current", "angle",
     "armTrack", "armTarget", "starts", "isDone", "failed", "state"}
Typed(s) ==
    /\ Fields \subseteq DOMAIN s
    /\ s.queue \in Seq(Blocks) /\ s.done \subseteq 1 .. Len(s.queue)
    /\ s.lateCount \in Nat /\ s.requestCount \in Nat /\ s.currWindow \in Int
    /\ s.angle \in Int /\ s.armTrack \in 0 .. 2 /\ s.armTarget \in 0 .. 2
    /\ s.starts \in Nat /\ s.isDone \in BOOLEAN /\ s.failed \in BOOLEAN

-----------------------------------------------------------------------------
\* There are three tracks, and each has at least two blocks.
LEMMA Layout ==
    ASSUME Started, NEW t \in 0 .. 2
    PROVE  /\ blockAngleOffset(t) \in Nat /\ angleOffset(t) \in Nat
           /\ BlocksOn(t) \in Nat /\ BlocksOn(t) >= 2 /\ First(t) \in Nat
           /\ tracksBegin(t) < tracksEnd(t)
<1>1. ASSUME NEW u \in 0 .. 2
      PROVE  blockAngleOffset(u) \in 1 .. 179 /\ BlocksOn(u) \in Nat /\ BlocksOn(u) >= 2
  <2>1. options.zones[u + 1] \in 2 .. 359
    BY DiskAssumption, u + 1 \in 1 .. 3 DEF Started, DiskAssumption
  <2> DEFINE z == options.zones[u + 1]
             h == z \div 2
             a == 2 * h
  <2>2. h \in 1 .. 179
    BY <2>1
  <2> HIDE DEF h
  <2>3. a \in Nat \ {0} /\ 359 + a >= 2 * a /\ 359 + a \in Nat
    BY <2>2
  <2> HIDE DEF a
  <2>4. (359 + a) \div a \in Nat
    BY <2>3, DivNat
  <2>5. ~((359 + a) \div a < 2)
    <3>1. (359 + a) \div a < 2 <=> 359 + a < a * 2
      BY <2>3, DivLess
    <3> QED BY <2>3, <3>1
  <2>6. blockAngleOffset(u) = h /\ BlocksOn(u) = (360 + a - 1) \div a
    BY DEF blockAngleOffset, BlocksOn, angleOffset, h, a
  <2>7. 360 + a - 1 = 359 + a
    BY <2>3
  <2> QED BY <2>2, <2>4, <2>5, <2>6, <2>7
<1>2. BlocksOn(0) \in Nat /\ BlocksOn(1) \in Nat /\ BlocksOn(t) \in Nat /\ BlocksOn(t) >= 2
  BY <1>1
<1> QED BY <1>1, <1>2 DEF angleOffset, First, tracksBegin, tracksEnd

\* Each block is on one of them.
LEMMA BlockPlaces ==
    ASSUME Started, NEW b \in Blocks
    PROVE  b \in Nat /\ blockToTrack(b) \in 0 .. 2 /\ blockToAngle(b) \in Nat
<1>1. /\ BlocksOn(0) \in Nat /\ BlocksOn(1) \in Nat /\ BlocksOn(2) \in Nat
      /\ BlocksOn(0) >= 2 /\ BlocksOn(1) >= 2 /\ BlocksOn(2) >= 2
  BY Layout
<1>2. \E t \in 0 .. 2 : b \in tracksBegin(t) .. tracksEnd(t)
  BY <1>1 DEF Blocks, tracksBegin, tracksEnd, First
<1>3. blockToTrack(b) \in 0 .. 2
  BY <1>2 DEF blockToTrack
<1>4. b \in Nat
  BY <1>1 DEF Blocks
<1> DEFINE t == blockToTrack(b)
<1>5. First(t) \in Nat /\ angleOffset(t) \in Nat /\ options.skew \in Nat
  BY <1>3, Layout, DiskAssumption DEF Started, DiskAssumption
<1> DEFINE x == (b - First(t)) * angleOffset(t) + angleOffset(t) * options.skew * t + 180
<1>6. x \in Int
  BY <1>3, <1>4, <1>5
<1>7. blockToAngle(b) = x % 360
  BY DEF blockToAngle
<1> HIDE DEF x
<1>8. blockToAngle(b) \in Nat
  <2>1. x % 360 \in 0 .. 359
    BY <1>6
  <2> QED BY <1>7, <2>1
<1> QED BY <1>3, <1>4, <1>8 DEF t

\* The product of natural numbers is one.
LEMMA MulNat == ASSUME NEW m \in Nat, NEW n \in Nat PROVE m * n \in Nat
OBVIOUS

\* A request's estimate is a natural number.
LEMMA EstimateNat ==
    ASSUME Started, NEW s, Typed(s), NEW k \in 1 .. Len(s.queue)
    PROVE  /\ Estimate(s, k) \in Nat
           /\ Distance(s.armTrack, blockToTrack(s.queue[k])) \in Nat
<1> DEFINE block   == s.queue[k]
           track   == blockToTrack(block)
           seekEst == (trackWidth \div options.seekSpeed) * Distance(s.armTrack, track)
           arrival == Within360(s.angle + seekEst * options.rotateSpeed)
           rotDist == blockToAngle(block) - blockAngleOffset(track) - arrival
<1>1. block \in Blocks
  BY ElementOfSeq DEF Typed
<1> HIDE DEF block
<1>2. track \in 0 .. 2 /\ blockToAngle(block) \in Nat /\ blockAngleOffset(track) \in Nat
  BY <1>1, BlockPlaces, Layout
<1>3. /\ s.angle \in Int /\ s.armTrack \in 0 .. 2
      /\ options.seekSpeed \in Nat \ {0} /\ options.rotateSpeed \in Nat
  BY DiskAssumption DEF Typed, Started, DiskAssumption
<1> HIDE DEF track
<1>4. Distance(s.armTrack, track) \in Nat
  BY <1>2, <1>3 DEF Distance
<1>5. seekEst \in Nat
  <2>1. trackWidth \div options.seekSpeed \in Nat
    BY <1>3, DivNat DEF trackWidth
  <2> QED BY <1>4, <2>1, MulNat
<1> HIDE DEF seekEst
<1>6. seekEst * options.rotateSpeed \in Nat
  BY <1>3, <1>5, MulNat
<1>7. \A x \in Int : Within360(x) \in Int /\ (x >= 0 => Within360(x) \in Nat)
  BY DEF Within360
<1>8. arrival \in Int
  <2> DEFINE a == s.angle + seekEst * options.rotateSpeed
  <2>1. a \in Int
    BY <1>3, <1>6
  <2> HIDE DEF a
  <2>2. Within360(a) \in Int
    BY <1>7, <2>1
  <2> QED BY <2>2 DEF a
<1> HIDE DEF arrival
<1>9. rotDist \in Int
  BY <1>2, <1>8
<1> HIDE DEF rotDist
<1>10. rotDist % 360 \in Nat /\ (~(rotDist < 0) => Within360(rotDist) \in Nat)
  BY <1>7, <1>9, DivModFact
<1>11. Estimate(s, k) = seekEst * options.rotateSpeed
            + (IF rotDist < 0 THEN rotDist % 360 ELSE Within360(rotDist))
            + 2 * blockAngleOffset(track)
  BY DEF Estimate, SeekDegrees, angleAtArrival, block, track, seekEst, arrival, rotDist
<1> QED BY <1>2, <1>4, <1>6, <1>10, <1>11 DEF track, block

-----------------------------------------------------------------------------
\* The policies choose one of the candidates.
LEMMA PickIsCandidate ==
    ASSUME Started, NEW s, Typed(s), Candidates(s) \subseteq 1 .. Len(s.queue),
           Candidates(s) # {}
    PROVE  Pick(s) \in Candidates(s)
<1>1. ASSUME NEW P, P \subseteq 1 .. Len(s.queue), P # {} PROVE DoSATF(s, P) \in P
  <2> DEFINE E == {Estimate(s, k) : k \in P}
  <2>1. E \subseteq Nat /\ E # {}
    BY <1>1, EstimateNat
  <2>2. PICK e \in E : \A x \in E : e <= x
    <3> HIDE DEF E
    <3> QED BY <2>1, SmallestNumber
  <2> DEFINE K == {k \in P : Estimate(s, k) = e}
  <2>3. K \subseteq Nat /\ K # {}
    BY <1>1, <2>2 DEF Typed
  <2>4. PICK k \in K : \A j \in K : k <= j
    <3> HIDE DEF K
    <3> QED BY <2>3, SmallestNumber
  <2>5. ASSUME NEW j \in P
        PROVE  \/ Estimate(s, k) < Estimate(s, j)
               \/ Estimate(s, k) = Estimate(s, j) /\ k <= j
    <3>1. e \in Nat /\ Estimate(s, j) \in Nat /\ e <= Estimate(s, j) /\ Estimate(s, k) = e
      BY <2>1, <2>2, <2>4
    <3>2. CASE Estimate(s, j) = e
      BY <2>4, <3>1, <3>2
    <3> QED BY <3>1, <3>2
  <2> QED BY <2>4, <2>5 DEF DoSATF
<1>2. DoSSTF(s, Candidates(s)) \subseteq Candidates(s) /\ DoSSTF(s, Candidates(s)) # {}
  <2> DEFINE D(k) == Distance(s.armTrack, blockToTrack(s.queue[k]))
             C == Candidates(s)
             E == {D(k) : k \in C}
  <2>1. E \subseteq Nat /\ E # {}
    BY EstimateNat
  <2>2. PICK e \in E : \A x \in E : e <= x
    <3> HIDE DEF E
    <3> QED BY <2>1, SmallestNumber
  <2>3. PICK k \in C : e = D(k)
    BY <2>2
  <2>4. \A j \in C : D(k) <= D(j)
    BY <2>2, <2>3
  <2> QED BY <2>3, <2>4 DEF DoSSTF
<1> QED BY <1>1, <1>2 DEF Pick, Compared

\* Whether DoSATF has to wrap an angle depends on these fields of the disk alone, and
\* so do the causes for which it may fail.
LEMMA SameCause ==
    ASSUME NEW s, NEW t,
           t.queue = s.queue, t.done = s.done, t.requestCount = s.requestCount,
           t.currWindow = s.currWindow, t.angle = s.angle, t.armTrack = s.armTrack
    PROVE  MayFail(t) <=> MayFail(s)
<1>1. Candidates(t) = Candidates(s)
  BY DEF Candidates, Pending, WindowEnd
<1>2. \A P : DoSSTF(t, P) = DoSSTF(s, P)
  BY DEF DoSSTF
<1>3. Compared(t) = Compared(s)
  BY <1>1, <1>2 DEF Compared
<1>4. \A k : angleAtArrival(t, k) = angleAtArrival(s, k)
  BY DEF angleAtArrival, SeekDegrees
<1> QED BY <1>3, <1>4 DEF MayFail, Wraps

-----------------------------------------------------------------------------
\* With a window the policies that have one take the requests in batches or slide it.
Batched == Policy = "BSATF" /\ options.window # -1
Sliding == Policy \in {"SATF", "SSTF"} /\ options.window # -1

\* The batch in which the next request is served after r of them.
BatchBegin(r) == (r \div options.window) * options.window
BatchEnd(r)   == BatchBegin(r) + options.window

\* A batch ends where the next begins, and is one window long.
LEMMA Batches ==
    ASSUME Started, options.window # -1, NEW r \in Nat
    PROVE  /\ options.window \in Nat \ {0}
           /\ BatchBegin(r) \in Nat /\ BatchEnd(r) \in Nat
           /\ BatchBegin(r) <= r /\ r < BatchEnd(r)
           /\ r % options.window = 0 => BatchBegin(r) = r
           /\ (r + 1) % options.window = 0 =>
                    BatchEnd(r) = r + 1 /\ BatchBegin(r + 1) = r + 1
           /\ (r + 1) % options.window # 0 => BatchBegin(r + 1) = BatchBegin(r)
<1> DEFINE w == options.window
           q == r \div w
           m == r % w
<1>1. w \in Nat \ {0}
  BY DiskAssumption DEF Started, DiskAssumption
<1> HIDE DEF w
<1>2. q \in Nat /\ m \in 0 .. w - 1 /\ r = w * q + m
  <2>1. q \in Nat
    BY <1>1, DivNat
  <2>2. m \in 0 .. w - 1 /\ r = w * q + m
    BY <1>1, DivModFact
  <2> QED BY <2>1, <2>2
<1> HIDE DEF q, m
<1>3. BatchBegin(r) = w * q /\ w * q \in Nat
  BY <1>1, <1>2 DEF BatchBegin, w, q
<1>4. /\ BatchBegin(r) \in Nat /\ r = BatchBegin(r) + m
      /\ BatchEnd(r) = BatchBegin(r) + w /\ r % w = m
  BY <1>2, <1>3 DEF BatchEnd, w, m
<1>5. CASE m + 1 = w
  <2>1. r + 1 = w * (q + 1) + 0 /\ w * (q + 1) = w * q + w /\ q + 1 \in Int
    BY <1>1, <1>2, <1>5
  <2>2. (r + 1) \div w = q + 1 /\ (r + 1) % w = 0
    BY <1>1, <1>2, <2>1, DivModUnique
  <2>3. BatchBegin(r + 1) = r + 1
    BY <1>1, <1>2, <2>1, <2>2 DEF BatchBegin, w
  <2>4. w \in Nat \ {0} /\ m \in Nat
    BY <1>1, <1>2
  <2> QED BY <1>4, <1>5, <2>2, <2>3, <2>4 DEF w
<1>6. CASE m + 1 # w
  <2>1. r + 1 = w * q + (m + 1) /\ m + 1 \in 0 .. w - 1
    BY <1>1, <1>2, <1>6
  <2>2. (r + 1) \div w = q /\ (r + 1) % w = m + 1
    BY <1>1, <1>2, <2>1, DivModUnique
  <2>3. BatchBegin(r + 1) = BatchBegin(r)
    BY <1>1, <1>2, <1>3, <2>2 DEF BatchBegin, w
  <2>4. w \in Nat \ {0} /\ m \in Nat /\ m < w
    BY <1>1, <1>2
  <2> QED BY <1>4, <2>2, <2>3, <2>4 DEF w
<1> QED BY <1>5, <1>6

-----------------------------------------------------------------------------
\* Every request that is done was counted, and the late ones were put behind those
\* the queue held at the start.
Counted(s) ==
    /\ Cardinality(s.done) = s.requestCount
    /\ Len(s.queue) = Len(requests) + s.lateCount
    /\ s.lateCount <= Len(lateRequests.blocks)
    /\ ~s.isDone /\ ~s.failed

\* What no choice can mend: a late request is a string, or the window sticks.
Stuck == lateRequests.text \/ WindowMayStick

\* With every choice one of the late requests has arrived.
Arrived(s, choices) == s.lateCount = Len(lateRequests.blocks) \/ s.lateCount >= choices

\* The window lets in the rest of a batch, but not when disk-precise.py cut it.
LetsIn(s, n) ==
    \/ Stuck
    \/ s.currWindow >= n
    \/ lateRequests.blocks = <<>> /\ s.currWindow >= Len(s.queue)

\* What is done, and the window when the next request is chosen.
InWindow(s) ==
    LET r == s.requestCount IN
    /\ Policy = "FIFO" => s.done = 1 .. r
    /\ Policy # "FIFO" /\ options.window = -1 => s.currWindow = -1
    /\ Sliding => s.currWindow \in r + 1 .. r + options.window
    /\ Batched =>
          /\ s.currWindow >= 1 /\ LetsIn(s, BatchEnd(r))
          /\ s.starts <= 1 =>
                /\ s.currWindow <= BatchEnd(r) /\ s.done \subseteq 1 .. BatchEnd(r)
                /\ 1 .. BatchBegin(r) \subseteq s.done

\* The same before GetWindow, which lets in the next batch when r is a multiple.
AtWindow(s) ==
    LET r == s.requestCount IN
    IF Batched /\ r > 0 /\ r % options.window = 0
    THEN /\ s.currWindow >= 1 /\ LetsIn(s, r)
         /\ s.starts <= 1 => s.currWindow <= r /\ s.done \subseteq 1 .. r
    ELSE InWindow(s)

\* The next request can be chosen, if there is one.
Ready(s) ==
    /\ Typed(s) /\ Counted(s) /\ Arrived(s, s.requestCount)
    /\ s.requestCount < Len(s.queue) => AtWindow(s)

\* A request is served: one that was let in and was not served before.
LetIn(s) ==
    /\ s.current \in 1 .. Len(s.queue) /\ s.current \notin s.done
    /\ Policy = "FIFO" => s.current = s.requestCount + 1
    /\ Sliding \/ (Batched /\ s.starts <= 1) => s.current <= s.currWindow
Busy(s) ==
    /\ Typed(s) /\ Counted(s) /\ Arrived(s, s.requestCount + 1) /\ InWindow(s) /\ LetIn(s)

\* The number of requests done is at most that of the queue, and as long as it is
\* smaller one is left; if it is not, all are done.
LEMMA Numbers ==
    ASSUME NEW s, Typed(s), Counted(s)
    PROVE  /\ Len(s.queue) \in Nat /\ IsFiniteSet(s.done)
           /\ s.requestCount <= Len(s.queue)
           /\ s.requestCount = Len(s.queue) => s.done = 1 .. Len(s.queue)
           /\ \A n \in Nat : s.done \subseteq 1 .. n =>
                 s.requestCount <= n /\ (s.requestCount = n => s.done = 1 .. n)
           /\ \A n \in Nat : s.requestCount < n => \E k \in 1 .. n : k \notin s.done
<1>1. Len(s.queue) \in Nat /\ s.done \subseteq 1 .. Len(s.queue)
  BY LenProperties DEF Typed
<1>2. ASSUME NEW n \in Nat
      PROVE  IsFiniteSet(1 .. n) /\ Cardinality(1 .. n) = n
  BY FS_Interval
<1>3. ASSUME NEW n \in Nat, s.done \subseteq 1 .. n
      PROVE  s.requestCount <= n /\ (s.requestCount = n => s.done = 1 .. n)
  BY <1>2, <1>3, FS_Subset DEF Counted
<1>4. IsFiniteSet(s.done)
  BY <1>1, <1>2, FS_Subset
<1>5. ASSUME NEW n \in Nat, s.requestCount < n PROVE \E k \in 1 .. n : k \notin s.done
  <2> SUFFICES ASSUME 1 .. n \subseteq s.done PROVE FALSE
    OBVIOUS
  <2>1. n <= Cardinality(s.done)
    BY <1>2, <1>4, FS_Subset
  <2> QED BY <1>5, <2>1 DEF Counted, Typed
<1> QED BY <1>1, <1>3, <1>4, <1>5

-----------------------------------------------------------------------------
\* The smaller of two numbers.
LEMMA MinOfTwo ==
    ASSUME NEW m \in Int, NEW n \in Int
    PROVE  Min({m, n}) = IF m <= n THEN m ELSE n
<1> DEFINE x == IF m <= n THEN m ELSE n
<1>1. x \in {m, n} /\ \A y \in {m, n} : x <= y
  OBVIOUS
<1>2. \A z \in {m, n} : (\A y \in {m, n} : z <= y) => z = x
  OBVIOUS
<1> QED BY <1>1, <1>2 DEF Min

\* Two disks serve the same request and have done the same.
SameBooks(s, t) ==
    /\ Fields \subseteq DOMAIN t
    /\ t.queue = s.queue /\ t.done = s.done /\ t.lateCount = s.lateCount
    /\ t.requestCount = s.requestCount /\ t.current = s.current
    /\ t.starts = s.starts /\ t.isDone = s.isDone /\ t.failed = s.failed

\* GetWindow lets in the next batch when all of the last one is done.
LEMMA GetWindowMoves ==
    ASSUME Started, NEW s, Ready(s), s.requestCount < Len(s.queue), Policy # "FIFO"
    PROVE  LET w == GetWindow(s) IN
           /\ SameBooks(s, w) /\ Typed(w) /\ InWindow(w)
           /\ ~Batched => w.currWindow = s.currWindow
<1> DEFINE r == s.requestCount
           W == options.window
<1>1. r \in Nat /\ s.currWindow \in Int /\ Len(s.queue) \in Nat /\ r < Len(s.queue)
  BY Numbers DEF Ready, Typed
<1>2. CASE Batched /\ r > 0 /\ r % W = 0
  <2> DEFINE c == IF options.precise THEN NextBatchPrecise(s) ELSE NextBatch(s)
             w == [s EXCEPT !.currWindow = c]
  <2>1. fairWindow = W /\ W \in Nat \ {0} /\ BatchBegin(r) = r /\ BatchEnd(r) = r + W
    BY <1>1, <1>2, Batches DEF Batched, fairWindow, BatchEnd
  <2>2. /\ s.currWindow >= 1 /\ LetsIn(s, r)
        /\ s.starts <= 1 => s.currWindow <= r /\ s.done \subseteq 1 .. r
    BY <1>1, <1>2 DEF Ready, AtWindow
  <2>3. GetWindow(s) = w
    BY <1>1, <1>2, <2>1, <2>2 DEF GetWindow
  <2>4. /\ c \in Int /\ c >= 1 /\ c <= s.currWindow + W
        /\ c = s.currWindow + W \/ (options.precise /\ c = Len(s.queue))
    <3> DEFINE n == s.currWindow + W
               m == Len(s.queue)
    <3>1. n \in Int /\ m \in Int /\ n >= 1 /\ m >= 1
      BY <1>1, <2>1, <2>2
    <3>2. c = IF options.precise THEN Min({n, m}) ELSE n
      BY <2>1 DEF NextBatchPrecise, NextBatch
    <3> HIDE DEF c, n, m
    <3>3. Min({n, m}) = IF n <= m THEN n ELSE m
      BY <3>1, MinOfTwo
    <3>4. c \in Int /\ c >= 1 /\ c <= n /\ (c = n \/ (options.precise /\ c = m))
      BY <3>1, <3>2, <3>3
    <3> QED BY <3>4 DEF n, m
  <2> HIDE DEF c
  <2>5. SameBooks(s, w) /\ w.currWindow = c /\ Typed(w)
    BY <2>4 DEF Ready, Typed, Fields, SameBooks
  <2>6. LetsIn(w, r + W)
    <3>1. CASE c = s.currWindow + W
      BY <1>1, <2>1, <2>2, <2>5, <3>1 DEF LetsIn, SameBooks
    <3>2. CASE options.precise /\ c = Len(s.queue)
      <4>1. lateRequests.blocks = <<>> \/ W > 1 \/ W = 1
        BY <2>1
      <4>2. W > 1 /\ lateRequests.blocks # <<>> => Stuck
        BY <1>2, <3>2 DEF Stuck, WindowMayStick, Batched
      <4>3. Len(s.queue) >= r + 1
        BY <1>1
      <4> QED BY <1>1, <2>1, <2>5, <3>2, <4>1, <4>2, <4>3 DEF LetsIn, SameBooks
    <3> QED BY <2>4, <3>1, <3>2
  <2>7. ASSUME s.starts <= 1
        PROVE  c <= r + W /\ s.done \subseteq 1 .. r + W /\ 1 .. r \subseteq s.done
    <3>1. s.done \subseteq 1 .. r /\ s.currWindow <= r
      BY <2>2, <2>7
    <3>2. s.done = 1 .. r
      BY <1>1, <3>1, Numbers DEF Ready
    <3> QED BY <1>1, <2>1, <2>4, <3>1, <3>2
  <2>8. InWindow(w)
    <3> HIDE DEF w
    <3>1. w.requestCount = r /\ w.starts = s.starts /\ w.done = s.done
      BY <2>5 DEF SameBooks
    <3>2. Policy = "BSATF" /\ W # -1 /\ ~Sliding
      BY <1>2 DEF Batched, Sliding
    <3> QED BY <1>2, <2>1, <2>4, <2>5, <2>6, <2>7, <3>1, <3>2 DEF InWindow
  <2> QED BY <1>2, <2>3, <2>5, <2>8
<1>3. CASE ~(Batched /\ r > 0 /\ r % W = 0)
  <2>1. GetWindow(s) = s
    BY <1>3 DEF GetWindow, fairWindow, Batched
  <2>2. InWindow(s)
    BY <1>1, <1>3 DEF Ready, AtWindow
  <2> QED BY <2>1, <2>2 DEF Ready, Typed, SameBooks
<1> QED BY <1>2, <1>3

\* The policies have something to choose from, in the window and not done yet.
LEMMA SomethingToChoose ==
    ASSUME Started, NEW s, Typed(s), Counted(s), InWindow(s),
           s.requestCount < Len(s.queue)
    PROVE  /\ Candidates(s) \subseteq (1 .. Len(s.queue)) \ s.done
           /\ Candidates(s) = {} => Stuck
           /\ Policy = "FIFO" => Candidates(s) \subseteq {s.requestCount + 1}
           /\ Sliding \/ Batched => Candidates(s) \subseteq 1 .. s.currWindow
<1> DEFINE r == s.requestCount
           W == options.window
<1>1. r \in Nat /\ s.currWindow \in Int /\ Len(s.queue) \in Nat /\ r < Len(s.queue)
  BY Numbers DEF Typed
<1>2. CASE Policy = "FIFO"
  <2>1. s.done = 1 .. r
    BY <1>2 DEF InWindow
  <2>2. Candidates(s) = {r + 1}
    BY <1>1, <1>2, <2>1 DEF Candidates, Pending
  <2> QED BY <1>1, <1>2, <2>1, <2>2 DEF Sliding, Batched
<1>3. CASE Policy # "FIFO"
  <2>1. Candidates(s) = (1 .. WindowEnd(s)) \ s.done
    BY <1>3 DEF Candidates, Pending
  <2>2. ASSUME W = -1
        PROVE  WindowEnd(s) = Len(s.queue)
    BY <1>3, <2>2 DEF InWindow, WindowEnd
  <2>3. ASSUME W # -1
        PROVE  /\ WindowEnd(s) \in Nat /\ WindowEnd(s) <= Len(s.queue)
               /\ WindowEnd(s) <= s.currWindow /\ (r < WindowEnd(s) \/ Stuck)
    <3>1. W \in Nat /\ BatchEnd(r) \in Nat /\ r < BatchEnd(r)
      <4> HIDE DEF r
      <4> QED BY <1>1, <2>3, Batches
    <3>2. Sliding \/ Batched
      BY <1>3, <2>3, DiskAssumption DEF Sliding, Batched, Started, DiskAssumption, Policy
    <3>3. s.currWindow >= 1 /\ (r < s.currWindow \/ s.currWindow >= Len(s.queue) \/ Stuck)
      <4>1. CASE Sliding
        <5>1. s.currWindow \in r + 1 .. r + W
          BY <4>1 DEF InWindow
        <5> QED BY <1>1, <3>1, <5>1
      <4>2. CASE Batched
        <5>1. s.currWindow >= 1 /\ LetsIn(s, BatchEnd(r))
          BY <4>2 DEF InWindow
        <5> QED BY <1>1, <3>1, <5>1 DEF LetsIn
      <4> QED BY <3>2, <4>1, <4>2
    <3>4. WindowEnd(s) = IF s.currWindow <= Len(s.queue) THEN s.currWindow ELSE Len(s.queue)
      BY <1>1, <3>3, MinOfTwo DEF WindowEnd
    <3> QED BY <1>1, <3>3, <3>4
  <2>4. WindowEnd(s) \in Nat /\ WindowEnd(s) <= Len(s.queue)
    BY <1>1, <2>2, <2>3
  <2>5. r < WindowEnd(s) => Candidates(s) # {}
    BY <2>1, <2>4, Numbers
  <2>6. Sliding \/ Batched => W # -1
    BY DEF Sliding, Batched
  <2>7. r < WindowEnd(s) \/ Stuck
    BY <1>1, <2>2, <2>3
  <2>8. Candidates(s) \subseteq (1 .. Len(s.queue)) \ s.done
    BY <1>1, <2>1, <2>4
  <2>9. W # -1 => Candidates(s) \subseteq 1 .. s.currWindow
    BY <1>1, <2>1, <2>3, <2>4
  <2> QED BY <1>3, <2>5, <2>6, <2>7, <2>8, <2>9
<1> QED BY <1>2, <1>3

-----------------------------------------------------------------------------
\* What happens to the arm alone.
OnlyArm(s, t) == SameBooks(s, t) /\ t.currWindow = s.currWindow /\ Typed(t)

\* It leaves a request that is served what it is.
LEMMA StillBusy ==
    ASSUME NEW s, NEW t, Busy(s), OnlyArm(s, t)
    PROVE  Busy(t)
<1>1. Typed(t) /\ Counted(t) /\ Arrived(t, t.requestCount + 1)
  BY DEF Busy, OnlyArm, SameBooks, Counted, Arrived
<1>2. InWindow(t)
  BY DEF Busy, OnlyArm, SameBooks, InWindow, LetsIn
<1>3. LetIn(t)
  BY DEF Busy, OnlyArm, SameBooks, LetIn
<1> QED BY <1>1, <1>2, <1>3 DEF Busy

\* PlanSeek sets the arm's target.
LEMMA SeekIsPlanned ==
    ASSUME Started, NEW s, Typed(s), s.current \in 1 .. Len(s.queue)
    PROVE  OnlyArm(s, PlanSeek(s))
<1>1. blockToTrack(s.queue[s.current]) \in 0 .. 2
  BY ElementOfSeq, BlockPlaces DEF Typed
<1> QED BY <1>1 DEF PlanSeek, OnlyArm, SameBooks, Typed, Fields

\* With each choice a late request arrives, as long as there are any.
LEMMA RequestArrives ==
    ASSUME Started, NEW s, Typed(s), Counted(s), Arrived(s, s.requestCount),
           InWindow(s), LetIn(s)
    PROVE  Busy(AddRequest(s)) /\ AddRequest(s).starts = s.starts
<1> DEFINE l == lateRequests.blocks
           n == s.lateCount
           t == AddRequest(s)
<1>1. /\ l \in Seq(Blocks) /\ Len(l) \in Nat /\ n \in Nat /\ s.queue \in Seq(Blocks)
      /\ Len(s.queue) \in Nat /\ s.requestCount \in Nat /\ Len(requests) \in Nat
  BY LenProperties DEF Started, Typed
<1>2. CASE ~(n < Len(l))
  <2>1. t = s
    BY <1>2 DEF AddRequest
  <2>2. n = Len(l)
    BY <1>1, <1>2 DEF Counted
  <2> QED BY <2>1, <2>2 DEF Busy, Arrived
<1>3. CASE n < Len(l)
  <2> DEFINE q == Append(s.queue, l[n + 1])
  <2>1. l[n + 1] \in Blocks
    BY <1>1, <1>3, ElementOfSeq, n + 1 \in 1 .. Len(l)
  <2>2. q \in Seq(Blocks) /\ Len(q) = Len(s.queue) + 1
    BY <1>1, <2>1, AppendProperties
  <2> HIDE DEF q
  <2>3. t = [s EXCEPT !.queue = q, !.lateCount = n + 1]
    BY <1>3 DEF AddRequest, q
  <2>4. /\ Fields \subseteq DOMAIN t
        /\ t.queue = q /\ t.lateCount = n + 1 /\ t.done = s.done
        /\ t.requestCount = s.requestCount /\ t.currWindow = s.currWindow
        /\ t.current = s.current /\ t.angle = s.angle /\ t.armTrack = s.armTrack
        /\ t.armTarget = s.armTarget /\ t.starts = s.starts /\ t.isDone = s.isDone
        /\ t.failed = s.failed
    BY <2>3 DEF Typed, Fields
  <2> HIDE DEF t
  <2>5. Typed(t)
    BY <1>1, <2>2, <2>4 DEF Typed
  <2>6. Counted(t) /\ Arrived(t, t.requestCount + 1)
    <3>1. Counted(t)
      <4>1. n + 1 <= Len(l)
        BY <1>1, <1>3
      <4>2. Len(q) = Len(requests) + (n + 1)
        BY <1>1, <2>2 DEF Counted
      <4> QED BY <2>4, <4>1, <4>2 DEF Counted
    <3>2. n = Len(l) \/ n >= s.requestCount
      BY DEF Arrived
    <3>3. n + 1 >= s.requestCount + 1
      BY <1>1, <1>3, <3>2
    <3> QED BY <2>4, <3>1, <3>3 DEF Arrived
  <2>7. InWindow(t)
    <3>1. l # <<>>
      BY <1>1, <1>3, Len(<<>>) = 0
    <3> QED BY <2>4, <3>1 DEF InWindow, LetsIn
  <2>8. LetIn(t)
    BY <1>1, <2>2, <2>4 DEF LetIn
  <2> QED BY <2>4, <2>5, <2>6, <2>7, <2>8 DEF Busy, t
<1> QED BY <1>2, <1>3

\* A choice ends in a request that is served, or for a known reason fails.
LEMMA ChosenIsServed ==
    ASSUME Started, NEW s, Typed(s), Counted(s), Arrived(s, s.requestCount),
           InWindow(s), s.requestCount < Len(s.queue), NEW t \in Chosen(s)
    PROVE  \/ t = Fails(s) /\ MayFail(s)
           \/ Busy(t) /\ t.starts = s.starts
<1>1. CASE Candidates(s) = {} \/ (\E k \in Candidates(s) : IsText(k)) \/ Wraps(s)
  <2>1. MayFail(s)
    BY <1>1, SomethingToChoose DEF IsText, MayFail, Stuck
  <2> QED BY <1>1, <2>1 DEF Chosen
<1>2. CASE ~(Candidates(s) = {} \/ (\E k \in Candidates(s) : IsText(k)) \/ Wraps(s))
  <2> DEFINE k == Pick(s)
             u == [s EXCEPT !.current = k, !.totalEst = Estimate(s, k)]
             v == PlanSeek(u)
  <2>1. t = AddRequest(v)
    BY <1>2 DEF Chosen
  <2>2. /\ Candidates(s) \subseteq (1 .. Len(s.queue)) \ s.done
        /\ Policy = "FIFO" => Candidates(s) \subseteq {s.requestCount + 1}
        /\ Sliding \/ Batched => Candidates(s) \subseteq 1 .. s.currWindow
    BY SomethingToChoose
  <2>3. k \in Candidates(s)
    BY <1>2, <2>2, PickIsCandidate
  <2> HIDE DEF k
  <2>4. /\ Fields \subseteq DOMAIN u /\ u.current = k
        /\ u.queue = s.queue /\ u.lateCount = s.lateCount /\ u.done = s.done
        /\ u.requestCount = s.requestCount /\ u.currWindow = s.currWindow
        /\ u.angle = s.angle /\ u.armTrack = s.armTrack
        /\ u.armTarget = s.armTarget /\ u.starts = s.starts /\ u.isDone = s.isDone
        /\ u.failed = s.failed
    BY DEF Typed, Fields
  <2> HIDE DEF u
  <2>5. Typed(u) /\ u.current \in 1 .. Len(u.queue) /\ LetIn(u)
    BY <2>2, <2>3, <2>4 DEF Typed, LetIn
  <2>6. OnlyArm(u, v)
    BY <2>5, SeekIsPlanned
  <2> HIDE DEF v
  <2>7. Typed(v) /\ Counted(v) /\ Arrived(v, v.requestCount)
    BY <2>4, <2>6 DEF OnlyArm, SameBooks, Counted, Arrived
  <2>8. InWindow(v)
    BY <2>4, <2>6 DEF OnlyArm, SameBooks, InWindow, LetsIn
  <2>9. LetIn(v) /\ v.starts = s.starts
    BY <2>4, <2>5, <2>6 DEF OnlyArm, SameBooks, LetIn
  <2> QED BY <2>1, <2>7, <2>8, <2>9, RequestArrives
<1> QED BY <1>1, <1>2

\* The disk has done what it was given.
Served(s) ==
    /\ Len(s.queue) = s.requestCount /\ s.done = 1 .. Len(s.queue)
    /\ requests # <<>> => Len(s.queue) = Len(requests) + Len(lateRequests.blocks)

\* The call of GetNextIO ends the program, or the next request is served.
LEMMA NextIsServed ==
    ASSUME Started, NEW s, Ready(s), NEW t \in GetNextIO(s)
    PROVE  \/ t = [s EXCEPT !.isDone = TRUE] /\ s.requestCount = Len(s.queue)
           \/ \E w : /\ t = Fails(w) /\ MayFail(w) /\ SameBooks(s, w) /\ Typed(w) /\ InWindow(w)
                     /\ ~Batched => w.currWindow = s.currWindow
           \/ Busy(t) /\ t.starts = s.starts
<1>1. CASE s.requestCount = Len(s.queue)
  BY <1>1 DEF GetNextIO
<1>2. CASE s.requestCount # Len(s.queue)
  <2>1. s.requestCount < Len(s.queue)
    <3>1. s.requestCount \in Nat /\ Len(s.queue) \in Nat /\ s.requestCount <= Len(s.queue)
      BY Numbers DEF Ready, Typed
    <3> QED BY <1>2, <3>1
  <2>2. CASE Policy = "FIFO"
    <3>1. t \in Chosen(s)
      BY <1>2, <2>2 DEF GetNextIO
    <3>2. SameBooks(s, s) /\ Typed(s) /\ InWindow(s)
      BY <2>1, <2>2 DEF Ready, AtWindow, Batched, SameBooks, Typed
    <3> QED BY <2>1, <3>1, <3>2, ChosenIsServed DEF Ready
  <2>3. CASE Policy # "FIFO"
    <3> DEFINE w == GetWindow(s)
    <3>1. t \in Chosen(w)
      BY <1>2, <2>3 DEF GetNextIO
    <3>2. /\ SameBooks(s, w) /\ Typed(w) /\ InWindow(w)
          /\ ~Batched => w.currWindow = s.currWindow
      BY <2>1, <2>3, GetWindowMoves
    <3> HIDE DEF w
    <3>3. Counted(w) /\ Arrived(w, w.requestCount) /\ w.requestCount < Len(w.queue)
      BY <2>1, <3>2 DEF SameBooks, Ready, Counted, Arrived
    <3>4. w.starts = s.starts
      BY <3>2 DEF SameBooks
    <3> QED BY <3>1, <3>2, <3>3, <3>4, ChosenIsServed
  <2> QED BY <2>2, <2>3
<1> QED BY <1>1, <1>2

-----------------------------------------------------------------------------
\* What a disk may be that does not serve a request: it has served all of them, or
\* it has failed for a known reason.
Good(s) ==
    IF s.failed THEN MayFail(s)
    ELSE IF s.isDone THEN Served(s)
    ELSE Busy(s)

\* With the request counted and the window moved the next one can be chosen.
LEMMA FinishedIsReady ==
    ASSUME Started, NEW s, Busy(s)
    PROVE  LET u == UpdateWindow(Finished(s)) IN
           /\ Ready(u) /\ u.queue = s.queue /\ u.current = s.current /\ u.starts = s.starts
           /\ Arrived(u, u.requestCount) /\ u.armTrack = s.armTrack
           /\ u.failed = FALSE
<1> DEFINE r == s.requestCount
           W == options.window
           f == Finished(s)
           u == UpdateWindow(f)
           c == IF fairWindow = -1 /\ s.currWindow > 0 /\ s.currWindow < Len(s.queue)
                THEN s.currWindow + 1 ELSE s.currWindow
<1>1. /\ r \in Nat /\ s.currWindow \in Int /\ Len(s.queue) \in Nat
      /\ Typed(s) /\ Counted(s) /\ s.done \subseteq 1 .. Len(s.queue)
      /\ s.current \in 1 .. Len(s.queue) /\ s.current \notin s.done
  BY Numbers DEF Busy, Typed, LetIn
<1>2. c \in Int
  BY <1>1
<1>3. /\ Fields \subseteq DOMAIN f /\ f.current = s.current
      /\ f.queue = s.queue /\ f.lateCount = s.lateCount
      /\ f.done = s.done \cup {s.current} /\ f.requestCount = r + 1
      /\ f.currWindow = s.currWindow /\ f.angle = s.angle /\ f.armTrack = s.armTrack
      /\ f.armTarget = s.armTarget /\ f.starts = s.starts /\ f.isDone = s.isDone
      /\ f.failed = s.failed
  BY <1>1 DEF Typed, Fields, Finished
<1> HIDE DEF f
<1>4. u = [f EXCEPT !.currWindow = c]
  BY <1>3 DEF UpdateWindow, Fields
<1>5. /\ Fields \subseteq DOMAIN u /\ u.current = s.current
      /\ u.queue = s.queue /\ u.lateCount = s.lateCount
      /\ u.done = s.done \cup {s.current} /\ u.requestCount = r + 1
      /\ u.currWindow = c /\ u.angle = s.angle /\ u.armTrack = s.armTrack
      /\ u.armTarget = s.armTarget /\ u.starts = s.starts /\ u.isDone = s.isDone
      /\ u.failed = s.failed
  BY <1>3, <1>4 DEF Fields
<1> HIDE DEF u
<1>6. Typed(u)
  BY <1>1, <1>2, <1>5 DEF Typed
<1>7. Counted(u)
  <2>1. Cardinality(u.done) = Cardinality(s.done) + 1
    <3>1. IsFiniteSet(s.done)
      BY <1>1, Numbers
    <3> DEFINE e == s.current
               S == s.done
    <3>2. e \notin S
      BY <1>1
    <3> HIDE DEF e, S
    <3>3. Cardinality(S \cup {e}) = Cardinality(S) + 1
      BY <3>1, <3>2, FS_AddElement DEF S
    <3> QED BY <1>5, <3>3 DEF e, S
  <2> QED BY <1>1, <1>5, <2>1 DEF Counted
<1>8. Arrived(u, u.requestCount)
  BY <1>5 DEF Busy, Arrived
<1>9. ASSUME r + 1 < Len(s.queue) PROVE AtWindow(u)
  <2>1. CASE Policy = "FIFO"
    <3>1. s.done = 1 .. r /\ s.current = r + 1
      BY <2>1 DEF Busy, InWindow, LetIn
    <3>2. u.done = 1 .. r + 1
      BY <1>1, <1>5, <3>1
    <3> QED BY <1>5, <2>1, <3>2 DEF AtWindow, InWindow, Batched, Sliding
  <2>2. CASE Policy # "FIFO" /\ W = -1
    <3>1. s.currWindow = -1
      BY <2>2 DEF Busy, InWindow
    <3>2. c = -1
      BY <3>1
    <3> QED BY <1>5, <2>2, <3>2 DEF AtWindow, InWindow, Batched, Sliding
  <2>3. CASE Sliding
    <3>1. s.currWindow \in r + 1 .. r + W /\ fairWindow = -1 /\ W \in Nat
      BY <1>1, <2>3, Batches DEF Busy, InWindow, fairWindow, Sliding
    <3>2. c \in (r + 1) + 1 .. (r + 1) + W
      BY <1>1, <1>9, <3>1
    <3> QED BY <1>5, <2>3, <3>2 DEF AtWindow, InWindow, Batched, Sliding
  <2>4. CASE Batched
    <3>1. c = s.currWindow /\ W # -1
      BY <2>4, <1>1, Batches DEF Batched, fairWindow
    <3>2. /\ s.currWindow >= 1 /\ LetsIn(s, BatchEnd(r))
          /\ s.starts <= 1 =>
                /\ s.currWindow <= BatchEnd(r) /\ s.done \subseteq 1 .. BatchEnd(r)
                /\ 1 .. BatchBegin(r) \subseteq s.done /\ s.current <= s.currWindow
      BY <2>4 DEF Busy, InWindow, LetIn
    <3>3. /\ W \in Nat \ {0} /\ BatchBegin(r) \in Nat /\ BatchEnd(r) \in Nat
          /\ (r + 1) % W = 0 => BatchEnd(r) = r + 1 /\ BatchBegin(r + 1) = r + 1
          /\ (r + 1) % W # 0 => BatchBegin(r + 1) = BatchBegin(r)
      <4> HIDE DEF r
      <4> QED BY <1>1, <3>1, Batches
    <3>4. LetsIn(u, BatchEnd(r))
      BY <1>5, <3>1, <3>2 DEF LetsIn
    <3>5. s.starts <= 1 => s.done \cup {s.current} \subseteq 1 .. BatchEnd(r)
      BY <1>1, <3>2, <3>3
    <3>6. CASE (r + 1) % W = 0
      BY <1>1, <1>5, <2>4, <3>1, <3>2, <3>3, <3>4, <3>5, <3>6 DEF AtWindow
    <3>7. CASE (r + 1) % W # 0
      <4>1. BatchEnd(r + 1) = BatchEnd(r) /\ BatchBegin(r + 1) = BatchBegin(r)
        BY <3>3, <3>7 DEF BatchEnd
      <4>2. InWindow(u)
        <5>1. Policy = "BSATF" /\ W # -1 /\ ~Sliding
          BY <2>4 DEF Batched, Sliding
        <5> QED BY <1>1, <1>5, <3>1, <3>2, <3>4, <3>5, <4>1, <5>1 DEF InWindow
      <4> QED BY <1>5, <3>7, <4>2 DEF AtWindow
    <3> QED BY <3>6, <3>7
  <2>5. Policy = "FIFO" \/ (Policy # "FIFO" /\ W = -1) \/ Sliding \/ Batched
    BY DiskAssumption DEF Sliding, Batched, Started, DiskAssumption, Policy
  <2> QED BY <2>1, <2>2, <2>3, <2>4, <2>5
<1>10. Ready(u)
  BY <1>5, <1>6, <1>7, <1>8, <1>9 DEF Ready
<1>11. u.failed = FALSE
  BY <1>1, <1>5 DEF Typed, Counted
<1> QED BY <1>5, <1>8, <1>10, <1>11 DEF u, f

-----------------------------------------------------------------------------
\* When all requests are done the late ones are among them.
LEMMA AllAreServed ==
    ASSUME Started, NEW s, Ready(s), s.requestCount = Len(s.queue)
    PROVE  Served([s EXCEPT !.isDone = TRUE])
<1>1. s.done = 1 .. Len(s.queue)
  BY Numbers DEF Ready
<1>2. ASSUME requests # <<>> PROVE s.lateCount = Len(lateRequests.blocks)
  <2>1. Len(requests) \in Nat /\ Len(requests) # 0
    BY <1>2, LenProperties, EmptySeq DEF Started
  <2>2. s.requestCount = Len(requests) + s.lateCount /\ s.lateCount \in Nat
    BY DEF Ready, Counted, Typed
  <2> QED BY <2>1, <2>2 DEF Ready, Arrived
<1>3. requests # <<>> => Len(s.queue) = Len(requests) + Len(lateRequests.blocks)
  BY <1>2 DEF Ready, Counted
<1> DEFINE t == [s EXCEPT !.isDone = TRUE]
<1>4. t.queue = s.queue /\ t.done = s.done /\ t.requestCount = s.requestCount
  OBVIOUS
<1> HIDE DEF t
<1>5. Served(t)
  BY <1>1, <1>3, <1>4 DEF Served
<1> QED BY <1>5 DEF t

\* The parts of Animate that move the platter and the arm.
LEMMA PlatterAndArm ==
    ASSUME Started, NEW s, Typed(s)
    PROVE  OnlyArm(s, Rotate(s)) /\ OnlyArm(s, Seek(s)) /\ OnlyArm(s, Settle(s))
<1>1. s.angle + options.rotateSpeed \in Int
  BY DiskAssumption DEF Typed, Started, DiskAssumption
<1>2. OnlyArm(s, Rotate(s))
  BY <1>1 DEF Rotate, OnlyArm, SameBooks, Typed, Fields
<1>3. OnlyArm(s, Seek(s))
  <2> DEFINE a == s.arm + s.armSpeed
             t == [s EXCEPT !.arm = a]
             u == [s EXCEPT !.arm = a, !.armTrack = s.armTarget, !.rotBegin = s.timer,
                            !.state = "ROTATE"]
  <2>1. OnlyArm(s, s)
    BY DEF OnlyArm, SameBooks, Typed
  <2>2. Seek(s) \in {s, t, u}
    BY DEF Seek
  <2> HIDE DEF a
  <2>3. OnlyArm(s, t)
    BY DEF OnlyArm, SameBooks, Typed, Fields
  <2>4. OnlyArm(s, u)
    BY DEF OnlyArm, SameBooks, Typed, Fields
  <2> QED BY <2>1, <2>2, <2>3, <2>4
<1>4. OnlyArm(s, Settle(s))
  <2> DEFINE t == [s EXCEPT !.xferBegin = s.timer, !.state = "XFER"]
  <2>1. OnlyArm(s, s)
    BY DEF OnlyArm, SameBooks, Typed
  <2>2. Settle(s) \in {s, t}
    BY DEF Settle
  <2>3. OnlyArm(s, t)
    BY DEF OnlyArm, SameBooks, Typed, Fields
  <2> QED BY <2>1, <2>2, <2>3
<1> QED BY <1>2, <1>3, <1>4

\* A block is not next to itself.
LEMMA NotAdjacent ==
    ASSUME Started, NEW s, s.armTrack \in 0 .. 2, NEW b \in Blocks
    PROVE  ~Adjacent(s, b, b)
<1>1. b \in Nat
  BY BlockPlaces
<1>2. tracksBegin(s.armTrack) < tracksEnd(s.armTrack) /\ tracksBegin(s.armTrack) \in Nat
  BY Layout DEF tracksBegin
<1> DEFINE x == tracksBegin(s.armTrack)
           y == tracksEnd(s.armTrack)
<1>3. Adjacent(s, b, b) => (b = y /\ b = x) \/ b + 1 = b
  BY DEF Adjacent
<1>4. x < y /\ x \in Nat
  BY <1>2
<1> HIDE DEF x, y
<1> QED BY <1>1, <1>3, <1>4

\* A disk that fails, and one that is counted as started, has the same causes.
LEMMA FailsForCause ==
    ASSUME NEW w, Fields \subseteq DOMAIN w, MayFail(w)
    PROVE  /\ MayFail(Fails(w)) /\ Fails(w).failed = TRUE /\ Fails(w).starts = w.starts
           /\ MayFail([Fails(w) EXCEPT !.starts = 1])
<1> DEFINE v == Fails(w)
           e == [v EXCEPT !.starts = 1]
<1>1. /\ v.queue = w.queue /\ v.done = w.done /\ v.requestCount = w.requestCount
      /\ v.currWindow = w.currWindow /\ v.angle = w.angle /\ v.armTrack = w.armTrack
      /\ v.failed = TRUE /\ v.starts = w.starts
  BY DEF Fails, Fields
<1>2. /\ e.queue = w.queue /\ e.done = w.done /\ e.requestCount = w.requestCount
      /\ e.currWindow = w.currWindow /\ e.angle = w.angle /\ e.armTrack = w.armTrack
  BY DEF Fails, Fields
<1> HIDE DEF v, e
<1>3. MayFail(v) /\ MayFail(e)
  BY <1>1, <1>2, SameCause
<1> QED BY <1>1, <1>3 DEF v, e

\* The end of a transfer.
LEMMA TransferIsGood ==
    ASSUME Started, NEW s, Busy(s), NEW t \in Transfer(s)
    PROVE  Good(t) /\ t.starts = s.starts
<1>1. CASE t = s
  BY <1>1 DEF Good, Busy, Counted
<1>2. CASE t # s
  <2> DEFINE u == UpdateWindow(Finished(s))
             b == s.queue[s.current]
  <2>1. PICK v \in GetNextIO(u) : t = StayInTransfer(v, b)
    BY <1>2 DEF Transfer
  <2>2. /\ Ready(u) /\ u.queue = s.queue /\ u.current = s.current /\ u.starts = s.starts
        /\ u.armTrack = s.armTrack /\ u.failed = FALSE
    BY FinishedIsReady
  <2>3. b \in Blocks /\ s.armTrack \in 0 .. 2
    BY ElementOfSeq DEF Busy, Typed, LetIn
  <2> HIDE DEF u, b
  <2>4. CASE v = [u EXCEPT !.isDone = TRUE] /\ u.requestCount = Len(u.queue)
    <3>1. Served(v)
      BY <2>2, <2>4, AllAreServed
    <3>2. /\ v.queue = s.queue /\ v.current = s.current /\ v.armTrack = s.armTrack
          /\ v.starts = s.starts /\ v.failed = FALSE /\ v.isDone = TRUE
      BY <2>2, <2>4 DEF Ready, Typed, Fields
    <3>3. t = v
      <4>1. ~Adjacent(v, b, b)
        BY <2>3, <3>2, NotAdjacent
      <4>2. v.queue[v.current] = b
        BY <3>2 DEF b
      <4> QED BY <2>1, <4>1, <4>2 DEF StayInTransfer
    <3> QED BY <3>1, <3>2, <3>3 DEF Good
  <2>5. ASSUME NEW w, v = Fails(w), SameBooks(u, w), MayFail(w)
        PROVE  t = v /\ v.failed = TRUE /\ v.starts = s.starts /\ MayFail(v)
    <3>1. v.failed = TRUE /\ v.starts = w.starts /\ MayFail(v)
      BY <2>5, FailsForCause DEF SameBooks
    <3>2. t = v
      BY <2>1, <3>1 DEF StayInTransfer
    <3> QED BY <2>2, <2>5, <3>1, <3>2 DEF SameBooks
  <2>6. CASE Busy(v) /\ v.starts = u.starts
    <3> DEFINE w == [v EXCEPT !.rotBegin = v.timer, !.seekBegin = v.timer,
                              !.xferBegin = v.timer, !.state = "XFER",
                              !.done = v.done \ {v.current}]
    <3>1. t \in {v, w}
      BY <2>1 DEF StayInTransfer
    <3>2. v.done \ {v.current} = v.done
      BY <2>6 DEF Busy, LetIn
    <3>3. OnlyArm(v, w)
      BY <2>6, <3>2 DEF Busy, OnlyArm, SameBooks, Typed, Fields
    <3> HIDE DEF w
    <3>4. Busy(w) /\ w.starts = v.starts
      BY <2>6, <3>3, StillBusy DEF OnlyArm, SameBooks
    <3>5. Busy(t) /\ t.starts = s.starts
      BY <2>2, <2>6, <3>1, <3>4
    <3> QED BY <3>5 DEF Good, Busy, Counted
  <2> QED BY <2>1, <2>2, <2>4, <2>5, <2>6, NextIsServed DEF Good
<1> QED BY <1>1, <1>2

\* One call of Animate.
LEMMA TickIsGood ==
    ASSUME Started, NEW s, Busy(s), NEW t \in Tick(s)
    PROVE  Good(t) /\ t.starts = s.starts
<1> DEFINE u == Rotate(s)
           v == Seek(u)
           w == Settle(v)
<1>1. t \in Transfer(w)
  BY DEF Tick
<1>2. Busy(u) /\ u.starts = s.starts
  BY PlatterAndArm, StillBusy DEF Busy, OnlyArm, SameBooks
<1> HIDE DEF u
<1>3. Busy(v) /\ v.starts = s.starts
  BY <1>2, PlatterAndArm, StillBusy DEF Busy, OnlyArm, SameBooks
<1> HIDE DEF v
<1>4. Busy(w) /\ w.starts = s.starts
  BY <1>3, PlatterAndArm, StillBusy DEF Busy, OnlyArm, SameBooks
<1> HIDE DEF w
<1> QED BY <1>1, <1>4, TransferIsGood

-----------------------------------------------------------------------------
\* The inductive invariant: before the start the disk is as it was made, and then it
\* serves a request that was let in, unless it has stopped for a known reason.
IInv ==
    /\ Started
    /\ IF d.starts = 0 THEN d = Start0 ELSE Good(d)

\* What main gives the program.
LEMMA InitStarted == Init => Started
<1> SUFFICES ASSUME Init PROVE Started
  OBVIOUS
<1>1. ASSUME NEW l \in Seq(Nat), Range(l) \subseteq Blocks PROVE l \in Seq(Blocks)
  <2>1. Len(l) \in Nat /\ l \in [1 .. Len(l) -> Nat]
    BY LenProperties
  <2>2. \A k \in 1 .. Len(l) : l[k] \in Blocks
    BY <1>1, <2>1 DEF Range
  <2>3. l \in [1 .. Len(l) -> Blocks]
    BY <2>1, <2>2
  <2> QED BY <2>1, <2>3
<1>2. requests \in Seq(Nat) /\ lateRequests.blocks \in Seq(Nat)
  BY DiskAssumption DEF Init, DiskAssumption
<1> QED BY <1>1, <1>2 DEF Init, Started

\* The disk as __init__ makes it can choose its first request.
LEMMA StartIsReady ==
    ASSUME Started
    PROVE  Ready(Start0)
<1> DEFINE s == Start0
           W == options.window
<1>1. /\ Fields \subseteq DOMAIN s
      /\ s.queue = requests /\ s.done = {} /\ s.lateCount = 0 /\ s.requestCount = 0
      /\ s.currWindow = W /\ s.current = 0 /\ s.angle = 0 /\ s.armTrack = 0
      /\ s.armTarget = 0 /\ s.starts = 0 /\ s.isDone = FALSE /\ s.failed = FALSE
  BY DEF Start0, Fields
<1> HIDE DEF s
<1>2. W \in Int /\ Len(requests) \in Nat /\ Len(lateRequests.blocks) \in Nat
  BY LenProperties, DiskAssumption DEF Started, DiskAssumption
<1>3. Typed(s)
  <2>1. s.isDone \in BOOLEAN /\ s.failed \in BOOLEAN
    BY <1>1
  <2>2. s.queue \in Seq(Blocks) /\ s.done \subseteq 1 .. Len(s.queue) /\ s.currWindow \in Int
    BY <1>1, <1>2 DEF Started
  <2>3. /\ s.lateCount \in Nat /\ s.requestCount \in Nat /\ s.angle \in Int
        /\ s.armTrack \in 0 .. 2 /\ s.armTarget \in 0 .. 2 /\ s.starts \in Nat
    BY <1>1
  <2> QED BY <1>1, <2>1, <2>2, <2>3 DEF Typed
<1>4. Counted(s) /\ Arrived(s, s.requestCount)
  BY <1>1, <1>2, FS_EmptySet DEF Counted, Arrived
<1>5. ASSUME W # -1 PROVE W \in Nat \ {0} /\ BatchBegin(0) = 0 /\ BatchEnd(0) = W
  <2>1. W \in Nat \ {0} /\ BatchBegin(0) \in Nat /\ BatchBegin(0) <= 0
    BY <1>5, Batches
  <2> QED BY <2>1 DEF BatchEnd
<1>6. InWindow(s)
  <2>1. Policy = "FIFO" => s.done = 1 .. 0
    BY <1>1
  <2>2. CASE W = -1
    BY <1>1, <2>1, <2>2 DEF InWindow, Sliding, Batched
  <2>3. CASE W # -1
    <3>1. LetsIn(s, BatchEnd(0))
      BY <1>1, <1>5, <2>3 DEF LetsIn
    <3> QED BY <1>1, <1>5, <2>1, <2>3, <3>1 DEF InWindow, Sliding, Batched
  <2> QED BY <2>2, <2>3
<1> QED BY <1>1, <1>3, <1>4, <1>6 DEF Ready, AtWindow, s

\* The first press of the key "s".
LEMMA GoIsGood ==
    ASSUME Started, d = Start0, Go
    PROVE  Good(d') /\ d'.starts = 1
<1>1. PICK t \in GetNextIO(Start0) : d' = [t EXCEPT !.starts = 1]
  BY DEF Go
<1>2. Ready(Start0) /\ Start0.starts = 0 /\ Start0.failed = FALSE
  BY StartIsReady DEF Start0
<1> DEFINE e == [t EXCEPT !.starts = 1]
<1>3. CASE t = [Start0 EXCEPT !.isDone = TRUE] /\ Start0.requestCount = Len(Start0.queue)
  <2>1. Served(t)
    BY <1>2, <1>3, AllAreServed
  <2>2. /\ e.queue = t.queue /\ e.done = t.done /\ e.requestCount = t.requestCount
        /\ e.isDone = TRUE /\ e.failed = FALSE /\ e.starts = 1
    BY <1>2, <1>3 DEF Start0
  <2> HIDE DEF e
  <2>3. Served(e)
    BY <2>1, <2>2 DEF Served
  <2> QED BY <1>1, <2>2, <2>3 DEF Good, e
<1>4. ASSUME NEW w, t = Fails(w), SameBooks(Start0, w), MayFail(w)
      PROVE  Good(d') /\ d'.starts = 1
  <2>1. e.failed = TRUE /\ e.starts = 1
    BY <1>4 DEF Fails, SameBooks, Fields
  <2>2. MayFail(e)
    BY <1>4, FailsForCause DEF SameBooks
  <2> HIDE DEF e
  <2> QED BY <1>1, <2>1, <2>2 DEF Good, e
<1>5. CASE Busy(t) /\ t.starts = 0
  <2>1. /\ Fields \subseteq DOMAIN e /\ e.current = t.current
        /\ e.queue = t.queue /\ e.lateCount = t.lateCount /\ e.done = t.done
        /\ e.requestCount = t.requestCount /\ e.currWindow = t.currWindow
        /\ e.angle = t.angle /\ e.armTrack = t.armTrack
        /\ e.armTarget = t.armTarget /\ e.starts = 1 /\ e.isDone = t.isDone
        /\ e.failed = t.failed
    BY <1>5 DEF Busy, Typed, Fields
  <2> HIDE DEF e
  <2>2. Typed(e) /\ Counted(e) /\ Arrived(e, e.requestCount + 1)
    BY <1>5, <2>1 DEF Busy, Typed, Counted, Arrived
  <2>3. InWindow(e) /\ LetIn(e)
    <3>1. t.starts <= 1
      BY <1>5
    <3> QED BY <1>5, <2>1, <3>1 DEF Busy, InWindow, LetsIn, LetIn
  <2>4. Busy(e)
    BY <2>2, <2>3 DEF Busy
  <2> QED BY <1>1, <2>1, <2>4 DEF Good, Busy, Counted, e
<1> QED BY <1>1, <1>2, <1>3, <1>4, <1>5, NextIsServed

\* The key "s" while a request is served: the next one can be chosen.
LEMMA AgainIsReady ==
    ASSUME Started, NEW s, Busy(s), s.starts # 0
    PROVE  LET e == [s EXCEPT !.starts = @ + 1] IN
           /\ Fields \subseteq DOMAIN e /\ e.current = s.current
           /\ e.queue = s.queue /\ e.lateCount = s.lateCount /\ e.done = s.done
           /\ e.requestCount = s.requestCount /\ e.currWindow = s.currWindow
           /\ e.isDone = s.isDone /\ e.failed = s.failed
           /\ Typed(e) /\ Counted(e) /\ Arrived(e, e.requestCount + 1)
           /\ InWindow(e) /\ Ready(e) /\ e.requestCount # Len(e.queue)
           /\ ~(e.starts <= 1) /\ e.starts \notin {0, 1}
<1> DEFINE e == [s EXCEPT !.starts = @ + 1]
           r == s.requestCount
<1>1. /\ Fields \subseteq DOMAIN e /\ e.current = s.current
      /\ e.queue = s.queue /\ e.lateCount = s.lateCount /\ e.done = s.done
      /\ e.requestCount = s.requestCount /\ e.currWindow = s.currWindow
      /\ e.angle = s.angle /\ e.armTrack = s.armTrack
      /\ e.armTarget = s.armTarget /\ e.starts = s.starts + 1 /\ e.isDone = s.isDone
      /\ e.failed = s.failed
  BY DEF Busy, Typed, Fields
<1> HIDE DEF e
<1>2. s.starts \in Nat /\ s.starts # 0 /\ r \in Nat /\ s.currWindow \in Int
  BY DEF Busy, Typed
<1>3. ~(e.starts <= 1) /\ e.starts \notin {0, 1}
  BY <1>1, <1>2
<1>4. Typed(e) /\ Counted(e) /\ Arrived(e, r + 1) /\ Arrived(e, r)
  BY <1>1, <1>2 DEF Busy, Typed, Counted, Arrived
<1>5. InWindow(e)
  BY <1>1, <1>3 DEF Busy, InWindow, LetsIn
<1>6. AtWindow(e)
  <2>1. CASE Batched /\ r > 0 /\ r % options.window = 0
    <3>1. s.currWindow >= 1 /\ LetsIn(e, BatchEnd(r))
      BY <1>1, <1>5, <2>1 DEF InWindow
    <3>2. BatchEnd(r) \in Nat /\ r < BatchEnd(r)
      <4> HIDE DEF r
      <4> QED BY <1>2, <2>1, Batches DEF Batched
    <3>3. LetsIn(e, r)
      BY <1>1, <1>2, <3>1, <3>2 DEF LetsIn
    <3> QED BY <1>1, <1>3, <2>1, <3>1, <3>3 DEF AtWindow
  <2>2. CASE ~(Batched /\ r > 0 /\ r % options.window = 0)
    BY <1>1, <1>5, <2>2 DEF AtWindow
  <2> QED BY <2>1, <2>2
<1>7. Ready(e)
  BY <1>1, <1>4, <1>6 DEF Ready
<1>8. e.requestCount # Len(e.queue)
  <2>1. e.requestCount = Len(e.queue) => e.done = 1 .. Len(e.queue)
    BY <1>4, Numbers
  <2> QED BY <1>1, <2>1 DEF Busy, LetIn
<1> QED BY <1>1, <1>3, <1>4, <1>5, <1>7, <1>8 DEF e

\* And it is served, or the program reports an error.
LEMMA StartAgainIsGood ==
    ASSUME Started, Busy(d), StartAgain
    PROVE  Good(d') /\ d'.starts \notin {0, 1}
<1> DEFINE e == [d EXCEPT !.starts = @ + 1]
<1>1. PICK s \in GetNextIO(e) :
         d' \in IF s.failed THEN {[s EXCEPT !.failed = FALSE]} ELSE Tick(s)
  BY DEF StartAgain
<1>2. d.starts # 0
  BY DEF StartAgain, Busy, Typed
<1>3. /\ Fields \subseteq DOMAIN e /\ e.current = d.current
      /\ e.queue = d.queue /\ e.lateCount = d.lateCount /\ e.done = d.done
      /\ e.requestCount = d.requestCount /\ e.currWindow = d.currWindow
      /\ e.isDone = d.isDone /\ e.failed = d.failed
      /\ Typed(e) /\ Counted(e) /\ Arrived(e, e.requestCount + 1)
      /\ InWindow(e) /\ Ready(e) /\ e.requestCount # Len(e.queue)
      /\ ~(e.starts <= 1) /\ e.starts \notin {0, 1}
  BY <1>2, AgainIsReady, Zenon
<1> HIDE DEF e
<1>4. ASSUME NEW w, s = Fails(w), SameBooks(e, w), Typed(w), InWindow(w),
              ~Batched => w.currWindow = e.currWindow
       PROVE  Good(d') /\ d'.starts \notin {0, 1}
  <2> DEFINE x == [s EXCEPT !.failed = FALSE]
  <2>1. s.failed = TRUE /\ d' = x
    BY <1>1, <1>4 DEF Fails, SameBooks, Fields
  <2>2. /\ Fields \subseteq DOMAIN x /\ x.current = w.current
        /\ x.queue = w.queue /\ x.lateCount = w.lateCount /\ x.done = w.done
        /\ x.requestCount = w.requestCount /\ x.currWindow = w.currWindow
        /\ x.angle = w.angle /\ x.armTrack = w.armTrack
        /\ x.armTarget = w.armTarget /\ x.starts = w.starts /\ x.isDone = w.isDone
        /\ x.failed = FALSE
    BY <1>4 DEF Fails, Typed, Fields
  <2> HIDE DEF x
  <2>3. x.starts \notin {0, 1}
    BY <1>3, <1>4, <2>2 DEF SameBooks
  <2>4. Typed(x) /\ Counted(x) /\ Arrived(x, x.requestCount + 1)
    BY <1>3, <1>4, <2>2 DEF Typed, Counted, Arrived, SameBooks
  <2>5. InWindow(x)
    BY <1>4, <2>2 DEF InWindow, LetsIn
  <2>6. LetIn(x)
    <3>1. /\ x.queue = d.queue /\ x.done = d.done /\ x.current = d.current /\ ~(x.starts <= 1)
          /\ x.requestCount = d.requestCount
      BY <1>2, <1>3, <1>4, <2>2 DEF SameBooks
    <3>2. Sliding => x.currWindow = d.currWindow
      BY <1>3, <1>4, <2>2 DEF Sliding, Batched
    <3> QED BY <3>1, <3>2 DEF Busy, LetIn
  <2> QED BY <2>1, <2>2, <2>3, <2>4, <2>5, <2>6 DEF Good, Busy, Counted
<1>5. ASSUME Busy(s), s.starts = e.starts
       PROVE  Good(d') /\ d'.starts \notin {0, 1}
  <2>1. d' \in Tick(s)
    BY <1>1, <1>5 DEF Busy, Counted
  <2> QED BY <1>3, <1>5, <2>1, TickIsGood
<1> QED BY <1>3, <1>4, <1>5, NextIsServed

\* What is said of a disk is said under the same options and lists.
LEMMA SameStart ==
    ASSUME UNCHANGED <<options, requests, lateRequests>>, IInv
    PROVE  Started' /\ (Good(d') => Good(d)')
<1>1. options' = options /\ requests' = requests /\ lateRequests' = lateRequests
  OBVIOUS
<1>2. Blocks' = Blocks
  BY <1>1 DEF Blocks, tracksEnd, First, BlocksOn, angleOffset, blockAngleOffset
<1>3. Started'
  BY <1>1, <1>2 DEF IInv, Started
<1>4. (Stuck' <=> Stuck) /\ (Batched' <=> Batched) /\ (Sliding' <=> Sliding) /\ Policy' = Policy
  BY <1>1 DEF Stuck, WindowMayStick, Batched, Sliding, Policy
<1>5. Typed(d') => Typed(d)'
  BY <1>2 DEF Typed
<1>6. Counted(d') => Counted(d)'
  BY <1>1 DEF Counted
<1>7. Arrived(d', d'.requestCount + 1) => Arrived(d, d.requestCount + 1)'
  BY <1>1 DEF Arrived
<1>8. InWindow(d') => InWindow(d)'
  BY <1>1, <1>4 DEF InWindow, LetsIn, BatchBegin, BatchEnd
<1>9. LetIn(d') => LetIn(d)'
  BY <1>4 DEF LetIn
<1>10. Served(d') => Served(d)'
  BY <1>1 DEF Served
<1>11. MayFail(d') => MayFail(d)'
  <2>1. \A b : blockToTrack(b)' = blockToTrack(b)
    BY <1>1 DEF blockToTrack, tracksBegin, tracksEnd, First, BlocksOn, angleOffset, blockAngleOffset
  <2>2. Candidates(d') = Candidates(d)'
    BY <1>4 DEF Candidates, Pending, WindowEnd
  <2>3. \A P : DoSSTF(d', P) = DoSSTF(d, P)'
    BY <2>1 DEF DoSSTF, Distance
  <2>4. Compared(d') = Compared(d)'
    BY <1>4, <2>2, <2>3 DEF Compared
  <2>5. \A k : angleAtArrival(d', k) = angleAtArrival(d, k)'
    BY <1>1, <2>1 DEF angleAtArrival, SeekDegrees, Distance, trackWidth
  <2> QED BY <1>1, <1>4, <2>4, <2>5 DEF MayFail, Wraps, WindowMayStick
<1> QED BY <1>3, <1>4, <1>5, <1>6, <1>7, <1>8, <1>9, <1>10, <1>11 DEF Good, Busy

LEMMA Invariance == Spec => []IInv
<1>1. Init => IInv
  BY InitStarted DEF Init, IInv, Start0
<1>2. IInv /\ [Next]_vars => IInv'
  <2> SUFFICES ASSUME IInv, [Next]_vars PROVE IInv'
    OBVIOUS
  <2>1. CASE Next
    <3>1. UNCHANGED <<options, requests, lateRequests>>
      BY <2>1 DEF Next, Go, Animate, StartAgain
    <3>2. CASE Go
      <4>1. d = Start0
        BY <3>2 DEF Go, IInv
      <4> QED BY <3>1, <3>2, <4>1, GoIsGood, SameStart DEF IInv
    <3>3. CASE Animate
      <4>1. Busy(d) /\ d.starts \in Nat /\ d.starts # 0
        <5>1. d.starts # 0
          BY <3>3 DEF Animate
        <5>2. Busy(d)
          BY <3>3, <5>1 DEF Animate, Running, IInv, Good
        <5> QED BY <5>1, <5>2 DEF Busy, Typed
      <4>2. Good(d') /\ d'.starts = d.starts
        BY <3>3, <4>1, TickIsGood DEF Animate, IInv
      <4> QED BY <3>1, <4>1, <4>2, SameStart DEF IInv
    <3>4. CASE StartAgain
      <4>1. d.starts # 0
        BY <3>4 DEF StartAgain
      <4>2. Busy(d)
        BY <3>4, <4>1 DEF StartAgain, Running, IInv, Good
      <4>3. Good(d') /\ d'.starts # 0
        BY <3>4, <4>2, StartAgainIsGood DEF IInv
      <4> QED BY <3>1, <4>3, SameStart DEF IInv
    <3> QED BY <2>1, <3>2, <3>3, <3>4 DEF Next
  <2>2. CASE UNCHANGED vars
    <3>1. UNCHANGED <<options, requests, lateRequests>> /\ d' = d
      BY <2>2 DEF vars
    <3>2. Start0' = Start0
      BY <3>1 DEF Start0
    <3> QED BY <3>1, <3>2, SameStart DEF IInv
  <2> QED BY <2>1, <2>2
<1> QED BY <1>1, <1>2, PTL DEF Spec

-----------------------------------------------------------------------------
\* A request is served only when it is in the window: under FIFO in order, under
\* BSATF when all batches before its own are done, under SATF and SSTF at most a
\* window ahead of what is done.  GetWindow and UpdateWindow move the window, for
\* every window and every list of requests, the late ones included.
THEOREM WindowIsKept == Spec => []WindowIsRespected
<1>1. IInv => WindowIsRespected
  <2> DEFINE i == d.current - 1
             r == d.requestCount
             W == options.window
             size == IF Policy = "FIFO" THEN 1 ELSE W
  <2> SUFFICES ASSUME IInv, d.current # 0, Running, d.starts = 1
               PROVE  IF fairWindow # -1 \/ Policy = "FIFO"
                      THEN \A j \in 1 .. (i \div size) * size : j \in d.done
                      ELSE W = -1 \/ i < r + W
    BY DEF WindowIsRespected
  <2>1. Started /\ Busy(d) /\ d.starts <= 1
    BY DEF IInv, Good, Running
  <2>2. r \in Nat /\ i \in Nat /\ d.current \in Nat /\ d.currWindow \in Int
    BY <2>1, LenProperties DEF Busy, Typed, LetIn
  <2>3. CASE Policy = "FIFO"
    <3>1. i = r /\ d.done = 1 .. r /\ size = 1
      BY <2>1, <2>2, <2>3 DEF Busy, InWindow, LetIn
    <3>2. i \div 1 = i
      BY <2>2, DivModUnique, i = 1 * i + 0
    <3>3. (i \div size) * size = r
      BY <2>2, <3>1, <3>2
    <3> QED BY <2>3, <3>1, <3>3
  <2>4. CASE Batched
    <3>1. /\ fairWindow # -1 /\ size = W /\ W \in Nat \ {0} /\ Policy # "FIFO"
      BY <2>1, <2>2, <2>4, Batches DEF Batched, fairWindow
    <3>2. 1 .. BatchBegin(r) \subseteq d.done /\ i < BatchEnd(r)
      <4>1. d.currWindow <= BatchEnd(r) /\ d.current <= d.currWindow
        BY <2>1, <2>4 DEF Busy, InWindow, LetIn
      <4>2. BatchEnd(r) \in Nat
        <5> HIDE DEF r
        <5> QED BY <2>1, <2>2, <2>4, Batches DEF Batched
      <4> QED BY <2>1, <2>2, <2>4, <4>1, <4>2 DEF Busy, InWindow, LetIn, Typed
    <3> DEFINE q == r \div W
               p == i \div W
    <3>3. q \in Nat /\ p \in Nat
      <4> HIDE DEF r, i, W
      <4> QED BY <2>2, <3>1, DivNat
    <3>4. i < W * (q + 1)
      <4>1. BatchEnd(r) = q * W + W
        BY DEF BatchEnd, BatchBegin
      <4> HIDE DEF q, i
      <4>2. q * W + W = W * (q + 1)
        BY <3>1, <3>3
      <4> QED BY <3>2, <4>1, <4>2
    <3>5. p < q + 1
      <4>1. q + 1 \in Nat
        BY <3>3
      <4> HIDE DEF q, i, W
      <4> QED BY <2>2, <3>1, <3>4, <4>1, DivLess
    <3>6. p * W <= q * W /\ p * W \in Nat /\ q * W \in Nat
      <4> HIDE DEF p, q
      <4>1. p = q \/ p < q
        BY <3>3, <3>5
      <4>2. p < q => W * p + W <= W * q
        BY <3>1, <3>3, MulMonotone
      <4> QED BY <3>1, <3>3, <4>1, <4>2
    <3>7. BatchBegin(r) = q * W /\ (i \div size) * size = p * W
      BY <3>1 DEF BatchBegin
    <3> HIDE DEF p, q
    <3> QED BY <3>1, <3>2, <3>6, <3>7
  <2>5. CASE Sliding
    <3>1. d.currWindow \in r + 1 .. r + W /\ d.current <= d.currWindow
      BY <2>1, <2>5 DEF Busy, InWindow, LetIn
    <3>2. W \in Nat
      BY <2>1, <2>2, <2>5, Batches DEF Sliding
    <3>3. i < r + W
      BY <2>2, <3>1, <3>2
    <3> QED BY <2>5, <3>3 DEF Sliding, fairWindow
  <2>6. CASE Policy # "FIFO" /\ W = -1
    BY <2>6 DEF fairWindow
  <2>7. Policy = "FIFO" \/ Batched \/ Sliding \/ (Policy # "FIFO" /\ W = -1)
    BY <2>1, DiskAssumption DEF Sliding, Batched, Started, DiskAssumption, Policy
  <2> QED BY <2>3, <2>4, <2>5, <2>6, <2>7
<1> QED BY <1>1, Invariance, PTL

\* The disk stops for a reason: it has served every request of the queue, the late ones
\* included, each of them once; or it has failed because a late request is a string,
\* because disk-precise.py cut the window at the queue's end, or because disk-precise.py
\* has to wrap the angle at which the arm would arrive for a request it compares.  So
\* disk.py's DoSATF finds a best block whatever the policy and the window are, however
\* often the key "s" is pressed.
StopsForAReason == (d.failed => MayFail(d)) /\ (d.isDone /\ ~d.failed => Served(d))
THEOREM DiskServesOrSaysWhy == Spec => []StopsForAReason
<1>1. IInv => StopsForAReason
  <2> SUFFICES ASSUME IInv PROVE StopsForAReason
    OBVIOUS
  <2>1. d.starts = 0 => d.failed = FALSE /\ d.isDone = FALSE
    BY DEF IInv, Start0
  <2> QED BY <2>1 DEF IInv, Good, StopsForAReason
<1> QED BY <1>1, Invariance, PTL

-----------------------------------------------------------------------------
\* Where angles are multiples of the rotation per tick.
Fits ==
    /\ 360 % options.rotateSpeed = 0
    /\ \A t \in 0 .. 2 :
          /\ 360 % angleOffset(t) = 0 /\ angleOffset(t) < 360
          /\ angleOffset(t) % options.rotateSpeed = 0

\* The rotation from one angle to another.
To(x, y) == IF y >= x THEN y - x ELSE y - x + 360

\* It is less than a turn, and none to the same angle.
LEMMA RotationLeft ==
    ASSUME NEW x \in 0 .. 359, NEW y \in 0 .. 359
    PROVE  To(x, y) \in 0 .. 359 /\ To(x, y) \in Int /\ To(x, x) = 0
BY DEF To

\* Multiples of a number lie apart.
LEMMA Multiples ==
    ASSUME NEW c \in Nat \ {0}, NEW x \in Int, NEW y \in Int, x % c = 0, y % c = 0
    PROVE  /\ (x + y) % c = 0 /\ (y - x) % c = 0
           /\ x < y => x + c <= y
<1> DEFINE u == x \div c
           v == y \div c
<1>1. u \in Int /\ v \in Int /\ x = c * u /\ y = c * v
  <2>1. u \in Int /\ x = c * u + 0
    BY DivModFact
  <2>2. v \in Int /\ y = c * v + 0
    BY DivModFact
  <2> HIDE DEF u, v
  <2> QED BY <2>1, <2>2
<1> HIDE DEF u, v
<1>2. (x + y) % c = 0
  <2>1. x + y = c * (u + v) + 0 /\ u + v \in Int /\ x + y \in Int
    BY <1>1
  <2> QED BY <2>1, DivModUnique
<1>3. (y - x) % c = 0
  <2>1. y - x = c * (v - u) + 0 /\ v - u \in Int /\ y - x \in Int
    BY <1>1
  <2> QED BY <2>1, DivModUnique
<1>4. ASSUME x < y PROVE x + c <= y
  <2>1. u < v
    <3> SUFFICES ASSUME ~(u < v) PROVE FALSE
      OBVIOUS
    <3>1. v < u \/ u = v
      BY <1>1
    <3>2. v < u => c * v + c <= c * u
      BY <1>1, MulMonotone
    <3> QED BY <1>1, <1>4, <3>1, <3>2
  <2> QED BY <1>1, <2>1, MulMonotone
<1> QED BY <1>2, <1>3, <1>4

\* Angles that differ by full turns are the same.
LEMMA SameAngle ==
    ASSUME NEW x \in 0 .. 359, NEW y \in 0 .. 359, \E m \in Int : x = y + 360 * m
    PROVE  x = y
OBVIOUS

\* The angle a number stands for.
LEMMA AngleOf ==
    ASSUME NEW x \in Int
    PROVE  /\ x % 360 \in 0 .. 359
           /\ \E m \in Int : x = (x % 360) + 360 * m
<1>1. x % 360 \in 0 .. 359 /\ x \div 360 \in Int /\ x = 360 * (x \div 360) + (x % 360)
  BY DivModFact
<1> QED BY <1>1

\* A tick of the platter.
Turned(x) == IF x + options.rotateSpeed >= 360 THEN 0 ELSE x + options.rotateSpeed
OnTick(x) == x \in 0 .. 359 /\ x % options.rotateSpeed = 0

\* It brings every other angle nearer by the rotation per tick.
LEMMA Turning ==
    ASSUME Started, Fits, NEW x, OnTick(x)
    PROVE  /\ OnTick(Turned(x))
           /\ x + options.rotateSpeed \in {Turned(x), Turned(x) + 360}
           /\ \A y : OnTick(y) /\ x # y =>
                 To(Turned(x), y) = To(x, y) - options.rotateSpeed
<1> DEFINE c == options.rotateSpeed
<1>1. c \in Nat \ {0} /\ 360 % c = 0 /\ c % c = 0 /\ 0 % c = 0
  <2>1. c \in Nat \ {0} /\ 360 % c = 0
    BY DiskAssumption DEF Started, DiskAssumption, Fits
  <2> HIDE DEF c
  <2>2. c % c = 0
    BY <2>1, DivModUnique, c = c * 1 + 0
  <2>3. 0 % c = 0
    BY <2>1, DivModUnique, 0 = c * 0 + 0
  <2> QED BY <2>1, <2>2, <2>3
<1>2. x \in 0 .. 359 /\ x % c = 0
  BY DEF OnTick
<1> DEFINE z == Turned(x)
<1>3. z = IF x + c >= 360 THEN 0 ELSE x + c
  BY DEF Turned
<1> HIDE DEF c, z
<1>4. x + c <= 360 /\ (x + c) % c = 0
  <2>1. x \in Int /\ c \in Int /\ x < 360
    BY <1>1, <1>2
  <2>2. x + c <= 360
    BY <1>1, <1>2, <2>1, Multiples
  <2>3. (x + c) % c = 0
    BY <1>1, <1>2, <2>1, Multiples
  <2> QED BY <2>2, <2>3
<1>5. z \in 0 .. 359 /\ z % c = 0 /\ x + c \in {z, z + 360}
  BY <1>1, <1>2, <1>3, <1>4
<1>6. ASSUME NEW y, y \in 0 .. 359, y % c = 0, x # y PROVE To(z, y) = To(x, y) - c
  <2>1. x < y => x + c <= y
    <3>1. x \in Int /\ y \in Int
      BY <1>2, <1>6
    <3> QED BY <1>1, <1>2, <1>6, <3>1, Multiples
  <2> QED BY <1>1, <1>2, <1>3, <1>4, <1>6, <2>1 DEF To
<1> QED BY <1>5, <1>6 DEF OnTick, c, z

\* RadiallyCloseTo compares such angles exactly.
LEMMA CloseIsSame ==
    ASSUME Started, Fits, NEW x, NEW y, OnTick(x), OnTick(y)
    PROVE  RadiallyCloseTo(x, y) <=> x = y
<1> DEFINE c == options.rotateSpeed
<1>1. c \in Nat \ {0} /\ x \in 0 .. 359 /\ y \in 0 .. 359 /\ x % c = 0 /\ y % c = 0
  BY DiskAssumption DEF Started, DiskAssumption, OnTick
<1>2. RadiallyCloseTo(x, y) <=> Distance(x, y) < c
  BY DEF RadiallyCloseTo
<1> HIDE DEF c
<1>3. (x < y => x + c <= y) /\ (y < x => y + c <= x)
  <2>1. x \in Int /\ y \in Int
    BY <1>1
  <2> QED BY <1>1, <2>1, Multiples
<1> QED BY <1>1, <1>2, <1>3 DEF Distance

\* A block takes less than a turn, from where it begins to where it ends.
LEMMA BlockAngles ==
    ASSUME Started, Fits, NEW b \in Blocks
    PROVE  LET t == blockToTrack(b) begin == BeginAngle(b, t) end == EndAngle(b, t) IN
           /\ begin \in 0 .. 359 /\ end \in 0 .. 359 /\ begin # end
           /\ To(begin, end) = angleOffset(t)
           /\ OnTick(begin) => OnTick(end)
<1> DEFINE t     == blockToTrack(b)
           a     == blockToAngle(b)
           h     == blockAngleOffset(t)
           o     == angleOffset(t)
           c     == options.rotateSpeed
           begin == BeginAngle(b, t)
           end   == EndAngle(b, t)
<1>1. t \in 0 .. 2 /\ a \in Nat
  BY BlockPlaces
<1>2. h \in Nat /\ o = 2 * h /\ o < 360 /\ o > 0
  <2>1. h \in Nat /\ o = 2 * h /\ o < 360 /\ 360 % o = 0
    BY <1>1, Layout DEF angleOffset, Fits
  <2>2. h # 0
    <3>1. options.zones[t + 1] \in 2 .. 359
      BY <1>1, DiskAssumption, t + 1 \in 1 .. 3 DEF Started, DiskAssumption
    <3> DEFINE z == options.zones[t + 1]
    <3>2. z \in 2 .. 359 /\ h = z \div 2
      BY <3>1 DEF blockAngleOffset
    <3> HIDE DEF z, h
    <3> QED BY <3>2
  <2> HIDE DEF h, o
  <2> QED BY <2>1, <2>2
<1>3. begin = (a - h) % 360 /\ end = (a + h) % 360
  BY DEF BeginAngle, EndAngle
<1>4. o % c = 0 /\ 360 % c = 0 /\ c \in Nat \ {0}
  BY <1>1, DiskAssumption DEF Fits, Started, DiskAssumption
<1> HIDE DEF t, a, h, o, begin, end, c
<1>5. begin \in 0 .. 359 /\ end \in 0 .. 359
  BY <1>1, <1>2, <1>3, AngleOf
<1>6. PICK k \in Int : a - h = begin + 360 * k
  BY <1>1, <1>2, <1>3, AngleOf
<1>7. PICK l \in Int : a + h = end + 360 * l
  BY <1>1, <1>2, <1>3, AngleOf
<1>8. end = begin + o + 360 * (k - l)
  BY <1>1, <1>2, <1>5, <1>6, <1>7
<1>9. k - l \in Int /\ (end = begin + o \/ end = begin + o - 360)
  BY <1>2, <1>5, <1>8
<1>10. To(begin, end) = o /\ begin # end
  BY <1>2, <1>5, <1>9 DEF To
<1>11. ASSUME begin % c = 0 PROVE end % c = 0
  <2>1. begin \in Int /\ o \in Int /\ begin + o \in Int
    BY <1>2, <1>5
  <2>2. (begin + o) % c = 0
    BY <1>4, <1>11, <2>1, Multiples
  <2>3. (begin + o - 360) % c = 0
    <3> DEFINE g == begin + o
               turn == 360
    <3>1. g \in Int /\ g % c = 0 /\ turn \in Int /\ turn % c = 0
      BY <1>4, <2>1, <2>2
    <3> HIDE DEF g, turn
    <3>2. (g - turn) % c = 0
      BY <1>4, <3>1, Multiples
    <3>3. g - turn = begin + o - 360
      BY <2>1 DEF g, turn
    <3> QED BY <3>2, <3>3
  <2> QED BY <1>9, <2>2, <2>3
<1>12. OnTick(begin) => OnTick(end)
  BY <1>5, <1>11 DEF OnTick, c
<1> QED BY <1>5, <1>10, <1>12 DEF begin, end, t, o

\* One block of a track ends where another begins exactly if it is the next one.
LEMMA NextTo ==
    ASSUME Started, Fits, NEW b \in Blocks, NEW e \in Blocks, NEW s,
           s.armTrack = blockToTrack(b)
    PROVE  Adjacent(s, b, e) <=>
              /\ blockToTrack(b) = blockToTrack(e)
              /\ EndAngle(b, s.armTrack) = BeginAngle(e, s.armTrack)
<1> SUFFICES ASSUME blockToTrack(b) = blockToTrack(e)
             PROVE  Adjacent(s, b, e) <=> EndAngle(b, s.armTrack) = BeginAngle(e, s.armTrack)
  BY DEF Adjacent
<1> DEFINE t == s.armTrack
           h == blockAngleOffset(t)
           o == angleOffset(t)
           f == First(t)
           n == BlocksOn(t)
           p == o * options.skew * t + 180
           x == blockToAngle(b)
           y == blockToAngle(e)
           end   == EndAngle(b, t)
           begin == BeginAngle(e, t)
<1>1. t \in 0 .. 2 /\ b \in f .. f + n - 1 /\ e \in f .. f + n - 1
  <2>1. t \in 0 .. 2
    BY BlockPlaces
  <2>2. \A k \in Blocks : k \in tracksBegin(blockToTrack(k)) .. tracksEnd(blockToTrack(k))
    <3> TAKE k \in Blocks
    <3>1. /\ BlocksOn(0) \in Nat /\ BlocksOn(1) \in Nat /\ BlocksOn(2) \in Nat
          /\ BlocksOn(0) >= 2 /\ BlocksOn(1) >= 2 /\ BlocksOn(2) >= 2
      BY Layout
    <3>2. \E u \in 0 .. 2 : k \in tracksBegin(u) .. tracksEnd(u)
      BY <3>1 DEF Blocks, tracksBegin, tracksEnd, First
    <3> QED BY <3>2 DEF blockToTrack
  <2> QED BY <2>1, <2>2 DEF tracksBegin, tracksEnd
<1>2. /\ h \in Nat /\ o \in Nat \ {0} /\ o = 2 * h /\ 360 % o = 0 /\ n \in Nat /\ n >= 2
      /\ f \in Nat /\ p \in Int
  <2>1. /\ h \in Nat /\ o \in Nat /\ o = 2 * h /\ 360 % o = 0 /\ n \in Nat /\ n >= 2
        /\ f \in Nat
    BY <1>1, Layout DEF angleOffset, Fits
  <2>2. To(BeginAngle(b, t), EndAngle(b, t)) = o /\ BeginAngle(b, t) # EndAngle(b, t)
        /\ BeginAngle(b, t) \in 0 .. 359 /\ EndAngle(b, t) \in 0 .. 359
    <3>1. t = blockToTrack(b)
      OBVIOUS
    <3> HIDE DEF t
    <3> QED BY <3>1, BlockAngles DEF o
  <2>3. o # 0
    <3> DEFINE i == BeginAngle(b, t)
               j == EndAngle(b, t)
    <3>1. To(i, j) = o /\ i # j /\ i \in 0 .. 359 /\ j \in 0 .. 359
      BY <2>2
    <3> HIDE DEF i, j, o
    <3> QED BY <3>1 DEF To
  <2>4. options.skew \in Nat
    BY DiskAssumption DEF Started, DiskAssumption
  <2>5. p \in Int
    <3> HIDE DEF t, o
    <3> QED BY <1>1, <2>1, <2>4 DEF t
  <2> QED BY <2>1, <2>3, <2>5
<1>3. n = (360 + o - 1) \div o
  BY DEF BlocksOn
<1>4. /\ x = ((b - f) * o + p) % 360 /\ y = ((e - f) * o + p) % 360
      /\ end = (x + h) % 360 /\ begin = (y - h) % 360
  <2> DEFINE u == o * options.skew * t
             v == (b - f) * o
             w == (e - f) * o
  <2>1. x = (v + u + 180) % 360 /\ y = (w + u + 180) % 360
    BY DEF blockToAngle
  <2>2. end = (x + h) % 360 /\ begin = (y - h) % 360
    BY DEF EndAngle, BeginAngle
  <2>3. v \in Int /\ w \in Int /\ u + 180 = p
    <3> HIDE DEF f, o
    <3> QED BY <1>1, <1>2
  <2>4. u \in Int
    <3>1. options.skew \in Nat
      BY DiskAssumption DEF Started, DiskAssumption
    <3> HIDE DEF o, t
    <3> QED BY <1>1, <1>2, <3>1
  <2> HIDE DEF u, v, w, p
  <2>5. v + u + 180 = v + p /\ w + u + 180 = w + p
    BY <2>3, <2>4
  <2> QED BY <2>1, <2>2, <2>5 DEF v, w
<1>5. Adjacent(s, b, e) <=> (b = f + n - 1 /\ e = f) \/ b + 1 = e
  BY DEF Adjacent, tracksBegin, tracksEnd
<1> HIDE DEF t, h, o, f, n, p, x, y, end, begin
\* The blocks of a track are one turn.
<1>6. n * o = 360
  <2> DEFINE q == 360 \div o
  <2>1. q \in Int /\ 360 = o * q
    <3> DEFINE turn == 360
    <3>1. turn \in Int /\ q = turn \div o /\ turn % o = 0
      BY <1>2
    <3> HIDE DEF turn, q
    <3>2. q \in Int /\ turn = o * q + (turn % o)
      BY <1>2, <3>1, DivModFact
    <3>3. turn = o * q
      BY <1>2, <3>1, <3>2
    <3> QED BY <3>2, <3>3 DEF turn
  <2> HIDE DEF q
  <2>2. 360 + o - 1 = o * q + (o - 1) /\ o - 1 \in 0 .. o - 1 /\ 360 + o - 1 \in Int
    BY <1>2, <2>1
  <2>3. n = q
    BY <1>2, <1>3, <2>1, <2>2, DivModUnique
  <2> QED BY <1>2, <2>1, <2>3
<1>7. (b - f) * o + p \in Int /\ (e - f) * o + p \in Int
  BY <1>1, <1>2
<1> DEFINE v == (b - f) * o + p
           w == (e - f) * o + p
<1>8. /\ x \in 0 .. 359 /\ y \in 0 .. 359
      /\ \E k \in Int : v = x + 360 * k
      /\ \E k \in Int : w = y + 360 * k
  <2> HIDE DEF v, w
  <2>1. v \in Int /\ w \in Int /\ x = v % 360 /\ y = w % 360
    BY <1>4, <1>7 DEF v, w
  <2> QED BY <2>1, AngleOf
<1>9. /\ end \in 0 .. 359 /\ begin \in 0 .. 359
      /\ \E k \in Int : x + h = end + 360 * k
      /\ \E k \in Int : y - h = begin + 360 * k
  <2>1. x + h \in Int /\ y - h \in Int
    BY <1>2, <1>8
  <2> QED BY <1>4, <2>1, AngleOf
<1>10. PICK k1 \in Int : v = x + 360 * k1
  BY <1>8
<1>11. PICK k2 \in Int : w = y + 360 * k2
  BY <1>8
<1>12. PICK k3 \in Int : x + h = end + 360 * k3
  BY <1>9
<1>13. PICK k4 \in Int : y - h = begin + 360 * k4
  BY <1>9
<1> DEFINE z == b - e + 1
           m == k1 + k3 - k2 - k4
<1>14. z * o = end - begin + 360 * m /\ m \in Int /\ z \in Int
  <2>1. v - w = (b - e) * o
    BY <1>1, <1>2
  <2>2. z * o = (b - e) * o + o
    BY <1>1, <1>2
  <2>3. v \in Int /\ w \in Int /\ (b - e) * o \in Int /\ z \in Int
    BY <1>1, <1>2, <1>7
  <2> DEFINE g == (b - e) * o
             i == z * o
  <2>4. v - w = g /\ i = g + o /\ v \in Int /\ w \in Int /\ g \in Int /\ z \in Int
    BY <2>1, <2>2, <2>3
  <2> HIDE DEF v, w, g, i, z
  <2>5. x \in Int /\ y \in Int /\ end \in Int /\ begin \in Int /\ h \in Int /\ o = 2 * h
    BY <1>2, <1>8, <1>9
  <2>6. g = x - y + 360 * k1 - 360 * k2
    BY <1>10, <1>11, <2>4, <2>5
  <2>7. g + o = end - begin + 360 * m
    BY <1>12, <1>13, <2>4, <2>5, <2>6
  <2> QED BY <2>4, <2>7 DEF i
<1>15. z \in -(n - 2) .. n
  BY <1>1, <1>2
<1> HIDE DEF z, m
<1>16. ASSUME end = begin PROVE z = 0 \/ z = n
  <2>1. o * z = o * (n * m)
    <3>1. z * o = (n * o) * m
      BY <1>2, <1>6, <1>9, <1>14, <1>16
    <3>2. (n * o) * m = o * (n * m) /\ z * o = o * z
      BY <1>2, <1>14
    <3> QED BY <3>1, <3>2
  <2>2. z = n * m
    BY <1>2, <1>14, <2>1, SameCell, n * m \in Int, o * z + 0 = o * (n * m) + 0
  <2>3. m = 0 \/ m = 1
    <3>1. ~(m < 0)
      <4> SUFFICES ASSUME m < 0 PROVE FALSE
        OBVIOUS
      <4>1. n * m + n <= n * 0
        BY <1>2, <1>14, MulMonotone
      <4> QED BY <1>2, <1>14, <1>15, <2>2, <4>1
    <3>2. ~(1 < m)
      <4> SUFFICES ASSUME 1 < m PROVE FALSE
        OBVIOUS
      <4>1. n * 1 + n <= n * m
        BY <1>2, <1>14, MulMonotone
      <4> QED BY <1>2, <1>14, <1>15, <2>2, <4>1
    <3> QED BY <1>14, <3>1, <3>2
  <2> QED BY <1>2, <2>2, <2>3
<1>17. ASSUME z = 0 \/ z = n PROVE end = begin
  <2>1. z * o = 0 \/ z * o = 360
    BY <1>2, <1>6, <1>17
  <2>2. end \in 0 .. 359 /\ begin \in 0 .. 359 /\ m \in Int
    BY <1>9, <1>14
  <2>3. end - begin + 360 * m = 0 \/ end - begin + 360 * m = 360
    BY <1>14, <2>1
  <2>4. \E k \in Int : end = begin + 360 * k
    <3>1. end = begin + 360 * (-m) \/ end = begin + 360 * (1 - m)
      BY <2>2, <2>3
    <3>2. -m \in Int /\ 1 - m \in Int
      BY <2>2
    <3> QED BY <3>1, <3>2
  <2> QED BY <2>2, <2>4, SameAngle, ZenonT(60)
<1>18. (z = 0 <=> b + 1 = e) /\ (z = n <=> (b = f + n - 1 /\ e = f))
  BY <1>1, <1>2 DEF z
<1> QED BY <1>5, <1>16, <1>17, <1>18 DEF end, begin, t

-----------------------------------------------------------------------------
\* How long the arm takes to a track.
SeekTicks(from, to) == (trackWidth \div options.seekSpeed) * Distance(from, to)

LEMMA SeekTakes ==
    ASSUME Started, NEW t \in 0 .. 2, NEW u \in 0 .. 2
    PROVE  LET n == SeekTicks(t, u) IN
           /\ n \in Nat /\ (t = u => n = 0) /\ (t # u => n > 0)
           /\ n * options.seekSpeed = trackWidth * Distance(t, u)
<1> DEFINE c == options.seekSpeed
           q == trackWidth \div c
           e == Distance(t, u)
           n == SeekTicks(t, u)
<1>1. c \in Nat \ {0} /\ trackWidth % c = 0 /\ trackWidth = 40
  BY DiskAssumption DEF Started, DiskAssumption, trackWidth
<1>2. e \in Nat /\ (t = u => e = 0) /\ (t # u => e > 0)
  BY DEF Distance
<1>3. n = q * e
  BY DEF SeekTicks
<1> HIDE DEF c, e, n
<1>4. q \in Nat /\ trackWidth = c * q
  <2>1. q \in Nat
    BY <1>1, DivNat
  <2>2. trackWidth \in Int /\ trackWidth = c * q + (trackWidth % c)
    BY <1>1, DivModFact
  <2> HIDE DEF q
  <2> QED BY <1>1, <2>1, <2>2
<1> HIDE DEF q
<1>5. q > 0
  BY <1>1, <1>4
<1>6. n \in Nat /\ (e > 0 => n > 0) /\ (e = 0 => n = 0)
  <2>1. e > 0 => q * 0 + q <= q * e
    BY <1>2, <1>4, <1>5, MulMonotone
  <2> QED BY <1>2, <1>3, <1>4, <1>5, <2>1
<1>7. n * c = trackWidth * e
  BY <1>1, <1>2, <1>3, <1>4
<1> QED BY <1>2, <1>6, <1>7 DEF c, e, n

\* DoSATF's estimate: the seek, the rotation that is left when the arm has arrived,
\* and the transfer.
LEMMA EstimateSays ==
    ASSUME Started, Fits, NEW s, Typed(s), s.angle \in 0 .. 359, NEW k \in 1 .. Len(s.queue)
    PROVE  LET b == s.queue[k]
               t == blockToTrack(b)
               n == SeekTicks(s.armTrack, t) IN
           \E x \in 0 .. 359, m \in Int :
              /\ s.angle + n * options.rotateSpeed = x + 360 * m
              /\ Estimate(s, k) =
                    n * options.rotateSpeed + To(x, BeginAngle(b, t)) + angleOffset(t)
<1> DEFINE b == s.queue[k]
           t == blockToTrack(b)
           n == SeekTicks(s.armTrack, t)
           j == n * options.rotateSpeed
           z == s.angle + j
           y == Within360(z)
           a == blockToAngle(b)
           h == blockAngleOffset(t)
           r == a - h - y
           x == z % 360
           begin == BeginAngle(b, t)
<1>1. b \in Blocks
  BY ElementOfSeq DEF Typed
<1> HIDE DEF b
<1>2. t \in 0 .. 2 /\ a \in Nat /\ s.armTrack \in 0 .. 2
  BY <1>1, BlockPlaces DEF Typed
<1>3. h \in Nat /\ 2 * h = angleOffset(t) /\ 2 * h < 360
  BY <1>2, Layout DEF angleOffset, Fits
<1>4. a \in 0 .. 359
  <2> DEFINE i == (b - First(t)) * angleOffset(t) + angleOffset(t) * options.skew * t + 180
  <2>1. a = i % 360
    BY DEF blockToAngle
  <2>2. i \in Int
    <3>1. First(t) \in Nat /\ angleOffset(t) \in Nat /\ options.skew \in Nat /\ b \in Nat
      BY <1>1, <1>2, Layout, BlockPlaces, DiskAssumption DEF Started, DiskAssumption
    <3> HIDE DEF t
    <3> QED BY <1>2, <3>1
  <2> HIDE DEF i
  <2> QED BY <2>1, <2>2, AngleOf
<1>5. j \in Nat
  <2>1. n \in Nat
    BY <1>2, SeekTakes
  <2>2. options.rotateSpeed \in Nat
    BY DiskAssumption DEF Started, DiskAssumption
  <2> HIDE DEF n
  <2> QED BY <2>1, <2>2, MulNat
<1>6. begin = (a - h) % 360
  BY DEF BeginAngle
<1>7. Estimate(s, k) = j + (IF r < 0 THEN r % 360 ELSE Within360(r)) + 2 * h
  BY DEF Estimate, SeekDegrees, angleAtArrival, b, SeekTicks
<1> HIDE DEF t, n, j, a, h, begin
<1>8. z \in Nat
  <2>1. \A e \in 0 .. 359, f \in Nat : e + f \in Nat
    OBVIOUS
  <2> QED BY <1>5, <2>1
<1> HIDE DEF z
<1>9. x \in 0 .. 359 /\ \E m \in Int : z = x + 360 * m
  BY <1>8, AngleOf
<1>10. y \in 0 .. 360 /\ (x = y \/ x = y - 360)
  <2>1. CASE z <= 360
    <3>1. y = z
      BY <1>8, <2>1 DEF Within360
    <3>2. PICK m \in Int : z = x + 360 * m
      BY <1>9
    <3> HIDE DEF x, y
    <3> QED BY <1>8, <1>9, <2>1, <3>1, <3>2
  <2>2. CASE z > 360
    <3> DEFINE g == z - 1
    <3>1. y = (g % 360) + 1 /\ g \in Int
      BY <1>8, <2>2 DEF Within360
    <3> HIDE DEF g
    <3>2. g % 360 \in 0 .. 359 /\ \E m \in Int : g = (g % 360) + 360 * m
      BY <3>1, AngleOf
    <3>3. PICK m \in Int : g = (g % 360) + 360 * m
      BY <3>2
    <3>4. PICK l \in Int : z = x + 360 * l
      BY <1>9
    <3> HIDE DEF x, y
    <3>5. x = y + 360 * (m - l) /\ m - l \in Int /\ y \in 1 .. 360
      BY <1>8, <1>9, <3>1, <3>2, <3>3, <3>4 DEF g
    <3>6. \A i \in 0 .. 359, f \in 1 .. 360, e \in Int :
             i = f + 360 * e => i = f \/ i = f - 360
      OBVIOUS
    <3>7. x \in 0 .. 359
      BY <1>9
    <3>8. PICK e \in Int : e = m - l
      BY <3>5
    <3>9. x = y + 360 * e /\ y \in 1 .. 360
      BY <3>5, <3>8
    <3>10. x = y \/ x = y - 360
      BY <3>6, <3>7, <3>9, ZenonT(60)
    <3>11. y \in 0 .. 360
      BY <3>9
    <3> QED BY <3>10, <3>11
  <2> QED BY <1>8, <2>1, <2>2
<1> HIDE DEF x, y
<1>11. begin \in 0 .. 359 /\ (begin = a - h \/ begin = a - h + 360)
  <2> DEFINE g == a - h
  <2>1. g \in Int /\ begin = g % 360
    BY <1>3, <1>4, <1>6
  <2> HIDE DEF g
  <2>2. begin \in 0 .. 359 /\ \E m \in Int : g = begin + 360 * m
    BY <2>1, AngleOf
  <2> QED BY <1>3, <1>4, <2>2 DEF g
<1>12. r \in Int
  BY <1>3, <1>4, <1>10
<1>13. ASSUME r < 0 PROVE r % 360 = To(x, begin)
  <2> DEFINE g == r % 360
  <2>1. g \in 0 .. 359 /\ \E m \in Int : r = g + 360 * m
    BY <1>12, AngleOf
  <2> HIDE DEF g
  <2>2. PICK m \in Int : r = g + 360 * m
    BY <2>1
  <2>3. To(x, begin) \in 0 .. 359 /\ To(x, begin) \in {begin - x, begin - x + 360}
    BY <1>9, <1>11 DEF To
  <2>4. r \in {begin - x, begin - x - 360, begin - x - 720}
    BY <1>3, <1>4, <1>9, <1>10, <1>11
  <2>5. g = To(x, begin)
    <3> DEFINE i == To(x, begin)
    <3>1. i \in 0 .. 359 /\ (i = begin - x \/ i = begin - x + 360)
      BY <2>3
    <3>2. \E l \in {0, 1, 2, 3} : i = r + 360 * l
      <4> DEFINE e == begin - x
      <4>1. e \in Int /\ i \in {e, e + 360} /\ r \in {e, e - 360, e - 720}
        BY <1>9, <1>11, <2>4, <3>1
      <4> HIDE DEF e, i, r
      <4>2. i - r \in {0, 360, 720, 1080}
        BY <4>1
      <4>3. i \in Int /\ r \in Int
        BY <1>12, <3>1
      <4>4. i = r + 360 * 0 \/ i = r + 360 * 1 \/ i = r + 360 * 2 \/ i = r + 360 * 3
        BY <4>2, <4>3
      <4> QED BY <4>4
    <3>3. PICK l \in {0, 1, 2, 3} : i = r + 360 * l
      BY <3>2
    <3> HIDE DEF i, r
    <3>4. g = i + 360 * (-m - l) /\ -m - l \in Int
      BY <1>12, <2>1, <2>2, <3>1, <3>3
    <3>5. g \in 0 .. 359 /\ i \in 0 .. 359 /\ \E e \in Int : g = i + 360 * e
      BY <2>1, <3>1, <3>4
    <3>6. g = i
      BY <3>5, SameAngle, ZenonT(60)
    <3> QED BY <3>6 DEF i
  <2> QED BY <2>5 DEF g
<1>14. ASSUME ~(r < 0) PROVE Within360(r) = To(x, begin)
  <2>1. Within360(r) = r
    BY <1>3, <1>4, <1>10, <1>12, <1>14 DEF Within360
  <2>2. x = y /\ begin = a - h
    BY <1>3, <1>4, <1>9, <1>10, <1>11, <1>14
  <2> QED BY <1>3, <1>4, <1>9, <1>11, <1>14, <2>1, <2>2 DEF To
<1>15. Estimate(s, k) = j + To(x, begin) + angleOffset(t)
  BY <1>3, <1>7, <1>13, <1>14
<1> QED BY <1>9, <1>15 DEF b, t, n, j, z, begin

-----------------------------------------------------------------------------
\* The block that is served, where it begins and ends, and the ticks it has taken.
Track(s) == blockToTrack(s.queue[s.current])
Begin(s) == BeginAngle(s.queue[s.current], Track(s))
End(s)   == EndAngle(s.queue[s.current], Track(s))
Ticks(s) == s.timer - s.seekBegin

\* The fields that have to do with time.
Clocks ==
    {"timer", "seekBegin", "rotBegin", "xferBegin", "totalEst", "seekTotal", "rotTotal",
     "xferTotal", "arm", "armSpeed"}
Clocked(s) ==
    /\ Clocks \subseteq DOMAIN s /\ OnTick(s.angle)
    /\ s.timer \in Int /\ s.seekBegin \in Int /\ s.rotBegin \in Int /\ s.xferBegin \in Int
    /\ s.totalEst \in Int /\ s.seekTotal \in Int /\ s.rotTotal \in Int
    /\ s.xferTotal \in Int /\ s.arm \in Int /\ s.armSpeed \in Int

\* The times of the requests that are done add up.
AddUp(s) == s.seekTotal + s.rotTotal + s.xferTotal = s.seekBegin

\* All blocks begin at multiples of the rotation per tick.
Even(s) ==
    \A k \in 1 .. Len(s.queue) :
        OnTick(BeginAngle(s.queue[k], blockToTrack(s.queue[k])))
\* The platter does not stand where the first block begins.
Plain(s) == s.requestCount > 0 \/ Begin(s) # 0

\* While the arm moves, the estimate is for the angle x at which it will arrive.
Seeking(s) ==
    LET n == SeekTicks(s.armTrack, s.armTarget) IN
    /\ s.state = "SEEK" /\ s.armTarget = Track(s) /\ s.armTarget # s.armTrack
    /\ s.armSpeed = IF s.armTarget >= s.armTrack THEN options.seekSpeed
                    ELSE -options.seekSpeed
    /\ Ticks(s) >= 0 /\ Ticks(s) < n
    /\ s.arm = trackWidth * s.armTrack + Ticks(s) * s.armSpeed
    /\ \E x \in 0 .. 359, m \in Int :
          /\ s.angle + (n - Ticks(s)) * options.rotateSpeed = x + 360 * m
          /\ s.totalEst = n * options.rotateSpeed + To(x, Begin(s)) + angleOffset(Track(s))
\* Then the block is still to come, except where the platter started.
Rotating(s) ==
    /\ s.state = "ROTATE" /\ s.armTrack = Track(s) /\ s.arm = trackWidth * s.armTrack
    /\ Plain(s) =>
          /\ s.angle # Begin(s)
          /\ s.totalEst = Ticks(s) * options.rotateSpeed + To(s.angle, Begin(s))
                              + angleOffset(Track(s))
\* Then the rest of it.
Moving(s) ==
    /\ s.state = "XFER" /\ s.armTrack = Track(s) /\ s.arm = trackWidth * s.armTrack
    /\ s.angle # End(s)
    /\ Plain(s) => s.totalEst = Ticks(s) * options.rotateSpeed + To(s.angle, End(s))
\* Then its end, of which the disk takes notice in the same tick.
Ending(s) ==
    /\ s.state = "XFER" /\ s.armTrack = Track(s) /\ s.arm = trackWidth * s.armTrack
    /\ s.angle = End(s)
    /\ Plain(s) => s.totalEst = Ticks(s) * options.rotateSpeed

Timed(s) == Clocked(s) /\ AddUp(s) /\ (Seeking(s) \/ Rotating(s) \/ Moving(s))

\* The block that is served.
LEMMA TheBlock ==
    ASSUME Started, Fits, NEW s, Typed(s), s.current \in 1 .. Len(s.queue)
    PROVE  /\ s.queue[s.current] \in Blocks /\ Track(s) \in 0 .. 2
           /\ Begin(s) \in 0 .. 359 /\ End(s) \in 0 .. 359 /\ Begin(s) # End(s)
           /\ angleOffset(Track(s)) = To(Begin(s), End(s))
           /\ angleOffset(Track(s)) \in Nat
           /\ Even(s) => OnTick(Begin(s)) /\ OnTick(End(s))
<1>1. s.queue[s.current] \in Blocks
  BY ElementOfSeq DEF Typed
<1>2. Track(s) \in 0 .. 2
  BY <1>1, BlockPlaces DEF Track
<1>3. angleOffset(Track(s)) \in Nat
  BY <1>2, Layout
<1> DEFINE b == s.queue[s.current]
<1>4. b \in Blocks
  BY <1>1
<1> HIDE DEF b
<1>5. LET t == blockToTrack(b) begin == BeginAngle(b, t) end == EndAngle(b, t) IN
      /\ begin \in 0 .. 359 /\ end \in 0 .. 359 /\ begin # end
      /\ To(begin, end) = angleOffset(t)
      /\ OnTick(begin) => OnTick(end)
  BY <1>4, BlockAngles
<1>6. Even(s) => OnTick(BeginAngle(b, blockToTrack(b)))
  BY DEF Even, b
<1> QED BY <1>1, <1>2, <1>3, <1>5, <1>6 DEF Track, Begin, End, b

\* What a tick leaves of the request that is served.
SameClaim(s, t) ==
    /\ OnlyArm(s, t) /\ Clocks \subseteq DOMAIN t
    /\ t.seekBegin = s.seekBegin /\ t.totalEst = s.totalEst
    /\ t.seekTotal = s.seekTotal /\ t.rotTotal = s.rotTotal /\ t.xferTotal = s.xferTotal

LEMMA SameBlock ==
    ASSUME NEW s, NEW t, SameClaim(s, t)
    PROVE  /\ Track(t) = Track(s) /\ Begin(t) = Begin(s) /\ End(t) = End(s)
           /\ Plain(t) <=> Plain(s)
           /\ Even(t) <=> Even(s)
           /\ AddUp(t) <=> AddUp(s)
<1>1. t.queue = s.queue /\ t.current = s.current /\ t.requestCount = s.requestCount
  BY DEF SameClaim, OnlyArm, SameBooks
<1>2. Track(t) = Track(s) /\ Begin(t) = Begin(s) /\ End(t) = End(s)
  BY <1>1 DEF Track, Begin, End
<1> QED BY <1>1, <1>2 DEF Plain, Even, AddUp, SameClaim

\* The rotation, when the arm is there.
Arriving(s) ==
    /\ s.state = "ROTATE" /\ s.armTrack = Track(s) /\ s.arm = trackWidth * s.armTrack
    /\ Plain(s) =>
          s.totalEst = Ticks(s) * options.rotateSpeed + To(s.angle, Begin(s))
                           + angleOffset(Track(s))

\* It goes over to the transfer exactly where the block begins.
LEMMA Settles ==
    ASSUME Started, Fits, NEW s, Typed(s), s.current \in 1 .. Len(s.queue), Even(s),
           Clocked(s), AddUp(s), Arriving(s)
    PROVE  /\ SameClaim(s, Settle(s)) /\ Timed(Settle(s))
           /\ Settle(s).timer = s.timer /\ Settle(s).angle = s.angle
<1>1. /\ Begin(s) # End(s) /\ angleOffset(Track(s)) = To(Begin(s), End(s))
      /\ OnTick(Begin(s)) /\ Begin(s) \in 0 .. 359
  BY TheBlock, Zenon
<1>2. DoneWithRotation(s) <=> s.angle = Begin(s)
  <2>1. OnTick(s.angle)
    BY DEF Clocked
  <2>2. RadiallyCloseTo(s.angle, Begin(s)) <=> s.angle = Begin(s)
    BY <1>1, <2>1, CloseIsSame
  <2> QED BY <2>2 DEF DoneWithRotation, Begin, Arriving
<1>3. CASE s.angle # Begin(s)
  <2>1. Settle(s) = s
    BY <1>2, <1>3 DEF Settle
  <2>2. SameClaim(s, s)
    BY DEF SameClaim, OnlyArm, SameBooks, Typed, Clocked
  <2>3. Rotating(s)
    BY <1>3 DEF Arriving, Rotating
  <2> QED BY <2>1, <2>2, <2>3 DEF Timed
<1>4. CASE s.angle = Begin(s)
  <2> DEFINE t == [s EXCEPT !.xferBegin = s.timer, !.state = "XFER"]
  <2>1. Settle(s) = t
    BY <1>2, <1>4 DEF Settle, Arriving
  <2>2. /\ OnlyArm(s, t) /\ t.state = "XFER" /\ t.armTrack = s.armTrack
        /\ t.angle = s.angle
    BY DEF OnlyArm, SameBooks, Typed, Fields
  <2>3. /\ Clocks \subseteq DOMAIN t
        /\ t.timer = s.timer /\ t.seekBegin = s.seekBegin /\ t.rotBegin = s.rotBegin
        /\ t.xferBegin = s.timer /\ t.totalEst = s.totalEst /\ t.seekTotal = s.seekTotal
        /\ t.rotTotal = s.rotTotal /\ t.xferTotal = s.xferTotal /\ t.arm = s.arm
        /\ t.armSpeed = s.armSpeed
    BY DEF Clocked, Clocks, Typed, Fields
  <2> HIDE DEF t
  <2>4. SameClaim(s, t)
    BY <2>2, <2>3 DEF SameClaim
  <2>5. Clocked(t)
    BY <2>2, <2>3 DEF Clocked
  <2>6. /\ Track(t) = Track(s) /\ Begin(t) = Begin(s) /\ End(t) = End(s)
        /\ (Plain(t) <=> Plain(s)) /\ AddUp(t) /\ Ticks(t) = Ticks(s)
    BY <2>3, <2>4, SameBlock DEF Ticks
  <2>7. To(s.angle, Begin(s)) = 0
    BY <1>1, <1>4, RotationLeft, Zenon
  <2>8. ASSUME Plain(t)
        PROVE  t.totalEst = Ticks(t) * options.rotateSpeed + To(t.angle, End(t))
    <3>1. s.totalEst = Ticks(s) * options.rotateSpeed + 0 + To(Begin(s), End(s))
      BY <1>1, <2>6, <2>7, <2>8 DEF Arriving
    <3>2. Ticks(s) * options.rotateSpeed \in Int
      <4>1. Ticks(s) \in Int /\ options.rotateSpeed \in Int
        BY DiskAssumption, SMTT(30) DEF Clocked, Ticks, Started, DiskAssumption
      <4> QED BY <4>1
    <3> QED BY <1>4, <2>2, <2>3, <2>6, <3>1, <3>2
  <2>9. Moving(t)
    BY <1>1, <1>4, <2>2, <2>3, <2>6, <2>8 DEF Moving, Arriving
  <2> QED BY <2>1, <2>2, <2>3, <2>4, <2>5, <2>6, <2>9 DEF Timed
<1> QED BY <1>3, <1>4

\* A tick of the platter and of the clock.
LEMMA Turns ==
    ASSUME Started, Fits, NEW s, Typed(s), Clocked(s)
    PROVE  LET u == Rotate(s) IN
           /\ SameClaim(s, u) /\ Clocked(u) /\ Ticks(u) = Ticks(s) + 1
           /\ u.timer = s.timer + 1 /\ u.angle = Turned(s.angle) /\ u.state = s.state
           /\ u.arm = s.arm /\ u.armSpeed = s.armSpeed /\ u.armTrack = s.armTrack
           /\ u.armTarget = s.armTarget
<1> DEFINE u == Rotate(s)
<1>1. OnlyArm(s, u)
  BY PlatterAndArm
<1>2. OnTick(Turned(s.angle))
  BY Turning DEF Clocked
<1>3. u = [s EXCEPT !.timer = s.timer + 1, !.angle = Turned(s.angle)]
  BY DEF Rotate, Turned
<1>4. /\ u.timer = s.timer + 1 /\ u.angle = Turned(s.angle) /\ u.state = s.state
      /\ u.arm = s.arm /\ u.armSpeed = s.armSpeed /\ u.armTrack = s.armTrack
      /\ u.armTarget = s.armTarget
  BY <1>3 DEF Typed, Fields, Clocked, Clocks
<1>5. /\ Clocks \subseteq DOMAIN u
      /\ u.seekBegin = s.seekBegin /\ u.rotBegin = s.rotBegin
      /\ u.xferBegin = s.xferBegin /\ u.totalEst = s.totalEst /\ u.seekTotal = s.seekTotal
      /\ u.rotTotal = s.rotTotal /\ u.xferTotal = s.xferTotal
  BY <1>3 DEF Clocked, Clocks
<1> HIDE DEF u
<1>6. Clocked(u) /\ Ticks(u) = Ticks(s) + 1
  BY <1>2, <1>4, <1>5 DEF Clocked, Ticks
<1> QED BY <1>1, <1>4, <1>5, <1>6 DEF SameClaim, u

\* One tick more of an estimate.
LEMMA OneTickLess ==
    ASSUME Started, NEW n \in Int
    PROVE  /\ options.rotateSpeed \in Nat \ {0}
           /\ n * options.rotateSpeed \in Int
           /\ (n + 1) * options.rotateSpeed = n * options.rotateSpeed + options.rotateSpeed
<1>1. options.rotateSpeed \in Nat \ {0}
  BY DiskAssumption DEF Started, DiskAssumption
<1> DEFINE c == options.rotateSpeed
<1>2. c \in Nat \ {0}
  BY <1>1
<1> HIDE DEF c
<1>3. n * c \in Int /\ (n + 1) * c = n * c + c
  BY <1>2
<1> QED BY <1>1, <1>3 DEF c

\* The disk after the platter and the arm have moved.
Moved(s) == Settle(Seek(Rotate(s)))
AfterTick(s, t) == SameClaim(s, t) /\ t.timer = s.timer + 1 /\ t.angle = Turned(s.angle)

LEMMA TickWhileRotating ==
    ASSUME Started, Fits, NEW s, Typed(s), s.current \in 1 .. Len(s.queue), Even(s),
           Clocked(s), AddUp(s), Rotating(s)
    PROVE  AfterTick(s, Moved(s)) /\ Timed(Moved(s))
<1> DEFINE u == Rotate(s)
<1>1. /\ SameClaim(s, u) /\ Clocked(u) /\ Ticks(u) = Ticks(s) + 1
      /\ u.timer = s.timer + 1 /\ u.angle = Turned(s.angle) /\ u.state = "ROTATE"
      /\ u.arm = s.arm /\ u.armTrack = s.armTrack
  BY Turns DEF Rotating
<1>2. Seek(u) = u
  BY <1>1 DEF Seek
<1>3. Moved(s) = Settle(u)
  BY <1>2 DEF Moved
<1> HIDE DEF u
<1>4. /\ Track(u) = Track(s) /\ Begin(u) = Begin(s) /\ (Plain(u) <=> Plain(s))
      /\ Even(u) /\ AddUp(u) /\ Typed(u)
      /\ u.current \in 1 .. Len(u.queue)
  <2>1. u.current = s.current /\ u.queue = s.queue /\ Typed(u)
    BY <1>1 DEF SameClaim, OnlyArm, SameBooks
  <2>2. /\ Track(u) = Track(s) /\ Begin(u) = Begin(s) /\ (Plain(u) <=> Plain(s))
        /\ (Even(u) <=> Even(s)) /\ (AddUp(u) <=> AddUp(s))
    BY <1>1, SameBlock
  <2> QED BY <2>1, <2>2
<1>5. ASSUME Plain(u)
      PROVE  u.totalEst = Ticks(u) * options.rotateSpeed + To(u.angle, Begin(u))
                              + angleOffset(Track(u))
  <2>1. s.angle # Begin(s) /\ OnTick(s.angle) /\ OnTick(Begin(s))
    BY <1>4, <1>5, TheBlock DEF Rotating, Clocked
  <2>2. To(u.angle, Begin(s)) = To(s.angle, Begin(s)) - options.rotateSpeed
    BY <1>1, <2>1, Turning
  <2>3. /\ Ticks(s) \in Int /\ To(s.angle, Begin(s)) \in Int
        /\ angleOffset(Track(s)) \in Int
    <3>1. Ticks(s) \in Int
      BY DEF Ticks, Clocked
    <3>2. s.angle \in 0 .. 359 /\ Begin(s) \in 0 .. 359
      BY <2>1 DEF OnTick
    <3>3. To(s.angle, Begin(s)) \in Int
      BY <3>2, RotationLeft, Zenon
    <3>4. angleOffset(Track(s)) \in Nat
      BY TheBlock, Zenon
    <3> QED BY <3>1, <3>3, <3>4
  <2>4. u.totalEst = Ticks(s) * options.rotateSpeed + To(s.angle, Begin(s))
                         + angleOffset(Track(s))
    BY <1>1, <1>4, <1>5 DEF Rotating, SameClaim
  <2> DEFINE n == Ticks(s) x == To(s.angle, Begin(s)) o == angleOffset(Track(s))
             r == n * options.rotateSpeed
  <2>5. /\ r \in Int /\ options.rotateSpeed \in Int
        /\ Ticks(u) * options.rotateSpeed = r + options.rotateSpeed
    <3>1. n \in Int /\ Ticks(u) = n + 1
      BY <1>1, <2>3
    <3> HIDE DEF n
    <3>2. /\ options.rotateSpeed \in Nat \ {0} /\ r \in Int
          /\ (n + 1) * options.rotateSpeed = r + options.rotateSpeed
      BY <3>1, OneTickLess, Zenon
    <3> QED BY <3>1, <3>2
  <2> HIDE DEF n, x, o, r
  <2>6. u.totalEst = Ticks(u) * options.rotateSpeed + (x - options.rotateSpeed) + o
    BY <2>3, <2>4, <2>5 DEF n, x, o, r
  <2> QED BY <1>4, <2>2, <2>6 DEF x, o
<1>6. Arriving(u)
  BY <1>1, <1>4, <1>5 DEF Arriving, Rotating
<1>7. SameClaim(u, Settle(u)) /\ Timed(Settle(u)) /\ Settle(u).timer = u.timer
      /\ Settle(u).angle = u.angle
  BY <1>1, <1>4, <1>6, Settles
<1> DEFINE w == Settle(u)
<1>8. SameClaim(u, w) /\ Timed(w) /\ w.timer = u.timer /\ w.angle = u.angle
  BY <1>7
<1> HIDE DEF w
<1>9. AfterTick(s, w)
  BY <1>1, <1>8 DEF AfterTick, SameClaim, OnlyArm, SameBooks
<1> QED BY <1>3, <1>8, <1>9 DEF w

LEMMA TickWhileMoving ==
    ASSUME Started, Fits, NEW s, Typed(s), s.current \in 1 .. Len(s.queue), Even(s),
           Clocked(s), AddUp(s), Moving(s)
    PROVE  /\ AfterTick(s, Moved(s)) /\ Clocked(Moved(s)) /\ AddUp(Moved(s))
           /\ Moving(Moved(s)) \/ Ending(Moved(s))
<1> DEFINE u == Rotate(s)
<1>1. /\ SameClaim(s, u) /\ Clocked(u) /\ Ticks(u) = Ticks(s) + 1
      /\ u.timer = s.timer + 1 /\ u.angle = Turned(s.angle) /\ u.state = "XFER"
      /\ u.arm = s.arm /\ u.armTrack = s.armTrack
  BY Turns DEF Moving
<1>2. Seek(u) = u /\ Settle(u) = u
  BY <1>1 DEF Seek, Settle
<1>3. Moved(s) = u
  BY <1>2 DEF Moved
<1> HIDE DEF u
<1>4. /\ Track(u) = Track(s) /\ End(u) = End(s) /\ (Plain(u) <=> Plain(s)) /\ AddUp(u)
  BY <1>1, SameBlock
<1>5. s.angle # End(s) /\ OnTick(s.angle) /\ OnTick(End(s))
  BY TheBlock DEF Moving, Clocked
<1>6. ASSUME Plain(u)
      PROVE  u.totalEst = Ticks(u) * options.rotateSpeed + To(u.angle, End(u))
  <2>1. To(u.angle, End(s)) = To(s.angle, End(s)) - options.rotateSpeed
    BY <1>1, <1>5, Turning
  <2>2. Ticks(s) \in Int /\ To(s.angle, End(s)) \in Int
    <3>1. Ticks(s) \in Int
      BY DEF Ticks, Clocked
    <3>2. s.angle \in 0 .. 359 /\ End(s) \in 0 .. 359
      BY <1>5 DEF OnTick
    <3>3. To(s.angle, End(s)) \in Int
      BY <3>2, RotationLeft, Zenon
    <3> QED BY <3>1, <3>3
  <2>3. u.totalEst = Ticks(s) * options.rotateSpeed + To(s.angle, End(s))
    BY <1>1, <1>4, <1>6 DEF Moving, SameClaim
  <2> DEFINE n == Ticks(s) x == To(s.angle, End(s)) r == n * options.rotateSpeed
  <2>4. /\ r \in Int /\ options.rotateSpeed \in Int
        /\ Ticks(u) * options.rotateSpeed = r + options.rotateSpeed
    <3>1. n \in Int /\ Ticks(u) = n + 1
      BY <1>1, <2>2
    <3> HIDE DEF n
    <3>2. /\ options.rotateSpeed \in Nat \ {0} /\ r \in Int
          /\ (n + 1) * options.rotateSpeed = r + options.rotateSpeed
      BY <3>1, OneTickLess, Zenon
    <3> QED BY <3>1, <3>2
  <2> HIDE DEF n, x, r
  <2>5. u.totalEst = Ticks(u) * options.rotateSpeed + (x - options.rotateSpeed)
    BY <2>2, <2>3, <2>4 DEF n, x, r
  <2> QED BY <1>4, <2>1, <2>5 DEF x
<1>7. CASE u.angle # End(u)
  BY <1>1, <1>3, <1>4, <1>6, <1>7 DEF Moving, AfterTick
<1>8. CASE u.angle = End(u)
  <2>1. To(u.angle, End(u)) = 0
    <3>1. End(u) \in 0 .. 359
      BY <1>4, <1>5 DEF OnTick
    <3> QED BY <1>8, <3>1, RotationLeft, Zenon
  <2>2. Ticks(u) * options.rotateSpeed \in Int
    <3>1. Ticks(u) \in Int
      BY <1>1 DEF Ticks, Clocked
    <3> QED BY <3>1, OneTickLess
  <2>3. Plain(u) => u.totalEst = Ticks(u) * options.rotateSpeed
    BY <1>6, <2>1, <2>2
  <2> QED BY <1>1, <1>3, <1>4, <1>8, <2>3 DEF Moving, Ending, AfterTick
<1> QED BY <1>7, <1>8

\* The arm reaches a track after as many ticks as the estimate says.
LEMMA ArmArrives ==
    ASSUME Started, NEW a \in 0 .. 2, NEW b \in 0 .. 2, a # b, NEW n \in Nat,
           NEW v, v = IF b >= a THEN options.seekSpeed ELSE -options.seekSpeed
    PROVE  LET arm == trackWidth * a + n * v IN
           /\ v \in Int /\ arm \in Int
           /\ (IF v > 0 THEN arm >= trackWidth * b ELSE arm <= trackWidth * b)
                <=> n >= SeekTicks(a, b)
           /\ n = SeekTicks(a, b) => arm = trackWidth * b
<1> DEFINE c == options.seekSpeed
           m == SeekTicks(a, b)
           x == n * c
           y == m * c
           arm == trackWidth * a + n * v
<1>1. c \in Nat \ {0} /\ trackWidth = 40
  BY DiskAssumption DEF Started, DiskAssumption, trackWidth
<1>2. m \in Nat /\ y = 40 * Distance(a, b)
  BY <1>1, SeekTakes
<1>3. v = (IF b >= a THEN c ELSE -c)
  OBVIOUS
<1> HIDE DEF c, m
<1>4. x \in Int /\ y \in Int /\ (n < m => x + c <= y) /\ (m < n => y + c <= x)
      /\ (n = m => x = y)
  <2>1. n < m => c * n + c <= c * m
    BY <1>1, <1>2, MulMonotone
  <2>2. m < n => c * m + c <= c * n
    BY <1>1, <1>2, MulMonotone
  <2>3. x \in Int /\ y \in Int /\ x = c * n /\ y = c * m
    BY <1>1, <1>2
  <2> QED BY <2>1, <2>2, <2>3
<1>5. n * v = (IF b >= a THEN x ELSE -x)
  <2>1. CASE b >= a
    BY <1>3, <2>1
  <2>2. CASE ~(b >= a)
    <3>1. v = -c
      BY <1>3, <2>2
    <3>2. n * (-c) = -(n * c)
      BY <1>1
    <3> QED BY <2>2, <3>1, <3>2
  <2> QED BY <2>1, <2>2
<1>6. n >= m \/ n < m
  BY <1>2
<1> HIDE DEF x, y
<1>7. arm = 40 * a + (IF b >= a THEN x ELSE -x)
  BY <1>1, <1>5
<1> HIDE DEF arm
<1>8. arm \in Int /\ v \in Int
  BY <1>1, <1>3, <1>4, <1>7
<1>9. y = (IF b >= a THEN 40 * b - 40 * a ELSE 40 * a - 40 * b)
  BY <1>2 DEF Distance
<1>10. n = m => arm = 40 * b
  BY <1>4, <1>7, <1>9
<1>11. n >= m => x >= y
  <2>1. n >= m => n = m \/ m < n
    BY <1>2
  <2> QED BY <1>1, <1>4, <2>1
<1>12. n < m => x < y
  BY <1>1, <1>4
<1>13. CASE b >= a
  <2>1. v > 0 /\ (arm >= 40 * b <=> x >= y)
    BY <1>1, <1>3, <1>4, <1>7, <1>9, <1>13
  <2>2. ~(x < y /\ x >= y)
    BY <1>4
  <2>3. arm >= 40 * b <=> n >= m
    BY <1>6, <1>11, <1>12, <2>1, <2>2
  <2> QED BY <1>1, <1>8, <1>10, <2>1, <2>3 DEF arm, m
<1>14. CASE ~(b >= a)
  <2>1. ~(v > 0) /\ (arm <= 40 * b <=> x >= y)
    BY <1>1, <1>3, <1>4, <1>7, <1>9, <1>14
  <2>2. ~(x < y /\ x >= y)
    BY <1>4
  <2>3. arm <= 40 * b <=> n >= m
    BY <1>6, <1>11, <1>12, <2>1, <2>2
  <2> QED BY <1>1, <1>8, <1>10, <2>1, <2>3 DEF arm, m
<1> QED BY <1>13, <1>14

LEMMA TickWhileSeeking ==
    ASSUME Started, Fits, NEW s, Typed(s), s.current \in 1 .. Len(s.queue), Even(s),
           Clocked(s), AddUp(s), Seeking(s)
    PROVE  AfterTick(s, Moved(s)) /\ Timed(Moved(s))
<1> DEFINE u == Rotate(s)
           a == s.armTrack
           b == s.armTarget
           n == SeekTicks(a, b)
           p == Ticks(s)
           c == options.rotateSpeed
           v == s.armSpeed
           arm == trackWidth * a + (p + 1) * v
           there == IF v > 0 THEN arm >= trackWidth * b ELSE arm <= trackWidth * b
<1>1. /\ SameClaim(s, u) /\ Clocked(u) /\ Ticks(u) = p + 1
      /\ u.timer = s.timer + 1 /\ u.angle = Turned(s.angle) /\ u.state = "SEEK"
      /\ u.arm = s.arm /\ u.armSpeed = v /\ u.armTrack = a /\ u.armTarget = b
  BY Turns DEF Seeking
<1>2. /\ Track(u) = Track(s) /\ Begin(u) = Begin(s) /\ (Plain(u) <=> Plain(s))
      /\ Even(u) /\ AddUp(u) /\ Typed(u) /\ u.current \in 1 .. Len(u.queue)
  <2> HIDE DEF u
  <2>1. u.current = s.current /\ u.queue = s.queue /\ Typed(u)
    BY <1>1 DEF SameClaim, OnlyArm, SameBooks
  <2>2. /\ Track(u) = Track(s) /\ Begin(u) = Begin(s) /\ (Plain(u) <=> Plain(s))
        /\ (Even(u) <=> Even(s)) /\ (AddUp(u) <=> AddUp(s))
    BY <1>1, SameBlock
  <2> QED BY <2>1, <2>2
<1>3. /\ a \in 0 .. 2 /\ b \in 0 .. 2 /\ a # b /\ b = Track(s) /\ p \in Nat /\ p < n
      /\ n \in Nat
  <2>1. p \in Int
    BY DEF Clocked, Ticks
  <2>2. a \in 0 .. 2 /\ b \in 0 .. 2 /\ a # b /\ b = Track(s) /\ p >= 0 /\ p < n
    BY DEF Seeking, Typed
  <2>3. n \in Nat
    BY <2>2, SeekTakes
  <2> HIDE DEF p, n, a, b
  <2> QED BY <2>1, <2>2, <2>3
<1>4. v = (IF b >= a THEN options.seekSpeed ELSE -options.seekSpeed)
      /\ s.arm = trackWidth * a + p * v
  BY DEF Seeking
<1>5. c \in Nat \ {0}
  BY DiskAssumption DEF Started, DiskAssumption
<1>6. PICK x \in 0 .. 359, m \in Int :
          /\ s.angle + (n - p) * c = x + 360 * m
          /\ s.totalEst = n * c + To(x, Begin(s)) + angleOffset(Track(s))
  BY DEF Seeking
<1> HIDE DEF u, a, b, n, p, c, v
<1>7. /\ v \in Int /\ arm \in Int /\ (there <=> p + 1 >= n)
      /\ (p + 1 = n => arm = trackWidth * b)
  <2>1. p + 1 \in Nat
    BY <1>3
  <2> DEFINE q == p + 1
  <2>2. q \in Nat
    BY <2>1
  <2> HIDE DEF q
  <2>3. LET at == trackWidth * a + q * v IN
        /\ v \in Int /\ at \in Int
        /\ (IF v > 0 THEN at >= trackWidth * b ELSE at <= trackWidth * b) <=> q >= n
        /\ q = n => at = trackWidth * b
    <3>1. a \in 0 .. 2 /\ b \in 0 .. 2 /\ a # b
      BY <1>3
    <3>2. v = IF b >= a THEN options.seekSpeed ELSE -options.seekSpeed
      BY <1>4
    <3> QED BY <2>2, <3>1, <3>2, ArmArrives, ZenonT(60) DEF n
  <2> QED BY <2>3 DEF q
<1>8. s.arm + v = arm
  <2>1. (p + 1) * v = p * v + v /\ p * v \in Int
    BY <1>3, <1>7
  <2>2. trackWidth * a \in Int
    BY <1>3 DEF trackWidth
  <2> HIDE DEF trackWidth
  <2> DEFINE y == p * v  z == trackWidth * a
  <2>3. arm = z + (y + v) /\ s.arm = z + y /\ y \in Int /\ z \in Int
    BY <1>4, <2>1, <2>2
  <2> HIDE DEF y, z, arm
  <2> QED BY <1>7, <2>3
<1> HIDE DEF arm
\* The angle at which the arm arrives stays the same, up to full turns.
<1>9. \E k \in Int : u.angle + (n - (p + 1)) * c = x + 360 * k
  <2>1. u.angle \in Int /\ s.angle \in Int /\ s.angle + c \in {u.angle, u.angle + 360}
    <3>1. OnTick(s.angle)
      BY DEF Clocked
    <3>2. /\ OnTick(Turned(s.angle))
          /\ s.angle + c \in {Turned(s.angle), Turned(s.angle) + 360}
      BY <3>1, Turning, Zenon DEF c
    <3>3. OnTick(u.angle) /\ s.angle + c \in {u.angle, u.angle + 360}
      BY <1>1, <3>2
    <3>4. u.angle \in 0 .. 359 /\ s.angle \in 0 .. 359
      BY <3>1, <3>3 DEF OnTick
    <3>5. u.angle \in Int /\ s.angle \in Int
      <4>1. \A e \in 0 .. 359 : e \in Int
        OBVIOUS
      <4> QED BY <3>4, <4>1, Zenon
    <3> QED BY <3>3, <3>5
  <2>2. (n - p) * c = (n - (p + 1)) * c + c /\ (n - (p + 1)) * c \in Int
    BY <1>3, <1>5
  <2> DEFINE y == (n - (p + 1)) * c
             z == (n - p) * c
  <2>3. z = y + c /\ y \in Int /\ s.angle + z = x + 360 * m
    BY <1>6, <2>2
  <2> HIDE DEF y, z
  <2>4. CASE s.angle + c = u.angle
    <3>1. u.angle + y = x + 360 * m
      BY <1>5, <2>1, <2>3, <2>4
    <3> QED BY <3>1 DEF y
  <2>5. CASE s.angle + c = u.angle + 360
    <3>1. u.angle + y = x + 360 * (m - 1) /\ m - 1 \in Int
      BY <1>5, <2>1, <2>3, <2>5, SMTT(30)
    <3> QED BY <3>1 DEF y
  <2> QED BY <2>1, <2>4, <2>5
<1>10. CASE ~there
  <2> DEFINE w == [u EXCEPT !.arm = arm]
  <2>1. Seek(u) = w
    BY <1>1, <1>8, <1>10 DEF Seek
  <2>2. /\ w.state = "SEEK" /\ w.arm = arm /\ w.armSpeed = v /\ w.armTrack = a
        /\ w.armTarget = b /\ w.timer = u.timer /\ w.angle = u.angle /\ OnlyArm(u, w)
    BY <1>1, <1>2 DEF OnlyArm, SameBooks, Clocked, Clocks, Typed, Fields
  <2>3. /\ Clocks \subseteq DOMAIN w /\ w.seekBegin = u.seekBegin
        /\ w.rotBegin = u.rotBegin /\ w.xferBegin = u.xferBegin
        /\ w.totalEst = u.totalEst /\ w.seekTotal = u.seekTotal
        /\ w.rotTotal = u.rotTotal /\ w.xferTotal = u.xferTotal
    BY <1>1 DEF Clocked, Clocks
  <2> HIDE DEF w
  <2>4. Moved(s) = w
    BY <2>1, <2>2 DEF Moved, Settle, u
  <2>5. SameClaim(u, w) /\ Clocked(w) /\ Ticks(w) = p + 1
    BY <1>1, <1>7, <2>2, <2>3 DEF SameClaim, Clocked, Ticks
  <2>6. Track(w) = b /\ Begin(w) = Begin(s) /\ AddUp(w)
    BY <1>2, <1>3, <2>5, SameBlock
  <2>7. Seeking(w)
    <3>1. p + 1 >= 0 /\ p + 1 < n
      BY <1>3, <1>7, <1>10
    <3>2. w.totalEst = n * c + To(x, Begin(w)) + angleOffset(Track(w))
      BY <1>1, <1>3, <1>6, <2>3, <2>6 DEF SameClaim
    <3>3. \E k \in Int : w.angle + (n - Ticks(w)) * c = x + 360 * k
      BY <1>9, <2>2, <2>5
    <3>4. w.arm = trackWidth * w.armTrack + Ticks(w) * w.armSpeed
      BY <2>2, <2>5 DEF arm
    <3>5. n = SeekTicks(w.armTrack, w.armTarget)
      BY <2>2 DEF n
    <3> HIDE DEF n
    <3> QED BY <1>3, <1>4, <2>2, <2>5, <2>6, <3>1, <3>2, <3>3, <3>4, <3>5, ZenonT(60) DEF Seeking, c
  <2>8. AfterTick(s, w)
    BY <1>1, <2>2, <2>5 DEF AfterTick, SameClaim, OnlyArm, SameBooks
  <2> QED BY <2>4, <2>5, <2>6, <2>7, <2>8 DEF Timed
<1>11. CASE there
  <2> DEFINE w == [u EXCEPT !.arm = arm, !.armTrack = b, !.rotBegin = u.timer,
                            !.state = "ROTATE"]
  <2>1. Seek(u) = w
    BY <1>1, <1>8, <1>11 DEF Seek
  <2>2. /\ w.state = "ROTATE" /\ w.arm = arm /\ w.armSpeed = v /\ w.armTrack = b
        /\ w.timer = u.timer /\ w.angle = u.angle /\ OnlyArm(u, w)
    BY <1>1, <1>2, <1>3 DEF OnlyArm, SameBooks, Clocked, Clocks, Typed, Fields
  <2>3. /\ Clocks \subseteq DOMAIN w /\ w.seekBegin = u.seekBegin
        /\ w.rotBegin = u.timer /\ w.xferBegin = u.xferBegin
        /\ w.totalEst = u.totalEst /\ w.seekTotal = u.seekTotal
        /\ w.rotTotal = u.rotTotal /\ w.xferTotal = u.xferTotal
    BY <1>1, <1>2 DEF Clocked, Clocks, Typed, Fields
  <2> HIDE DEF w
  <2>4. Moved(s) = Settle(w)
    BY <2>1 DEF Moved, u
  <2>5. SameClaim(u, w) /\ Clocked(w) /\ Ticks(w) = p + 1
    BY <1>1, <1>7, <2>2, <2>3 DEF SameClaim, Clocked, Ticks
  <2>6. Track(w) = b /\ Begin(w) = Begin(s) /\ AddUp(w) /\ Even(w)
    BY <1>2, <1>3, <2>5, SameBlock
  <2>7. p + 1 = n /\ arm = trackWidth * b
    BY <1>3, <1>7, <1>11
  <2>8. w.angle = x
    <3>1. PICK k \in Int : u.angle + (n - (p + 1)) * c = x + 360 * k
      BY <1>9
    <3>2. (n - (p + 1)) * c = 0
      <4>1. n - (p + 1) = 0
        BY <1>3, <2>7
      <4> QED BY <1>5, <4>1
    <3>3. u.angle \in 0 .. 359
      BY <1>1 DEF Clocked, OnTick
    <3>4. u.angle = x + 360 * k
      <4> DEFINE g == u.angle
                 z == (n - (p + 1)) * c
      <4>1. g \in Int /\ z = 0 /\ g + z = x + 360 * k
        BY <3>1, <3>2, <3>3
      <4> HIDE DEF g, z
      <4>2. g = x + 360 * k
        BY <4>1
      <4> QED BY <4>2 DEF g
    <3>5. \E l \in Int : u.angle = x + 360 * l
      BY <3>4
    <3>6. u.angle = x
      BY <3>3, <3>5, SameAngle, Zenon
    <3> QED BY <2>2, <3>6
  <2>9. w.totalEst = Ticks(w) * c + To(w.angle, Begin(w)) + angleOffset(Track(w))
    BY <1>1, <1>3, <1>6, <2>3, <2>5, <2>6, <2>7, <2>8 DEF SameClaim
  <2>10. Arriving(w)
    BY <2>2, <2>6, <2>7, <2>9 DEF Arriving, c
  <2>11. Typed(w) /\ w.current \in 1 .. Len(w.queue)
    BY <1>2, <2>5 DEF SameClaim, OnlyArm, SameBooks
  <2> DEFINE z == Settle(w)
  <2>12. SameClaim(w, z) /\ Timed(z) /\ z.timer = w.timer /\ z.angle = w.angle
    BY <2>5, <2>6, <2>10, <2>11, Settles
  <2> HIDE DEF z
  <2>13. AfterTick(s, z)
    BY <1>1, <2>2, <2>5, <2>12 DEF AfterTick, SameClaim, OnlyArm, SameBooks
  <2> QED BY <2>4, <2>12, <2>13 DEF z
<1> QED BY <1>10, <1>11

-----------------------------------------------------------------------------
\* A request was chosen: its time begins, and the arm is sent to its track.
Planned(s, t) ==
    /\ Clocked(t) /\ t.timer = s.timer /\ t.seekBegin = s.timer /\ t.angle = s.angle
    /\ t.arm = s.arm /\ t.armTrack = s.armTrack /\ t.requestCount = s.requestCount
    /\ t.seekTotal = s.seekTotal /\ t.rotTotal = s.rotTotal /\ t.xferTotal = s.xferTotal
    /\ t.current \in 1 .. Len(s.queue) /\ t.totalEst = Estimate(s, t.current)
    /\ \A k \in 1 .. Len(s.queue) : k \in 1 .. Len(t.queue) /\ t.queue[k] = s.queue[k]
    /\ IF Track(t) = s.armTrack THEN t.state = "ROTATE"
       ELSE /\ t.state = "SEEK" /\ t.armTarget = Track(t)
            /\ t.armSpeed = IF t.armTarget >= t.armTrack THEN options.seekSpeed
                            ELSE -options.seekSpeed

LEMMA ChoicePlans ==
    ASSUME Started, NEW s, Typed(s), Clocked(s), Candidates(s) \subseteq 1 .. Len(s.queue),
           NEW t \in Chosen(s), t.failed = FALSE
    PROVE  Planned(s, t)
<1>1. ~(Candidates(s) = {} \/ (\E k \in Candidates(s) : IsText(k)) \/ Wraps(s))
  <2>1. Fails(s).failed = TRUE
    BY DEF Fails, Typed, Fields
  <2> QED BY <2>1 DEF Chosen
<1> DEFINE k == Pick(s)
           e == Estimate(s, k)
           u == [s EXCEPT !.current = k, !.totalEst = e]
           v == PlanSeek(u)
<1>2. t = AddRequest(v)
  BY <1>1 DEF Chosen
<1>3. k \in 1 .. Len(s.queue)
  BY <1>1, PickIsCandidate
<1> HIDE DEF k
<1>4. e \in Int
  BY <1>3, EstimateNat
<1> HIDE DEF e
<1>5. /\ Fields \cup Clocks \subseteq DOMAIN u /\ u.current = k /\ u.totalEst = e
      /\ u.queue = s.queue /\ u.lateCount = s.lateCount
      /\ u.requestCount = s.requestCount /\ u.angle = s.angle
      /\ u.armTrack = s.armTrack
  BY DEF Typed, Fields, Clocked, Clocks
<1>6. /\ u.timer = s.timer /\ u.rotBegin = s.rotBegin /\ u.xferBegin = s.xferBegin
      /\ u.seekTotal = s.seekTotal /\ u.rotTotal = s.rotTotal
      /\ u.xferTotal = s.xferTotal /\ u.arm = s.arm /\ u.armSpeed = s.armSpeed
  OBVIOUS
<1> HIDE DEF u
<1> DEFINE track == blockToTrack(s.queue[k])
<1>7. /\ Fields \cup Clocks \subseteq DOMAIN v /\ v.current = k /\ v.totalEst = e
      /\ v.queue = s.queue /\ v.lateCount = s.lateCount
      /\ v.requestCount = s.requestCount /\ v.angle = s.angle
      /\ v.armTrack = s.armTrack /\ v.timer = s.timer /\ v.seekBegin = s.timer
      /\ v.xferBegin = s.xferBegin /\ v.seekTotal = s.seekTotal
      /\ v.rotTotal = s.rotTotal /\ v.xferTotal = s.xferTotal /\ v.arm = s.arm
      /\ v.rotBegin \in Int /\ v.armSpeed \in Int
      /\ IF track = s.armTrack THEN v.state = "ROTATE"
         ELSE /\ v.state = "SEEK" /\ v.armTarget = track
              /\ v.armSpeed = IF track >= s.armTrack THEN options.seekSpeed
                              ELSE -options.seekSpeed
  <2>1. options.seekSpeed \in Nat
    BY DiskAssumption DEF Started, DiskAssumption
  <2>2. blockToTrack(u.queue[u.current]) = track
    BY <1>5
  <2> HIDE DEF track
  <2>3. CASE track = s.armTrack
    <3> DEFINE w == [u EXCEPT !.seekBegin = u.timer, !.rotBegin = u.timer, !.state = "ROTATE"]
    <3>1. v = w
      BY <1>5, <2>2, <2>3 DEF PlanSeek
    <3>2. /\ Fields \cup Clocks \subseteq DOMAIN w /\ w.current = k /\ w.totalEst = e
          /\ w.queue = s.queue /\ w.lateCount = s.lateCount
          /\ w.requestCount = s.requestCount /\ w.angle = s.angle
          /\ w.armTrack = s.armTrack /\ w.timer = s.timer /\ w.seekBegin = s.timer
          /\ w.xferBegin = s.xferBegin /\ w.seekTotal = s.seekTotal
          /\ w.rotTotal = s.rotTotal /\ w.xferTotal = s.xferTotal /\ w.arm = s.arm
          /\ w.rotBegin = s.timer /\ w.armSpeed = s.armSpeed /\ w.state = "ROTATE"
      BY <1>5, <1>6 DEF Fields, Clocks
    <3> HIDE DEF w, v
    <3> QED BY <2>3, <3>1, <3>2 DEF Clocked
  <2>4. CASE track # s.armTrack
    <3> DEFINE g == IF track >= s.armTrack THEN options.seekSpeed ELSE -options.seekSpeed
               w == [u EXCEPT !.seekBegin = u.timer, !.state = "SEEK", !.armTarget = track,
                              !.armSpeed = g]
    <3>1. v = w
      BY <1>5, <2>2, <2>4 DEF PlanSeek
    <3>2. g \in Int
      BY <2>1
    <3>3. /\ Fields \cup Clocks \subseteq DOMAIN w /\ w.current = k /\ w.totalEst = e
          /\ w.queue = s.queue /\ w.lateCount = s.lateCount
          /\ w.requestCount = s.requestCount /\ w.angle = s.angle
          /\ w.armTrack = s.armTrack /\ w.timer = s.timer /\ w.seekBegin = s.timer
          /\ w.xferBegin = s.xferBegin /\ w.seekTotal = s.seekTotal
          /\ w.rotTotal = s.rotTotal /\ w.xferTotal = s.xferTotal /\ w.arm = s.arm
          /\ w.rotBegin = s.rotBegin /\ w.armSpeed = g /\ w.state = "SEEK"
          /\ w.armTarget = track
      BY <1>5, <1>6 DEF Fields, Clocks
    <3> HIDE DEF w, v
    <3> QED BY <2>4, <3>1, <3>2, <3>3 DEF Clocked
  <2> QED BY <2>3, <2>4
<1> HIDE DEF v, track
<1>8. /\ t.current = k /\ t.totalEst = e /\ t.requestCount = s.requestCount
      /\ t.angle = s.angle /\ t.armTrack = s.armTrack /\ t.timer = s.timer
      /\ t.seekBegin = s.timer /\ t.xferBegin = v.xferBegin /\ t.seekTotal = s.seekTotal
      /\ t.rotTotal = s.rotTotal /\ t.xferTotal = s.xferTotal /\ t.arm = s.arm
      /\ t.rotBegin = v.rotBegin /\ t.armSpeed = v.armSpeed /\ t.state = v.state
      /\ t.armTarget = v.armTarget /\ Clocks \subseteq DOMAIN t
  BY <1>2, <1>7 DEF AddRequest, Fields, Clocks
<1>9. \A i \in 1 .. Len(s.queue) : i \in 1 .. Len(t.queue) /\ t.queue[i] = s.queue[i]
  <2> DEFINE l == lateRequests.blocks
             n == v.lateCount
             q == Append(s.queue, l[n + 1])
  <2>1. /\ s.queue \in Seq(Blocks) /\ l \in Seq(Blocks) /\ n \in Nat
        /\ Len(l) \in Nat /\ Len(s.queue) \in Nat
    BY <1>7, LenProperties DEF Typed, Started
  <2>2. CASE n < Len(l)
    <3>1. l[n + 1] \in Blocks
      BY <2>1, <2>2, ElementOfSeq, n + 1 \in 1 .. Len(l)
    <3>2. /\ Len(q) = Len(s.queue) + 1
          /\ \A i \in 1 .. Len(s.queue) : q[i] = s.queue[i]
      BY <2>1, <3>1, AppendProperties
    <3> HIDE DEF q
    <3>3. t.queue = q
      BY <1>2, <1>7, <2>2 DEF AddRequest, Fields, q
    <3> QED BY <2>1, <3>2, <3>3
  <2>3. CASE ~(n < Len(l))
    BY <1>2, <1>7, <2>3 DEF AddRequest
  <2> QED BY <2>2, <2>3
<1>10. Clocked(t)
  BY <1>4, <1>7, <1>8 DEF Clocked
<1>11. Track(t) = track
  BY <1>3, <1>8, <1>9 DEF Track, track
<1> QED BY <1>3, <1>7, <1>8, <1>9, <1>10, <1>11 DEF Planned, e

\* GetNextIO has chosen the request that is served then.
LEMMA NextIsPlanned ==
    ASSUME Started, NEW s, Ready(s), Clocked(s), NEW t \in GetNextIO(s), Busy(t)
    PROVE  Planned(s, t)
<1>1. t.failed = FALSE /\ t.isDone = FALSE
  BY DEF Busy, Counted, Typed
<1>2. s.requestCount # Len(s.queue)
  <2>1. [s EXCEPT !.isDone = TRUE].isDone = TRUE
    BY DEF Ready, Typed, Fields
  <2> QED BY <1>1, <2>1 DEF GetNextIO
<1>3. s.requestCount < Len(s.queue)
  <2>1. s.requestCount \in Nat /\ Len(s.queue) \in Nat /\ s.requestCount <= Len(s.queue)
    BY Numbers DEF Ready, Typed
  <2> QED BY <1>2, <2>1
<1>4. CASE Policy = "FIFO"
  <2>1. t \in Chosen(s) /\ InWindow(s)
    BY <1>2, <1>3, <1>4 DEF GetNextIO, Ready, AtWindow, Batched
  <2>2. Candidates(s) \subseteq 1 .. Len(s.queue)
    BY <1>3, <2>1, SomethingToChoose DEF Ready
  <2> QED BY <1>1, <2>1, <2>2, ChoicePlans DEF Ready
<1>5. CASE Policy # "FIFO"
  <2> DEFINE w == GetWindow(s)
  <2>1. t \in Chosen(w)
    BY <1>2, <1>5 DEF GetNextIO
  <2>2. SameBooks(s, w) /\ Typed(w) /\ InWindow(w)
    BY <1>3, <1>5, GetWindowMoves
  <2>3. Counted(w) /\ w.requestCount < Len(w.queue)
    BY <1>3, <2>2 DEF SameBooks, Ready, Counted
  <2>4. Clocks \subseteq DOMAIN w
        /\ w.timer = s.timer /\ w.seekBegin = s.seekBegin /\ w.rotBegin = s.rotBegin
        /\ w.xferBegin = s.xferBegin /\ w.totalEst = s.totalEst
        /\ w.seekTotal = s.seekTotal /\ w.rotTotal = s.rotTotal
        /\ w.xferTotal = s.xferTotal /\ w.arm = s.arm /\ w.armSpeed = s.armSpeed
        /\ w.angle = s.angle /\ w.armTrack = s.armTrack
    BY DEF GetWindow, Clocked, Clocks, Ready, Typed, Fields
  <2> HIDE DEF w
  <2>5. Clocked(w)
    BY <2>4 DEF Clocked
  <2>6. Candidates(w) \subseteq 1 .. Len(w.queue)
    BY <2>2, <2>3, SomethingToChoose
  <2>7. Planned(w, t)
    BY <1>1, <2>1, <2>2, <2>5, <2>6, ChoicePlans
  <2>8. w.queue = s.queue /\ w.requestCount = s.requestCount
    BY <2>2 DEF SameBooks
  <2>9. Estimate(w, t.current) = Estimate(s, t.current)
    BY <2>4, <2>8 DEF Estimate, SeekDegrees, angleAtArrival
  <2> QED BY <2>4, <2>7, <2>8, <2>9 DEF Planned
<1> QED BY <1>4, <1>5

\* Then the disk is in time with the estimate, as long as the arm was on a track.
LEMMA PlanIsInTime ==
    ASSUME Started, Fits, NEW s, NEW t, Typed(s), Typed(t), Clocked(s), Planned(s, t),
           s.arm = trackWidth * s.armTrack,
           s.seekTotal + s.rotTotal + s.xferTotal = s.timer
    PROVE  /\ Clocked(t) /\ AddUp(t) /\ Ticks(t) = 0
           /\ t.current \in 1 .. Len(t.queue)
           /\ \/ Seeking(t)
              \/ /\ t.state = "ROTATE" /\ t.armTrack = Track(t)
                 /\ t.arm = trackWidth * t.armTrack
                 /\ t.totalEst = To(t.angle, Begin(t)) + angleOffset(Track(t))
<1> DEFINE a == s.armTrack
           b == Track(t)
           n == SeekTicks(a, b)
           c == options.rotateSpeed
<1>1. /\ Clocked(t) /\ t.timer = s.timer /\ t.seekBegin = s.timer /\ t.angle = s.angle
      /\ t.arm = s.arm /\ t.armTrack = a
      /\ t.seekTotal = s.seekTotal /\ t.rotTotal = s.rotTotal /\ t.xferTotal = s.xferTotal
      /\ t.current \in 1 .. Len(t.queue)
      /\ t.queue[t.current] = s.queue[t.current]
  BY DEF Planned
<1>2. AddUp(t)
  BY <1>1 DEF AddUp
<1>3. Ticks(t) = 0
  BY <1>1 DEF Ticks, Clocked
<1>4. a \in 0 .. 2 /\ b \in 0 .. 2
  <2>1. a \in 0 .. 2
    BY DEF Typed
  <2>2. b \in 0 .. 2
    BY <1>1, TheBlock, Zenon
  <2> QED BY <2>1, <2>2
<1>5. n \in Nat /\ (a = b => n = 0) /\ (a # b => n > 0)
  <2> HIDE DEF a, b
  <2> QED BY <1>4, SeekTakes, Zenon
<1>6. c \in Nat \ {0} /\ n * c \in Int
  <2>1. c \in Nat \ {0}
    BY DiskAssumption DEF Started, DiskAssumption
  <2> HIDE DEF n, c
  <2> QED BY <1>5, <2>1
<1>7. s.angle \in 0 .. 359 /\ t.current \in 1 .. Len(s.queue)
  BY DEF Clocked, OnTick, Planned
<1>8. PICK x \in 0 .. 359, m \in Int :
         /\ s.angle + n * c = x + 360 * m
         /\ Estimate(s, t.current) = n * c + To(x, Begin(t)) + angleOffset(b)
  <2> DEFINE k == t.current
  <2>1. k \in 1 .. Len(s.queue) /\ s.queue[k] = t.queue[k]
    BY <1>1, <1>7
  <2> HIDE DEF k
  <2>2. LET e == s.queue[k]
            f == blockToTrack(e)
            g == SeekTicks(s.armTrack, f) IN
        \E x \in 0 .. 359, m \in Int :
           /\ s.angle + g * options.rotateSpeed = x + 360 * m
           /\ Estimate(s, k) = g * options.rotateSpeed + To(x, BeginAngle(e, f)) + angleOffset(f)
    BY <1>7, <2>1, EstimateSays, ZenonT(60)
  <2> QED BY <2>1, <2>2, ZenonT(60) DEF k, Track, Begin
<1>9. t.totalEst = n * c + To(x, Begin(t)) + angleOffset(b)
  BY <1>8 DEF Planned
<1>10. CASE b = a
  <2>1. t.state = "ROTATE" /\ t.armTrack = b
    BY <1>1, <1>10 DEF Planned
  <2>2. n * c = 0
    <3> HIDE DEF n, c, a, b
    <3>1. n = 0
      BY <1>5, <1>10
    <3> QED BY <1>6, <3>1
  <2>3. s.angle = x
    <3> DEFINE g == s.angle
               z == n * c
    <3>1. g \in 0 .. 359 /\ z = 0 /\ g + z = x + 360 * m
      BY <1>7, <1>8, <2>2
    <3> HIDE DEF g, z
    <3>2. g = x + 360 * m
      BY <3>1
    <3>3. g = x
      BY <3>1, <3>2, SameAngle, ZenonT(60)
    <3> QED BY <3>3 DEF g
  <2>4. t.totalEst = To(t.angle, Begin(t)) + angleOffset(b)
    <3>1. To(x, Begin(t)) \in Int /\ angleOffset(b) \in Nat
      <4>1. Begin(t) \in 0 .. 359 /\ angleOffset(b) \in Nat
        BY <1>1, TheBlock, Zenon
      <4> QED BY <4>1, RotationLeft, Zenon
    <3> DEFINE y == To(x, Begin(t))
               o == angleOffset(b)
               z == n * c
    <3>2. y \in Int /\ o \in Int /\ z = 0 /\ t.totalEst = z + y + o
      BY <1>9, <2>2, <3>1
    <3> HIDE DEF y, o, z
    <3>3. t.totalEst = y + o
      BY <3>2
    <3> QED BY <1>1, <2>3, <3>3 DEF y, o
  <2> QED BY <1>1, <1>2, <1>3, <2>1, <2>4
<1>11. CASE b # a
  <2>1. /\ t.state = "SEEK" /\ t.armTarget = b
        /\ t.armSpeed = IF t.armTarget >= t.armTrack THEN options.seekSpeed
                        ELSE -options.seekSpeed
    BY <1>11 DEF Planned
  <2>2. /\ t.armSpeed \in Int /\ trackWidth * a \in Int /\ n - 0 = n
        /\ 0 * t.armSpeed = 0 /\ trackWidth * a + 0 = trackWidth * a
    <3>1. t.armSpeed \in Int
      BY <1>1 DEF Clocked
    <3>2. trackWidth * a \in Int
      BY <1>4 DEF trackWidth
    <3> DEFINE y == trackWidth * a
               z == t.armSpeed
    <3>3. y \in Int /\ z \in Int /\ n \in Int
      BY <1>5, <3>1, <3>2
    <3> HIDE DEF n, y, z
    <3>4. n - 0 = n /\ 0 * z = 0 /\ y + 0 = y
      BY <3>3
    <3> QED BY <3>1, <3>2, <3>4 DEF y, z
  <2>3. t.arm = trackWidth * t.armTrack + Ticks(t) * t.armSpeed
    BY <1>1, <1>3, <2>2
  <2>4. Ticks(t) >= 0 /\ Ticks(t) < SeekTicks(t.armTrack, t.armTarget)
    <3>1. n > 0
      BY <1>5, <1>11
    <3>2. SeekTicks(t.armTrack, t.armTarget) = n
      BY <1>1, <2>1
    <3> HIDE DEF n
    <3> QED BY <1>3, <1>5, <3>1, <3>2
  <2>5. SeekTicks(t.armTrack, t.armTarget) = n /\ n - Ticks(t) = n
    BY <1>1, <1>3, <2>1, <2>2
  <2>6. \E y \in 0 .. 359, l \in Int :
           /\ t.angle + (n - Ticks(t)) * c = y + 360 * l
           /\ t.totalEst = n * c + To(y, Begin(t)) + angleOffset(Track(t))
    BY <1>1, <1>8, <1>9, <2>5, ZenonT(60)
  <2>7. Seeking(t)
    <3> HIDE DEF n
    <3> QED BY <1>1, <1>11, <2>1, <2>3, <2>4, <2>5, <2>6, Zenon DEF Seeking
  <2> QED BY <1>1, <1>2, <1>3, <2>7
<1> QED BY <1>10, <1>11

\* What a choice does not change, whether it finds a request or not.
SameTimes(s, t) ==
    /\ Fields \cup Clocks \subseteq DOMAIN t
    /\ t.timer = s.timer /\ t.requestCount = s.requestCount
    /\ t.seekTotal = s.seekTotal /\ t.rotTotal = s.rotTotal /\ t.xferTotal = s.xferTotal

LEMMA NoTimePasses ==
    ASSUME NEW s, Fields \cup Clocks \subseteq DOMAIN s, NEW t \in GetNextIO(s)
    PROVE  SameTimes(s, t)
<1>1. ASSUME NEW w, Fields \cup Clocks \subseteq DOMAIN w, NEW v \in Chosen(w)
      PROVE  SameTimes(w, v)
  <2>1. CASE v = Fails(w)
    BY <1>1, <2>1 DEF Fails, SameTimes, Fields, Clocks
  <2>2. ASSUME NEW k,
               v = AddRequest(PlanSeek([w EXCEPT !.current = k, !.totalEst = Estimate(w, k)]))
        PROVE  SameTimes(w, v)
    <3> DEFINE e == Estimate(w, k)
               x == [w EXCEPT !.current = k, !.totalEst = e]
               y == PlanSeek(x)
    <3>1. SameTimes(w, x)
      <4> HIDE DEF e
      <4> QED BY <1>1 DEF SameTimes, Fields, Clocks
    <3> HIDE DEF x
    <3>2. SameTimes(x, y)
      <4>1. Fields \cup Clocks \subseteq DOMAIN x
        BY <3>1 DEF SameTimes
      <4> DEFINE track == blockToTrack(x.queue[x.current])
                 g == IF track >= x.armTrack THEN options.seekSpeed ELSE -options.seekSpeed
                 y1 == [x EXCEPT !.seekBegin = x.timer, !.rotBegin = x.timer, !.state = "ROTATE"]
                 y2 == [x EXCEPT !.seekBegin = x.timer, !.state = "SEEK", !.armTarget = track,
                                 !.armSpeed = g]
      <4>2. y = y1 \/ y = y2
        BY DEF PlanSeek
      <4> HIDE DEF track, g
      <4>3. SameTimes(x, y1)
        BY <4>1 DEF SameTimes, Fields, Clocks
      <4>4. SameTimes(x, y2)
        BY <4>1 DEF SameTimes, Fields, Clocks
      <4> HIDE DEF y, y1, y2
      <4> QED BY <4>2, <4>3, <4>4
    <3> HIDE DEF y
    <3>3. SameTimes(y, AddRequest(y))
      BY <3>2 DEF AddRequest, SameTimes, Fields, Clocks
    <3> QED BY <2>2, <3>1, <3>2, <3>3 DEF SameTimes, x, y
  <2> QED BY <2>1, <2>2 DEF Chosen
<1>2. SameTimes(s, s) /\ SameTimes(s, [s EXCEPT !.isDone = TRUE])
  BY DEF SameTimes, Fields, Clocks
<1>3. SameTimes(s, GetWindow(s))
  BY DEF GetWindow, SameTimes, Fields, Clocks
<1>4. ASSUME NEW w, SameTimes(s, w), t \in Chosen(w)
      PROVE  SameTimes(s, t)
  <2>1. SameTimes(w, t)
    BY <1>1, <1>4 DEF SameTimes
  <2> QED BY <1>4, <2>1 DEF SameTimes
<1> QED BY <1>2, <1>3, <1>4 DEF GetNextIO

\* Where the block ends the request is counted, and its time; the next one begins
\* there and then, and if it is the next block its transfer does.
LEMMA EndInTime ==
    ASSUME Started, Fits, NEW s, Busy(s), Even(s), Clocked(s), AddUp(s), Ending(s),
           NEW t \in Transfer(s)
    PROVE  /\ t.timer = s.timer /\ t.requestCount = s.requestCount + 1
           /\ t.seekTotal + t.rotTotal + t.xferTotal = t.timer
           /\ Busy(t) /\ Even(t) => Timed(t)
<1> DEFINE u == UpdateWindow(Finished(s))
           b == s.queue[s.current]
<1>1. Typed(s) /\ s.current \in 1 .. Len(s.queue) /\ b \in Blocks
  <2>1. Typed(s) /\ s.current \in 1 .. Len(s.queue)
    BY DEF Busy, LetIn
  <2> QED BY <2>1, TheBlock, Zenon
<1>2. DoneWithTransfer(s)
  <2>1. OnTick(s.angle) /\ OnTick(End(s)) /\ s.angle = End(s)
    BY <1>1, TheBlock, Zenon DEF Clocked, Ending
  <2>2. RadiallyCloseTo(s.angle, End(s))
    BY <2>1, CloseIsSame, Zenon
  <2> QED BY <2>2 DEF DoneWithTransfer, End, Ending
<1>3. PICK v \in GetNextIO(u) : t = StayInTransfer(v, b)
  BY <1>2 DEF Transfer, Ending
<1>4. /\ Ready(u) /\ u.queue = s.queue /\ u.current = s.current /\ u.armTrack = s.armTrack
  BY FinishedIsReady
<1>5. /\ Fields \cup Clocks \subseteq DOMAIN u
      /\ u.requestCount = s.requestCount + 1 /\ u.timer = s.timer
      /\ u.seekTotal = s.seekTotal + (s.rotBegin - s.seekBegin)
      /\ u.rotTotal = s.rotTotal + (s.xferBegin - s.rotBegin)
      /\ u.xferTotal = s.xferTotal + (s.timer - s.xferBegin)
      /\ u.seekBegin = s.seekBegin /\ u.rotBegin = s.rotBegin
      /\ u.xferBegin = s.xferBegin /\ u.totalEst = s.totalEst /\ u.arm = s.arm
      /\ u.armSpeed = s.armSpeed /\ u.angle = s.angle
  <2> DEFINE f == Finished(s)
  <2>1. /\ Fields \cup Clocks \subseteq DOMAIN f
        /\ f.requestCount = s.requestCount + 1 /\ f.timer = s.timer
        /\ f.seekTotal = s.seekTotal + (s.rotBegin - s.seekBegin)
        /\ f.rotTotal = s.rotTotal + (s.xferBegin - s.rotBegin)
        /\ f.xferTotal = s.xferTotal + (s.timer - s.xferBegin)
        /\ f.seekBegin = s.seekBegin /\ f.rotBegin = s.rotBegin
        /\ f.xferBegin = s.xferBegin /\ f.totalEst = s.totalEst /\ f.arm = s.arm
        /\ f.armSpeed = s.armSpeed /\ f.angle = s.angle
    BY <1>1 DEF Finished, Typed, Fields, Clocked, Clocks
  <2> HIDE DEF f
  <2>2. \E c : UpdateWindow(f) = [f EXCEPT !.currWindow = c]
    BY DEF UpdateWindow
  <2>3. PICK c : UpdateWindow(f) = [f EXCEPT !.currWindow = c]
    BY <2>2
  <2>4. u = [f EXCEPT !.currWindow = c]
    BY <2>3 DEF f
  <2> HIDE DEF u
  <2> QED BY <2>1, <2>4 DEF Fields, Clocks
<1> HIDE DEF u
<1>6. Clocked(u) /\ u.seekTotal + u.rotTotal + u.xferTotal = u.timer
  <2>1. /\ s.timer \in Int /\ s.seekBegin \in Int /\ s.rotBegin \in Int
        /\ s.xferBegin \in Int /\ s.seekTotal \in Int /\ s.rotTotal \in Int
        /\ s.xferTotal \in Int
        /\ s.seekTotal + s.rotTotal + s.xferTotal = s.seekBegin
    BY DEF Clocked, AddUp
  <2>2. /\ u.seekTotal \in Int /\ u.rotTotal \in Int /\ u.xferTotal \in Int
        /\ u.seekTotal + u.rotTotal + u.xferTotal = u.timer
    BY <1>5, <2>1
  <2> QED BY <1>5, <2>2 DEF Clocked
<1>7. SameTimes(u, v)
  BY <1>5, NoTimePasses
<1> DEFINE w == [v EXCEPT !.rotBegin = v.timer, !.seekBegin = v.timer,
                          !.xferBegin = v.timer, !.state = "XFER", !.done = @ \ {v.current}]
<1>8. t = v \/ (t = w /\ v.failed # TRUE /\ Adjacent(v, b, v.queue[v.current]))
  BY <1>3 DEF StayInTransfer
<1>9. SameTimes(v, v) /\ SameTimes(v, w)
  BY <1>7 DEF SameTimes, Fields, Clocks
<1>10. /\ t.timer = s.timer /\ t.requestCount = s.requestCount + 1
       /\ t.seekTotal + t.rotTotal + t.xferTotal = t.timer
  <2> HIDE DEF w
  <2>1. SameTimes(v, t)
    BY <1>8, <1>9
  <2> QED BY <1>5, <1>6, <1>7, <2>1 DEF SameTimes
<1>11. /\ w.queue = v.queue /\ w.isDone = v.isDone /\ w.failed = v.failed
       /\ w.current = v.current /\ w.requestCount = v.requestCount
       /\ w.armTrack = v.armTrack /\ w.arm = v.arm /\ w.armSpeed = v.armSpeed
       /\ w.angle = v.angle /\ w.totalEst = v.totalEst
       /\ w.timer = v.timer /\ w.seekBegin = v.timer /\ w.rotBegin = v.timer
       /\ w.xferBegin = v.timer /\ w.state = "XFER" /\ Clocks \subseteq DOMAIN w
       /\ w.seekTotal = v.seekTotal /\ w.rotTotal = v.rotTotal
       /\ w.xferTotal = v.xferTotal
  BY <1>7 DEF SameTimes, Fields, Clocks
<1> HIDE DEF w
<1>12. ASSUME Busy(t), Even(t) PROVE Timed(t)
  <2>1. t.queue = v.queue /\ t.isDone = v.isDone /\ t.failed = v.failed
    BY <1>8, <1>11
  <2>2. v.isDone = FALSE /\ v.failed = FALSE
    BY <1>12, <2>1 DEF Busy, Counted, Typed
  <2>3. Busy(v)
    <3>1. ~(v = [u EXCEPT !.isDone = TRUE])
      BY <1>5, <2>2 DEF Fields
    <3>2. ASSUME NEW x, v = Fails(x), Typed(x) PROVE FALSE
      BY <2>2, <3>2 DEF Fails, Typed, Fields
    <3> QED BY <1>4, <3>1, <3>2, NextIsServed
  <2>4. Typed(u) /\ Typed(v)
    BY <1>4, <2>3 DEF Ready, Busy
  <2>5. Planned(u, v)
    BY <1>4, <1>6, <2>3, NextIsPlanned, Zenon
  <2>6. u.arm = trackWidth * u.armTrack
    BY <1>4, <1>5 DEF Ending
  <2>7. /\ Clocked(v) /\ AddUp(v) /\ Ticks(v) = 0
        /\ v.current \in 1 .. Len(v.queue)
        /\ \/ Seeking(v)
           \/ /\ v.state = "ROTATE" /\ v.armTrack = Track(v)
              /\ v.arm = trackWidth * v.armTrack
              /\ v.totalEst = To(v.angle, Begin(v)) + angleOffset(Track(v))
    BY <1>6, <2>4, <2>5, <2>6, PlanIsInTime, Zenon
  <2> DEFINE e == v.queue[v.current]
  <2>8. /\ e \in Blocks /\ Begin(v) \in 0 .. 359 /\ End(v) \in 0 .. 359
        /\ Begin(v) # End(v) /\ angleOffset(Track(v)) = To(Begin(v), End(v))
        /\ To(Begin(v), End(v)) \in Int
    <3>1. /\ e \in Blocks /\ Begin(v) \in 0 .. 359 /\ End(v) \in 0 .. 359
          /\ Begin(v) # End(v) /\ angleOffset(Track(v)) = To(Begin(v), End(v))
      BY <2>4, <2>7, TheBlock, Zenon
    <3> QED BY <3>1, RotationLeft, Zenon
  <2>9. /\ v.armTrack = s.armTrack /\ v.armTrack = blockToTrack(b)
        /\ v.angle = EndAngle(b, v.armTrack)
    BY <1>4, <1>5, <2>5 DEF Planned, Ending, Track, End
  <2> HIDE DEF b, e
  <2>10. Adjacent(v, b, e) <=> /\ blockToTrack(b) = blockToTrack(e)
                               /\ EndAngle(b, v.armTrack) = BeginAngle(e, v.armTrack)
    BY <1>1, <2>8, <2>9, NextTo, Zenon
  <2>11. Track(v) = blockToTrack(e) /\ Begin(v) = BeginAngle(e, Track(v))
    BY DEF Track, Begin, e
  <2>12. options.rotateSpeed \in Int /\ 0 * options.rotateSpeed = 0
    <3>1. options.rotateSpeed \in Int
      BY DiskAssumption DEF Started, DiskAssumption
    <3> DEFINE c == options.rotateSpeed
    <3>2. c \in Int
      BY <3>1
    <3> HIDE DEF c
    <3>3. 0 * c = 0
      BY <3>2
    <3> QED BY <3>1, <3>3 DEF c
  <2>13. CASE Adjacent(v, b, e)
    <3>1. t = w
      BY <1>3, <2>2, <2>13 DEF StayInTransfer, w, e
    <3>2. Track(v) = v.armTrack /\ v.angle = Begin(v)
      BY <2>9, <2>10, <2>11, <2>13
    <3>3. v.arm = trackWidth * v.armTrack
          /\ v.totalEst = To(v.angle, Begin(v)) + angleOffset(Track(v))
      BY <2>7, <3>2 DEF Seeking
    <3>4. v.totalEst = To(Begin(v), End(v))
      <4>1. To(Begin(v), Begin(v)) = 0
        BY <2>8, RotationLeft, Zenon
      <4> QED BY <2>8, <3>2, <3>3, <4>1
    <3>5. Track(w) = Track(v) /\ End(w) = End(v) /\ Begin(w) = Begin(v)
      BY <1>11 DEF Track, Begin, End
    <3>6. v.timer \in Int /\ v.timer = v.seekBegin
      BY <2>5 DEF Planned, Clocked
    <3>7. Clocked(w) /\ AddUp(w) /\ Ticks(w) = 0
      BY <1>11, <2>7, <3>6 DEF Clocked, AddUp, Ticks
    <3>8. w.totalEst = Ticks(w) * options.rotateSpeed + To(w.angle, End(w))
      BY <1>11, <2>8, <2>12, <3>2, <3>4, <3>5, <3>7
    <3>9. Moving(w)
      BY <1>11, <2>8, <3>2, <3>3, <3>5, <3>8 DEF Moving
    <3> QED BY <3>1, <3>7, <3>9 DEF Timed
  <2>14. CASE ~Adjacent(v, b, e)
    <3>1. t = v
      BY <1>8, <2>14 DEF e
    <3>2. CASE Seeking(v)
      BY <2>7, <3>1, <3>2 DEF Timed
    <3>3. CASE ~Seeking(v)
      <4>1. v.angle # Begin(v)
        BY <2>7, <2>9, <2>10, <2>11, <2>14, <3>3
      <4>2. v.totalEst = Ticks(v) * options.rotateSpeed + To(v.angle, Begin(v))
                             + angleOffset(Track(v))
        <5>1. v.angle \in 0 .. 359
          BY <2>7 DEF Clocked, OnTick
        <5>2. To(v.angle, Begin(v)) \in Int
          BY <2>8, <5>1, RotationLeft, Zenon
        <5> DEFINE y == To(v.angle, Begin(v))
                   o == angleOffset(Track(v))
        <5>3. y \in Int /\ o \in Int /\ v.totalEst = y + o
          BY <2>7, <2>8, <3>3, <5>2
        <5> HIDE DEF y, o
        <5>4. v.totalEst = 0 + y + o
          BY <5>3
        <5> QED BY <2>7, <2>12, <5>4 DEF y, o
      <4>3. Rotating(v)
        BY <2>7, <3>3, <4>1, <4>2 DEF Rotating
      <4> QED BY <2>7, <3>1, <4>3 DEF Timed
    <3> QED BY <3>2, <3>3
  <2> QED BY <2>13, <2>14
<1> QED BY <1>10, <1>12

-----------------------------------------------------------------------------
\* One call of Animate, in time with the estimate.
LEMMA TickInTime ==
    ASSUME Started, Fits, NEW s, Busy(s), Even(s), Timed(s), NEW t \in Tick(s)
    PROVE  \/ t.requestCount = s.requestCount /\ Timed(t)
           \/ /\ Plain(s) => (t.timer - s.seekBegin) * options.rotateSpeed = s.totalEst
              /\ t.seekTotal + t.rotTotal + t.xferTotal = t.timer
              /\ Busy(t) /\ Even(t) => Timed(t)
<1> DEFINE w == Moved(s)
<1>1. t \in Transfer(w)
  BY DEF Tick, Moved
<1>2. Typed(s) /\ s.current \in 1 .. Len(s.queue) /\ Clocked(s) /\ AddUp(s)
  BY DEF Busy, LetIn, Timed
<1>3. AfterTick(s, w) /\ Clocked(w) /\ AddUp(w) /\ (Timed(w) \/ Ending(w))
  <2>1. CASE Seeking(s)
    BY <1>2, <2>1, TickWhileSeeking, Zenon DEF Timed
  <2>2. CASE Rotating(s)
    BY <1>2, <2>2, TickWhileRotating, Zenon DEF Timed
  <2>3. CASE Moving(s)
    BY <1>2, <2>3, TickWhileMoving, Zenon DEF Timed
  <2> QED BY <2>1, <2>2, <2>3 DEF Timed
<1> HIDE DEF w
<1>4. /\ OnlyArm(s, w) /\ Busy(w) /\ Even(w) /\ (Plain(w) <=> Plain(s))
      /\ w.requestCount = s.requestCount
  <2>1. SameClaim(s, w) /\ OnlyArm(s, w)
    BY <1>3 DEF AfterTick, SameClaim
  <2>2. (Even(w) <=> Even(s)) /\ (Plain(w) <=> Plain(s))
    BY <2>1, SameBlock, Zenon
  <2>3. Busy(w)
    BY <2>1, StillBusy
  <2> QED BY <2>1, <2>2, <2>3 DEF OnlyArm, SameBooks
<1>5. CASE Ending(w)
  <2>1. /\ t.timer = w.timer /\ t.seekTotal + t.rotTotal + t.xferTotal = t.timer
        /\ Busy(t) /\ Even(t) => Timed(t)
    BY <1>1, <1>3, <1>4, <1>5, EndInTime, Zenon
  <2>2. w.totalEst = s.totalEst /\ w.seekBegin = s.seekBegin
    BY <1>3 DEF AfterTick, SameClaim
  <2>3. Plain(s) => (t.timer - s.seekBegin) * options.rotateSpeed = s.totalEst
    BY <1>4, <1>5, <2>1, <2>2 DEF Ending, Ticks
  <2> QED BY <2>1, <2>3
<1>6. CASE Timed(w) /\ ~Ending(w)
  <2>1. t = w
    <3>1. CASE w.state # "XFER"
      BY <1>1, <3>1 DEF Transfer
    <3>2. CASE w.state = "XFER"
      <4>1. Moving(w)
        BY <1>6, <3>2 DEF Timed, Seeking, Rotating
      <4>2. OnTick(w.angle) /\ OnTick(End(w))
        <5>1. Typed(w) /\ w.current \in 1 .. Len(w.queue)
          BY <1>4 DEF Busy, LetIn
        <5>2. OnTick(End(w))
          BY <1>4, <5>1, TheBlock, Zenon
        <5> QED BY <1>3, <5>2 DEF Clocked
      <4>3. ~RadiallyCloseTo(w.angle, End(w))
        BY <4>1, <4>2, CloseIsSame, Zenon DEF Moving
      <4>4. ~DoneWithTransfer(w)
        BY <4>1, <4>3 DEF DoneWithTransfer, Moving, End
      <4> QED BY <1>1, <4>4 DEF Transfer
    <3> QED BY <3>1, <3>2
  <2> QED BY <1>4, <1>6, <2>1
<1> QED BY <1>3, <1>5, <1>6

\* In the tick in which a request is chosen none is done.
LEMMA FirstTick ==
    ASSUME Started, Fits, NEW e, Typed(e), Even(e), NEW s, Busy(s), Planned(e, s),
           NEW t \in Tick(s)
    PROVE  t.requestCount = s.requestCount
<1> DEFINE u == Rotate(s)
           v == Seek(u)
           w == Settle(v)
<1>1. t \in Transfer(w)
  BY DEF Tick
<1>2. /\ Typed(s) /\ s.current \in 1 .. Len(s.queue) /\ Clocked(s)
      /\ s.current \in 1 .. Len(e.queue) /\ s.queue[s.current] = e.queue[s.current]
      /\ s.armTrack = e.armTrack
  BY DEF Busy, LetIn, Planned
<1>3. /\ OnTick(Begin(s)) /\ OnTick(End(s)) /\ Begin(s) # End(s)
  <2> DEFINE b == s.queue[s.current]
  <2>1. b \in Blocks
    BY <1>2, TheBlock, Zenon
  <2>2. OnTick(BeginAngle(b, blockToTrack(b)))
    BY <1>2 DEF Even
  <2> HIDE DEF b
  <2>3. LET f == blockToTrack(b) begin == BeginAngle(b, f) end == EndAngle(b, f) IN
        begin # end /\ (OnTick(begin) => OnTick(end))
    BY <2>1, BlockAngles, Zenon
  <2> QED BY <2>2, <2>3 DEF Begin, End, Track, b
<1>4. /\ u.angle = Turned(s.angle) /\ OnTick(u.angle) /\ u.state = s.state
      /\ u.armTrack = s.armTrack /\ u.armTarget = s.armTarget
      /\ u.queue = s.queue /\ u.current = s.current /\ u.requestCount = s.requestCount
      /\ Fields \subseteq DOMAIN u
  <2>1. SameClaim(s, u) /\ Clocked(u) /\ u.angle = Turned(s.angle) /\ u.state = s.state
        /\ u.armTrack = s.armTrack /\ u.armTarget = s.armTarget
    BY <1>2, Turns, Zenon
  <2> QED BY <2>1 DEF SameClaim, OnlyArm, SameBooks, Clocked, Typed
<1>5. \/ u.state = "SEEK" /\ u.armTarget = Track(s)
      \/ u.state = "ROTATE" /\ u.armTrack = Track(s)
  BY <1>2, <1>4 DEF Planned
<1> HIDE DEF u
<1>6. /\ v.angle = u.angle /\ v.queue = s.queue /\ v.current = s.current
      /\ v.requestCount = s.requestCount /\ Fields \subseteq DOMAIN v
      /\ v.state = "SEEK" \/ (v.state = "ROTATE" /\ v.armTrack = Track(s))
  BY <1>4, <1>5 DEF Seek, Fields
<1> HIDE DEF v
<1>7. CASE w.state # "XFER"
  <2>1. t = w
    BY <1>1, <1>7 DEF Transfer
  <2> QED BY <1>6, <2>1 DEF Settle, Fields
<1>8. CASE w.state = "XFER"
  <2>1. v.state = "ROTATE" /\ DoneWithRotation(v)
    BY <1>6, <1>8 DEF Settle
  <2>2. RadiallyCloseTo(v.angle, Begin(s))
    BY <1>6, <2>1 DEF DoneWithRotation, Begin, Track
  <2>3. v.angle = Begin(s)
    BY <1>3, <1>4, <1>6, <2>2, CloseIsSame
  <2>4. /\ w.angle = v.angle /\ w.queue = s.queue /\ w.current = s.current
        /\ w.armTrack = Track(s) /\ w.requestCount = s.requestCount
    BY <1>6, <2>1 DEF Settle, Fields
  <2>5. ~RadiallyCloseTo(v.angle, End(s))
    BY <1>3, <2>3, CloseIsSame
  <2>6. ~DoneWithTransfer(w)
    BY <2>4, <2>5 DEF DoneWithTransfer, End, Track
  <2> QED BY <1>1, <2>4, <2>6 DEF Transfer
<1> QED BY <1>7, <1>8

\* The first request.
LEMMA GoInTime ==
    ASSUME Started, Fits, d = Start0, Go, Running', Even(d')
    PROVE  Timed(d')
<1>1. PICK t \in GetNextIO(Start0) : d' = [t EXCEPT !.starts = 1]
  BY DEF Go
<1>2. Ready(Start0) /\ Typed(Start0)
  BY StartIsReady DEF Ready
<1>3. Clocked(Start0)
  <2>1. OnTick(0)
    <3>1. options.rotateSpeed \in Nat \ {0}
      BY DiskAssumption DEF Started, DiskAssumption
    <3> DEFINE c == options.rotateSpeed
    <3>2. c \in Nat \ {0}
      BY <3>1
    <3> HIDE DEF c
    <3>3. 0 % c = 0
      BY <3>2, DivModUnique, 0 = c * 0 + 0
    <3> QED BY <3>3 DEF OnTick, c
  <2>2. options.seekSpeed \in Int
    BY DiskAssumption DEF Started, DiskAssumption
  <2> QED BY <2>1, <2>2 DEF Clocked, Clocks, Start0
<1>4. SameTimes(Start0, t)
  <2>1. Fields \cup Clocks \subseteq DOMAIN Start0
    BY DEF Fields, Clocks, Start0
  <2> QED BY <2>1, NoTimePasses
<1> DEFINE e == [t EXCEPT !.starts = 1]
<1>5. /\ e.isDone = t.isDone /\ e.failed = t.failed /\ e.queue = t.queue
      /\ e.current = t.current /\ e.requestCount = t.requestCount
      /\ e.armTrack = t.armTrack /\ e.armTarget = t.armTarget /\ e.angle = t.angle
      /\ e.state = t.state /\ e.timer = t.timer /\ e.seekBegin = t.seekBegin
      /\ e.rotBegin = t.rotBegin /\ e.xferBegin = t.xferBegin /\ e.totalEst = t.totalEst
      /\ e.seekTotal = t.seekTotal /\ e.rotTotal = t.rotTotal
      /\ e.xferTotal = t.xferTotal /\ e.arm = t.arm /\ e.armSpeed = t.armSpeed
      /\ Clocks \subseteq DOMAIN e
  BY <1>4 DEF SameTimes, Fields, Clocks
<1> HIDE DEF e
<1>6. d' = e
  BY <1>1 DEF e
<1>7. ~t.isDone /\ ~t.failed /\ Even(t)
  BY <1>5, <1>6 DEF Running, Even
<1>8. Busy(t)
  <2>1. ~(t = [Start0 EXCEPT !.isDone = TRUE])
    BY <1>7 DEF Start0
  <2>2. ASSUME NEW x, t = Fails(x), Typed(x) PROVE FALSE
    BY <1>7, <2>2 DEF Fails, Typed, Fields
  <2> QED BY <1>2, <2>1, <2>2, NextIsServed
<1>9. Planned(Start0, t) /\ Typed(t)
  BY <1>2, <1>3, <1>8, NextIsPlanned DEF Busy
<1>10. /\ Start0.arm = trackWidth * Start0.armTrack
       /\ Start0.seekTotal + Start0.rotTotal + Start0.xferTotal = Start0.timer
       /\ Start0.angle = 0 /\ Start0.requestCount = 0
  BY DEF Start0, trackWidth
<1>11. /\ Clocked(t) /\ AddUp(t) /\ Ticks(t) = 0
       /\ t.current \in 1 .. Len(t.queue)
       /\ \/ Seeking(t)
          \/ /\ t.state = "ROTATE" /\ t.armTrack = Track(t)
             /\ t.arm = trackWidth * t.armTrack
             /\ t.totalEst = To(t.angle, Begin(t)) + angleOffset(Track(t))
  BY <1>2, <1>3, <1>9, <1>10, PlanIsInTime, Zenon
<1>12. Timed(t)
  <2>1. CASE Seeking(t)
    BY <1>11, <2>1 DEF Timed
  <2>2. CASE ~Seeking(t)
    <3>1. t.angle = 0 /\ t.requestCount = 0
      BY <1>9, <1>10 DEF Planned
    <3>2. Plain(t) => t.angle # Begin(t)
      BY <3>1 DEF Plain
    <3>3. /\ To(t.angle, Begin(t)) \in Int /\ angleOffset(Track(t)) \in Nat
      <4>1. Begin(t) \in 0 .. 359 /\ angleOffset(Track(t)) \in Nat
        BY <1>9, <1>11, TheBlock, Zenon
      <4>2. t.angle \in 0 .. 359
        BY <1>11 DEF Clocked, OnTick
      <4> QED BY <4>1, <4>2, RotationLeft, Zenon
    <3>4. options.rotateSpeed \in Int
      BY DiskAssumption DEF Started, DiskAssumption
    <3>5. t.totalEst = Ticks(t) * options.rotateSpeed + To(t.angle, Begin(t))
                           + angleOffset(Track(t))
      <4> DEFINE y == To(t.angle, Begin(t))
                 o == angleOffset(Track(t))
                 c == options.rotateSpeed
      <4>1. y \in Int /\ o \in Int /\ c \in Int /\ t.totalEst = y + o
        BY <1>11, <2>2, <3>3, <3>4
      <4> HIDE DEF y, o, c
      <4>2. t.totalEst = 0 * c + y + o
        BY <4>1
      <4> QED BY <1>11, <4>2 DEF y, o, c
    <3>6. Rotating(t)
      BY <1>11, <2>2, <3>2, <3>5 DEF Rotating
    <3> QED BY <1>11, <3>6 DEF Timed
  <2> QED BY <2>1, <2>2
<1>13. /\ Track(e) = Track(t) /\ Begin(e) = Begin(t) /\ End(e) = End(t)
       /\ Ticks(e) = Ticks(t) /\ (Plain(e) <=> Plain(t))
  <2>1. /\ Track(e) = Track(t) /\ Begin(e) = Begin(t) /\ End(e) = End(t)
        /\ Ticks(e) = Ticks(t)
    BY <1>5 DEF Track, Begin, End, Ticks
  <2> QED BY <1>5, <2>1 DEF Plain
<1>14. Clocked(e) /\ AddUp(e)
  BY <1>5, <1>12 DEF Timed, Clocked, AddUp
<1>15. (Seeking(t) => Seeking(e)) /\ (Rotating(t) => Rotating(e)) /\ (Moving(t) => Moving(e))
  <2>1. Seeking(t) => Seeking(e)
    BY <1>5, <1>13, ZenonT(60) DEF Seeking
  <2>2. Rotating(t) => Rotating(e)
    BY <1>5, <1>13, Zenon DEF Rotating
  <2>3. Moving(t) => Moving(e)
    BY <1>5, <1>13, Zenon DEF Moving
  <2> QED BY <2>1, <2>2, <2>3
<1> QED BY <1>6, <1>12, <1>14, <1>15 DEF Timed

\* Pressing "s" while a request is served lets no request be done in this step.
LEMMA AgainNoneIsDone ==
    ASSUME Started, Fits, Busy(d), d.starts # 0, Clocked(d), Even(d), StartAgain
    PROVE  d'.requestCount = d.requestCount
<1> DEFINE e == [d EXCEPT !.starts = @ + 1]
<1>1. PICK s \in GetNextIO(e) :
         d' \in IF s.failed THEN {[s EXCEPT !.failed = FALSE]} ELSE Tick(s)
  BY DEF StartAgain
<1>2. /\ e.queue = d.queue /\ e.requestCount = d.requestCount /\ e.isDone = d.isDone
      /\ Typed(e) /\ Ready(e) /\ e.requestCount # Len(e.queue)
  BY AgainIsReady, Zenon
<1>3. /\ Fields \cup Clocks \subseteq DOMAIN e /\ e.angle = d.angle /\ e.timer = d.timer
      /\ e.seekBegin = d.seekBegin /\ e.rotBegin = d.rotBegin
      /\ e.xferBegin = d.xferBegin /\ e.totalEst = d.totalEst
      /\ e.seekTotal = d.seekTotal /\ e.rotTotal = d.rotTotal
      /\ e.xferTotal = d.xferTotal /\ e.arm = d.arm /\ e.armSpeed = d.armSpeed
  BY DEF Busy, Typed, Fields, Clocked, Clocks
<1> HIDE DEF e
<1>4. Clocked(e) /\ Even(e)
  BY <1>2, <1>3 DEF Clocked, Even
<1>5. SameTimes(e, s)
  BY <1>3, NoTimePasses
<1>6. CASE s.failed
  <2>1. d' = [s EXCEPT !.failed = FALSE]
    BY <1>1, <1>6
  <2>2. d'.requestCount = s.requestCount
    BY <2>1
  <2> QED BY <1>2, <1>5, <2>2 DEF SameTimes
<1>7. CASE ~s.failed
  <2>1. d' \in Tick(s)
    BY <1>1, <1>7
  <2>2. Busy(s)
    <3>1. ASSUME NEW x, s = Fails(x), Typed(x) PROVE FALSE
      BY <1>7, <3>1 DEF Fails, Typed, Fields
    <3> QED BY <1>2, <3>1, NextIsServed
  <2>3. Planned(e, s)
    BY <1>2, <1>4, <2>2, NextIsPlanned
  <2>4. d'.requestCount = s.requestCount
    BY <1>2, <1>4, <2>1, <2>2, <2>3, FirstTick
  <2> QED BY <1>2, <1>5, <2>4 DEF SameTimes
<1> QED BY <1>6, <1>7

-----------------------------------------------------------------------------
\* Requests only join the queue at its end.
Joined(s, t) ==
    /\ "queue" \in DOMAIN t
    /\ \A k \in 1 .. Len(s.queue) : k \in 1 .. Len(t.queue) /\ t.queue[k] = s.queue[k]

LEMMA QueueGrows ==
    ASSUME Started, NEW s, Busy(s), NEW t \in Tick(s)
    PROVE  Joined(s, t)
<1>1. ASSUME NEW w, "queue" \in DOMAIN w, w.queue \in Seq(Blocks), NEW v \in Chosen(w)
      PROVE  Joined(w, v)
  <2>1. CASE v = Fails(w)
    BY <1>1, <2>1 DEF Fails, Joined
  <2>2. ASSUME NEW k, NEW e, v = AddRequest(PlanSeek([w EXCEPT !.current = k, !.totalEst = e]))
        PROVE  Joined(w, v)
    <3> DEFINE x == [w EXCEPT !.current = k, !.totalEst = e]
               y == PlanSeek(x)
               l == lateRequests.blocks
               n == y.lateCount
               q == Append(w.queue, l[n + 1])
    <3>1. "queue" \in DOMAIN y /\ y.queue = w.queue
      <4>1. "queue" \in DOMAIN x /\ x.queue = w.queue
        BY <1>1
      <4> HIDE DEF x
      <4> QED BY <4>1 DEF PlanSeek
    <3> HIDE DEF y
    <3>2. CASE v = y
      BY <3>1, <3>2 DEF Joined
    <3>3. CASE v = [y EXCEPT !.queue = Append(@, l[n + 1]), !.lateCount = @ + 1]
      <4>1. v.queue = q /\ "queue" \in DOMAIN v
        BY <3>1, <3>3
      <4> DEFINE a == l[n + 1]
                 S == Blocks \cup {a}
      <4>2. w.queue \in Seq(S) /\ a \in S
        BY <1>1, WiderSeq
      <4> HIDE DEF S, a
      <4>3. /\ Len(Append(w.queue, a)) = Len(w.queue) + 1 /\ Len(w.queue) \in Nat
            /\ \A i \in 1 .. Len(w.queue) : Append(w.queue, a)[i] = w.queue[i]
        BY <4>2, AppendProperties, LenProperties
      <4>4. v.queue = Append(w.queue, a)
        BY <4>1 DEF a
      <4> QED BY <4>1, <4>3, <4>4 DEF Joined
    <3> QED BY <2>2, <3>2, <3>3 DEF AddRequest, x, y
  <2> QED BY <2>1, <2>2 DEF Chosen
<1>2. ASSUME NEW u, Typed(u), NEW v \in GetNextIO(u)
      PROVE  Joined(u, v)
  <2>1. "queue" \in DOMAIN u /\ u.queue \in Seq(Blocks)
    BY <1>2 DEF Typed, Fields
  <2>2. /\ GetWindow(u).queue = u.queue /\ "queue" \in DOMAIN GetWindow(u)
        /\ Joined(u, [u EXCEPT !.isDone = TRUE])
    BY <2>1 DEF GetWindow, Joined
  <2>3. ASSUME v \in Chosen(GetWindow(u)) PROVE Joined(u, v)
    <3> DEFINE w == GetWindow(u)
    <3>1. "queue" \in DOMAIN w /\ w.queue = u.queue /\ v \in Chosen(w)
      BY <2>2, <2>3
    <3> HIDE DEF w
    <3>2. Joined(w, v)
      BY <1>1, <2>1, <3>1
    <3> QED BY <3>1, <3>2 DEF Joined
  <2>4. v \in Chosen(u) => Joined(u, v)
    BY <1>1, <2>1
  <2> QED BY <1>2, <2>2, <2>3, <2>4 DEF GetNextIO
<1> DEFINE x == Rotate(s)
           y == Seek(x)
           w == Settle(y)
<1>3. t \in Transfer(w)
  BY DEF Tick
<1>4. OnlyArm(s, x) /\ Busy(x)
  BY PlatterAndArm, StillBusy DEF Busy
<1> HIDE DEF x
<1>5. OnlyArm(x, y) /\ Busy(y)
  BY <1>4, PlatterAndArm, StillBusy DEF Busy
<1> HIDE DEF y
<1>6. OnlyArm(y, w) /\ Busy(w)
  BY <1>5, PlatterAndArm, StillBusy DEF Busy
<1> HIDE DEF w
<1>7. w.queue = s.queue /\ "queue" \in DOMAIN w
  BY <1>4, <1>5, <1>6 DEF OnlyArm, SameBooks, Fields
<1>8. CASE t = w
  BY <1>7, <1>8 DEF Joined
<1>9. CASE t # w
  <2> DEFINE u == UpdateWindow(Finished(w))
             b == w.queue[w.current]
  <2>1. PICK v \in GetNextIO(u) : t = StayInTransfer(v, b)
    BY <1>3, <1>9 DEF Transfer
  <2>2. Typed(u) /\ u.queue = s.queue
    BY <1>6, <1>7, FinishedIsReady DEF Ready
  <2> HIDE DEF u, b
  <2>3. Joined(u, v)
    BY <1>2, <2>2
  <2>4. t.queue = v.queue /\ "queue" \in DOMAIN t
    BY <2>1, <2>3 DEF StayInTransfer, Joined
  <2> QED BY <2>2, <2>3, <2>4 DEF Joined
<1> QED BY <1>8, <1>9

LEMMA EvenBefore ==
    ASSUME Started, NEW s, NEW t, Joined(s, t), Even(t)
    PROVE  Even(s)
BY DEF Joined, Even

\* What is said of a disk is said with the same angles and speeds.
LEMMA SameTiming ==
    ASSUME UNCHANGED options
    PROVE  (Fits' <=> Fits) /\ (Even(d') => Even(d)') /\ (Even(d)' => Even(d'))
           /\ (Timed(d') => Timed(d)')
<1>1. options' = options
  OBVIOUS
<1>2. \A t : angleOffset(t)' = angleOffset(t) /\ blockAngleOffset(t)' = blockAngleOffset(t)
  BY <1>1 DEF angleOffset, blockAngleOffset
<1>3. \A t : BlocksOn(t)' = BlocksOn(t)
  BY <1>2 DEF BlocksOn
<1>4. \A t : First(t)' = First(t)
  BY <1>3 DEF First
<1>5. \A b : blockToTrack(b)' = blockToTrack(b)
  BY <1>3, <1>4 DEF blockToTrack, tracksBegin, tracksEnd
<1>6. \A b : blockToAngle(b)' = blockToAngle(b)
  BY <1>1, <1>2, <1>4, <1>5 DEF blockToAngle
<1>7. \A b, t : BeginAngle(b, t)' = BeginAngle(b, t) /\ EndAngle(b, t)' = EndAngle(b, t)
  BY <1>2, <1>6 DEF BeginAngle, EndAngle
<1>8. \A x : OnTick(x)' <=> OnTick(x)
  BY <1>1 DEF OnTick
<1>9. \A t, u : SeekTicks(t, u)' = SeekTicks(t, u)
  BY <1>1 DEF SeekTicks, Distance
<1>10. Fits' <=> Fits
  BY <1>1, <1>2 DEF Fits
<1>11. (Even(d') => Even(d)') /\ (Even(d)' => Even(d'))
  BY <1>5, <1>7, <1>8 DEF Even
<1>12. /\ Track(d)' = Track(d') /\ Begin(d)' = Begin(d') /\ End(d)' = End(d')
       /\ Ticks(d)' = Ticks(d')
  BY <1>5, <1>7 DEF Track, Begin, End, Ticks
<1>13. Plain(d)' <=> Plain(d')
  BY <1>12 DEF Plain
<1>14. Clocked(d') => Clocked(d)'
  BY <1>8 DEF Clocked
<1>15. AddUp(d') => AddUp(d)'
  BY DEF AddUp
<1>16. ASSUME Seeking(d') PROVE Seeking(d)'
  <2> DEFINE N == SeekTicks(d.armTrack, d.armTarget)
             Estimated(x) == d.totalEst = N * options.rotateSpeed + To(x, Begin(d))
                                            + angleOffset(Track(d))
             Brought(x, m) == d.angle + (N - Ticks(d)) * options.rotateSpeed = x + 360 * m
  <2>1. N' = SeekTicks(d'.armTrack, d'.armTarget)
    BY <1>9
  <2>2. PICK x \in 0 .. 359, m \in Int :
           /\ d'.angle + (N' - Ticks(d')) * options.rotateSpeed = x + 360 * m
           /\ d'.totalEst = N' * options.rotateSpeed + To(x, Begin(d')) + angleOffset(Track(d'))
    BY <1>16, <2>1, ZenonT(60) DEF Seeking
  <2>3. Estimated(x)' /\ Brought(x, m)'
    BY <1>1, <1>2, <1>12, <2>2 DEF To
  <2>4. (/\ d.state = "SEEK" /\ d.armTarget = Track(d) /\ d.armTarget # d.armTrack
         /\ d.armSpeed = IF d.armTarget >= d.armTrack THEN options.seekSpeed
                         ELSE -options.seekSpeed
         /\ Ticks(d) >= 0 /\ Ticks(d) < N
         /\ d.arm = trackWidth * d.armTrack + Ticks(d) * d.armSpeed)'
    <3> HIDE DEF N
    <3> QED BY <1>1, <1>12, <1>16, <2>1 DEF Seeking, trackWidth
  <2> QED BY <2>3, <2>4, Zenon DEF Seeking
<1>17. Rotating(d') => Rotating(d)'
  BY <1>1, <1>2, <1>12, <1>13 DEF Rotating, To
<1>18. Moving(d') => Moving(d)'
  BY <1>1, <1>2, <1>12, <1>13 DEF Moving, To
<1> QED BY <1>10, <1>11, <1>14, <1>15, <1>16, <1>17, <1>18 DEF Timed

\* Until the key "s" is pressed again the disk is in time with its estimates.
InTime == Fits /\ d.starts = 1 /\ Running /\ Even(d) => Timed(d)
LEMMA StaysInTime == Spec => []InTime
<1>1. Init => InTime
  BY DEF Init, InTime, Start0
<1>2. IInv /\ InTime /\ [Next]_vars => InTime'
  <2> SUFFICES ASSUME IInv, InTime, [Next]_vars, Fits', d'.starts = 1, Running', Even(d)'
               PROVE  Timed(d)'
    BY DEF InTime
  <2>1. CASE Next
    <3>1. UNCHANGED options /\ Started /\ Fits /\ Even(d')
      <4>1. UNCHANGED options
        BY <2>1 DEF Next, Go, Animate, StartAgain
      <4> QED BY <4>1, SameTiming DEF IInv
    <3>2. CASE Go
      <4>1. d = Start0
        BY <3>2 DEF Go, IInv
      <4> QED BY <3>1, <3>2, <4>1, GoInTime, SameTiming
    <3>3. CASE Animate
      <4>1. Busy(d) /\ Running /\ d' \in Tick(d)
        BY <3>3 DEF Animate, Running, IInv, Good
      <4>2. Good(d') /\ d'.starts = d.starts
        BY <3>1, <4>1, TickIsGood
      <4>3. Busy(d')
        BY <4>2 DEF Good, Running
      <4>4. Timed(d)
        <5>1. Even(d)
          BY <3>1, <4>1, QueueGrows, EvenBefore
        <5> QED BY <3>1, <4>1, <4>2, <5>1 DEF InTime
      <4>5. Even(d)
        BY <3>1, <4>1, QueueGrows, EvenBefore
      <4>6. Timed(d')
        BY <3>1, <4>1, <4>3, <4>4, <4>5, TickInTime
      <4> QED BY <3>1, <4>6, SameTiming
    <3>4. CASE StartAgain
      <4>1. d.starts # 0
        BY <3>4 DEF StartAgain
      <4>2. Busy(d)
        BY <3>4, <4>1 DEF StartAgain, Running, IInv, Good
      <4> QED BY <3>1, <3>4, <4>2, StartAgainIsGood
    <3> QED BY <2>1, <3>2, <3>3, <3>4 DEF Next
  <2>2. CASE UNCHANGED vars
    <3>1. UNCHANGED options /\ d' = d
      BY <2>2 DEF vars
    <3>2. Fits /\ Even(d) /\ Running
      BY <3>1, SameTiming DEF Running
    <3> QED BY <3>1, <3>2, SameTiming DEF InTime
  <2> QED BY <2>1, <2>2
<1> QED BY <1>1, <1>2, Invariance, PTL DEF Spec

-----------------------------------------------------------------------------
\* A request takes as long as DoSATF estimated when it was chosen, for every disk
\* whose angles are multiples of the rotation per tick, every policy, window and list
\* of requests: the seek, the rotation that is left when the arm arrives and the
\* transfer, or the transfer alone when the block lies right behind the last one.  And
\* the times DoRequestStats counts for the seeks, the rotations and the transfers add
\* up to the time that has passed.
THEOREM TimesAreExact == Spec => TimesAreRight
<1>1. IInv /\ InTime /\ Next =>
         (Exact /\ d'.requestCount > d.requestCount =>
            /\ (d'.timer - d.seekBegin) * options.rotateSpeed = d.totalEst
            /\ d'.seekTotal + d'.rotTotal + d'.xferTotal = d'.timer)
  <2> SUFFICES ASSUME IInv, InTime, Next, Exact, d'.requestCount > d.requestCount
               PROVE  /\ (d'.timer - d.seekBegin) * options.rotateSpeed = d.totalEst
                      /\ d'.seekTotal + d'.rotTotal + d'.xferTotal = d'.timer
    OBVIOUS
  <2>1. Started /\ Fits /\ d.starts = 1
    BY DEF IInv, Exact, Fits
  <2>2. Running /\ (Animate \/ StartAgain)
    BY <2>1 DEF Next, Go, Animate, StartAgain
  <2>3. d'.requestCount # d.requestCount
    <3>1. d.requestCount \in Nat
      BY <2>1, <2>2 DEF IInv, Good, Busy, Typed, Running
    <3> QED BY <3>1
  <2>4. Busy(d)
    BY <2>1, <2>2 DEF IInv, Good, Running
  <2>5. ASSUME NEW k \in 1 .. Len(d.queue)
        PROVE  LET begin == BeginAngle(d.queue[k], blockToTrack(d.queue[k])) IN
               OnTick(begin) /\ (begin # 0 \/ d.requestCount > 0)
    <3> DEFINE b == d.queue[k]
               begin == BeginAngle(b, blockToTrack(b))
    <3>1. b \in Blocks /\ b \in Range(d.queue)
      <4>1. d.queue \in Seq(Blocks)
        BY <2>4 DEF Busy, Typed
      <4>2. b \in Blocks
        BY <4>1, ElementOfSeq
      <4>3. DOMAIN d.queue = 1 .. Len(d.queue)
        BY <4>1, LenProperties
      <4> QED BY <4>2, <4>3 DEF Range
    <3> HIDE DEF b
    <3>2. begin % options.rotateSpeed = 0 /\ (begin # 0 \/ d.requestCount > 0)
      BY <3>1 DEF Exact
    <3>3. begin \in 0 .. 359
      BY <2>1, <3>1, BlockAngles, Zenon
    <3> QED BY <3>2, <3>3 DEF OnTick, b
  <2>6. Even(d) /\ Plain(d)
    <3>1. d.current \in 1 .. Len(d.queue)
      BY <2>4 DEF Busy, LetIn
    <3> QED BY <2>5, <3>1 DEF Even, Plain, Begin, Track
  <2>7. Timed(d)
    BY <2>1, <2>2, <2>6 DEF InTime
  <2>8. CASE Animate
    <3>1. d' \in Tick(d)
      BY <2>8 DEF Animate
    <3> QED BY <2>1, <2>3, <2>4, <2>6, <2>7, <3>1, TickInTime
  <2>9. CASE StartAgain
    <3>1. d'.requestCount = d.requestCount
      BY <2>1, <2>4, <2>6, <2>7, <2>9, AgainNoneIsDone DEF Timed
    <3> QED BY <2>3, <3>1
  <2> QED BY <2>2, <2>8, <2>9
<1> QED BY <1>1, Invariance, StaysInTime, PTL DEF TimesAreRight, Spec
=============================================================================
