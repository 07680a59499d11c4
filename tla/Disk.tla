-------------------------------- MODULE Disk --------------------------------
(***************************************************************************)
(* Final_Review_Code/HW-Disk/disk.py and disk-precise.py: a disk with      *)
(* three tracks serves a queue of block requests, under the policies FIFO, *)
(* SATF, BSATF (SATF in batches) and SSTF, while late requests arrive.     *)
(* Angles are degrees, time is counted in calls of Animate.  The variable  *)
(* d is the Disk object; operators on it are named for its methods.        *)
(***************************************************************************)
EXTENDS Integers, Sequences, FiniteSets, SequencesExt, FiniteSetsExt

CONSTANTS
    Options,    \* [policy, window, precise, rotateSpeed, seekSpeed, zones, skew]
    Requests,   \* the lists of blocks the queue may hold when the disk starts
    Late,       \* [blocks, text]: those that arrive late, text if given by -l
    MaxStarts   \* bound on presses of the key "s"

trackWidth == 40

\* What __init__ and main accept, with speeds that are integers and tracks that
\* have more than one block.
DiskAssumption ==
    /\ \A o \in Options :
          /\ o.policy \in {"FIFO", "SATF", "BSATF", "SSTF"} /\ o.precise \in BOOLEAN
          /\ o.window \in {-1} \cup (Nat \ {0})
          /\ o.rotateSpeed \in Nat \ {0}
          /\ o.seekSpeed \in Nat \ {0} /\ trackWidth % o.seekSpeed = 0
          /\ Len(o.zones) = 3 /\ \A t \in 1 .. 3 : o.zones[t] \in 2 .. 359
          /\ o.skew \in Nat
    /\ Requests \subseteq Seq(Nat) /\ \A l \in Late : l.blocks \in Seq(Nat)
ASSUME DiskAssumption

VARIABLES
    options, requests, lateRequests,    \* what the program was started with
    d                                   \* the disk

vars == <<options, requests, lateRequests, d>>

-----------------------------------------------------------------------------
\* InitBlockLayout.  The tracks are 0 (outer) to 2 (inner).
blockAngleOffset(track) == options.zones[track + 1] \div 2
angleOffset(track) == 2 * blockAngleOffset(track)
BlocksOn(track) == (360 + angleOffset(track) - 1) \div angleOffset(track)
First(track) == (IF track > 0 THEN BlocksOn(0) ELSE 0)
                + (IF track > 1 THEN BlocksOn(1) ELSE 0)
tracksBegin(track) == First(track)
tracksEnd(track) == First(track) + BlocksOn(track) - 1
Blocks == 0 .. tracksEnd(2)
blockToTrack(block) == CHOOSE t \in 0 .. 2 : block \in tracksBegin(t) .. tracksEnd(t)
blockToAngle(block) ==
    LET t == blockToTrack(block)
    IN  ((block - First(t)) * angleOffset(t) + angleOffset(t) * options.skew * t + 180) % 360

Distance(a, b) == IF a > b THEN a - b ELSE b - a
RadiallyCloseTo(a1, a2) == Distance(a1, a2) < options.rotateSpeed

\* Where the transfer of a block begins and ends.
BeginAngle(block, track) == (blockToAngle(block) - blockAngleOffset(track)) % 360
EndAngle(block, track) == (blockToAngle(block) + blockAngleOffset(track)) % 360

Policy == options.policy
fairWindow == IF Policy = "BSATF" THEN options.window ELSE -1

\* A late request of option -l is a string: no block is found under it.
IsText(k) == lateRequests.text /\ k > Len(requests)

Start0 ==
    [queue |-> requests, done |-> {}, lateCount |-> 0,
     requestCount |-> 0, currWindow |-> options.window, current |-> 0, state |-> "NULL",
     angle |-> 0, armTrack |-> 0, arm |-> 0, armTarget |-> 0, armSpeed |-> options.seekSpeed,
     timer |-> 0, seekBegin |-> 0, rotBegin |-> 0, xferBegin |-> 0, totalEst |-> 0,
     seekTotal |-> 0, rotTotal |-> 0, xferTotal |-> 0,
     starts |-> 0, isDone |-> FALSE, failed |-> FALSE]

Init ==
    /\ options \in Options /\ requests \in Requests /\ lateRequests \in Late
    /\ Range(requests) \cup Range(lateRequests.blocks) \subseteq Blocks
    /\ d = Start0

-----------------------------------------------------------------------------
\* The position in the queue, from 1, of a request that is not done yet.
Pending(s, positions) == positions \ s.done

\* DoSATF's estimate of the time for a request, in degrees of rotation: the seek,
\* the rotation that is left when the arm arrives, and the transfer.
SeekDegrees(s, k) ==
    LET seekEst == (trackWidth \div options.seekSpeed) * Distance(s.armTrack, blockToTrack(s.queue[k]))
    IN  seekEst * options.rotateSpeed
angleAtArrival(s, k) == s.angle + SeekDegrees(s, k)
\* "while x > 360.0: x -= 360.0".  disk-precise.py cannot do it with
\* angleAtArrival: see Wraps.
Within360(x) == IF x > 360 THEN ((x - 1) % 360) + 1 ELSE x
Estimate(s, k) ==
    LET block   == s.queue[k]
        track   == blockToTrack(block)
        rotDist == blockToAngle(block) - blockAngleOffset(track) - Within360(angleAtArrival(s, k))
    IN  SeekDegrees(s, k)
            + (IF rotDist < 0 THEN rotDist % 360 ELSE Within360(rotDist))
            + 2 * blockAngleOffset(track)

Fails(s) == [s EXCEPT !.failed = TRUE]

\* The first request with the least estimate.
DoSATF(s, positions) ==
    CHOOSE k \in positions : \A j \in positions :
        \/ Estimate(s, k) < Estimate(s, j)
        \/ Estimate(s, k) = Estimate(s, j) /\ k <= j

\* The requests on the nearest track.
DoSSTF(s, positions) ==
    LET Dist(k) == Distance(s.armTrack, blockToTrack(s.queue[k]))
    IN  {k \in positions : \A j \in positions : Dist(k) <= Dist(j)}

\* Mutation: the window does not slide.
UpdateWindow_Stays(s) == s
UpdateWindow(s) ==
    [s EXCEPT !.currWindow =
        IF fairWindow = -1 /\ @ > 0 /\ @ < Len(s.queue) THEN @ + 1 ELSE @]

\* GetWindow of disk.py: the next batch is let in when the last one is done.
NextBatch(s) == s.currWindow + fairWindow
\* GetWindow of disk-precise.py does not let the window grow past the queue.
NextBatchPrecise(s) == Min({s.currWindow + fairWindow, Len(s.queue)})

\* Mutation: the next batch is let in whenever a request is done.
GetWindow_EveryTime(s) ==
    IF s.currWindow > -1 /\ fairWindow # -1 /\ s.requestCount > 0
    THEN [s EXCEPT !.currWindow = NextBatch(s)] ELSE s
\* The call of GetWindow: it may move currWindow.
GetWindow(s) ==
    IF /\ s.currWindow > -1 /\ fairWindow # -1
       /\ s.requestCount > 0 /\ s.requestCount % fairWindow = 0
    THEN [s EXCEPT !.currWindow = IF options.precise THEN NextBatchPrecise(s) ELSE NextBatch(s)]
    ELSE s
WindowEnd(s) ==
    IF s.currWindow <= -1 THEN Len(s.queue) ELSE Min({s.currWindow, Len(s.queue)})

\* The requests the policy chooses from.
Candidates(s) ==
    Pending(s, IF Policy = "FIFO" THEN {s.requestCount + 1} ELSE 1 .. WindowEnd(s))
\* Those that DoSATF compares.
Compared(s) == IF Policy = "SSTF" THEN DoSSTF(s, Candidates(s)) ELSE Candidates(s)
Pick(s) == DoSATF(s, Compared(s))

\* In disk-precise.py angleAtArrival is a Decimal and 360.0 is a float: as soon as
\* the one has to be subtracted from the other DoSATF ends with a TypeError.
Wraps(s) == options.precise /\ \E k \in Compared(s) : angleAtArrival(s, k) > 360

PlanSeek(s) ==
    LET track == blockToTrack(s.queue[s.current]) IN
    IF track = s.armTrack
    THEN [s EXCEPT !.seekBegin = s.timer, !.rotBegin = s.timer, !.state = "ROTATE"]
    ELSE [s EXCEPT !.seekBegin = s.timer, !.state = "SEEK", !.armTarget = track,
                   !.armSpeed = IF track >= s.armTrack THEN options.seekSpeed
                                ELSE -options.seekSpeed]

AddRequest(s) ==
    IF s.lateCount < Len(lateRequests.blocks)
    THEN [s EXCEPT !.queue = Append(@, lateRequests.blocks[s.lateCount + 1]),
                   !.lateCount = @ + 1]
    ELSE s

\* From here on an operator yields the set of the states it leads to (always one):
\* TLC evaluates the members of a set once.
Chosen(s) ==
    IF Candidates(s) = {} \/ (\E k \in Candidates(s) : IsText(k)) \/ Wraps(s) THEN {Fails(s)}
    ELSE {AddRequest(PlanSeek([s EXCEPT !.current = k, !.totalEst = Estimate(s, k)])) :
              k \in {Pick(s)}}
GetNextIO(s) ==
    IF s.requestCount = Len(s.queue) THEN {[s EXCEPT !.isDone = TRUE]}
    ELSE IF Policy = "FIFO" THEN Chosen(s) ELSE UNION {Chosen(w) : w \in {GetWindow(s)}}

-----------------------------------------------------------------------------
\* The parts of Animate, in their order.
Rotate(s) ==
    LET angle == s.angle + options.rotateSpeed
    IN  [s EXCEPT !.timer = @ + 1, !.angle = IF angle >= 360 THEN 0 ELSE angle]

\* DoneWithSeek moves the arm and looks whether it has reached the track.
Seek(s) ==
    LET arm == s.arm + s.armSpeed
        there == IF s.armSpeed > 0 THEN arm >= trackWidth * s.armTarget
                                   ELSE arm <= trackWidth * s.armTarget
    IN  IF s.state # "SEEK" THEN s
        ELSE IF ~there THEN [s EXCEPT !.arm = arm]
        ELSE [s EXCEPT !.arm = arm, !.armTrack = s.armTarget, !.rotBegin = s.timer,
                       !.state = "ROTATE"]

DoneWithRotation(s) ==
    RadiallyCloseTo(s.angle, BeginAngle(s.queue[s.current], s.armTrack))
Settle(s) ==
    IF s.state = "ROTATE" /\ DoneWithRotation(s)
    THEN [s EXCEPT !.xferBegin = s.timer, !.state = "XFER"] ELSE s

DoneWithTransfer(s) ==
    RadiallyCloseTo(s.angle, EndAngle(s.queue[s.current], s.armTrack))

\* The request is done; DoRequestStats.
Finished(s) ==
    [s EXCEPT !.state = "DONE", !.done = @ \cup {s.current}, !.requestCount = @ + 1,
              !.seekTotal = @ + (s.rotBegin - s.seekBegin),
              !.rotTotal = @ + (s.xferBegin - s.rotBegin),
              !.xferTotal = @ + (s.timer - s.xferBegin)]

\* The next block lies right behind the last one: the transfer goes on.
Adjacent(s, block, nextBlock) ==
    /\ blockToTrack(block) = blockToTrack(nextBlock)
    /\ \/ block = tracksEnd(s.armTrack) /\ nextBlock = tracksBegin(s.armTrack)
       \/ block + 1 = nextBlock
\* Mutation: the special case is left out.
StayInTransfer_Never(s, block) == s
StayInTransfer(s, block) ==
    IF ~s.failed /\ Adjacent(s, block, s.queue[s.current])
    THEN [s EXCEPT !.rotBegin = s.timer, !.seekBegin = s.timer, !.xferBegin = s.timer,
                   !.state = "XFER", !.done = @ \ {s.current}]
    ELSE s

Transfer(s) ==
    IF s.state = "XFER" /\ DoneWithTransfer(s)
    THEN {StayInTransfer(t, s.queue[s.current]) :
              t \in UNION {GetNextIO(u) : u \in {UpdateWindow(Finished(s))}}}
    ELSE {s}

Tick(s) == UNION {Transfer(t) : t \in {Settle(u) : u \in {Seek(v) : v \in {Rotate(s)}}}}

Running == ~d.isDone /\ ~d.failed

\* Go, or the key "s" for the first time.
Go ==
    /\ d.starts = 0
    /\ d' \in {[s EXCEPT !.starts = 1] : s \in GetNextIO(d)}
    /\ UNCHANGED <<options, requests, lateRequests>>

Animate ==
    /\ Running /\ d.starts > 0
    /\ d' \in Tick(d)
    /\ UNCHANGED <<options, requests, lateRequests>>

\* With graphics, the key "s" while the disk is busy: the next request is chosen
\* although the current one is not done, and one Animate more follows.  Tk reports
\* an error and goes on with the current request (FIFO chooses it again).
StartAgain ==
    /\ Running /\ d.starts \in 1 .. MaxStarts - 1
    /\ \E s \in GetNextIO([d EXCEPT !.starts = @ + 1]) :
          d' \in IF s.failed THEN {[s EXCEPT !.failed = FALSE]} ELSE Tick(s)
    /\ UNCHANGED <<options, requests, lateRequests>>

Next == Go \/ Animate \/ StartAgain

\* Go loops until the queue is served; the animation calls itself again.
Spec == Init /\ [][Next]_vars /\ WF_vars(Go) /\ WF_vars(Animate)

-----------------------------------------------------------------------------
\* A request is served only when it is in the window: under FIFO in order, under
\* BSATF not before all requests of earlier batches are done, else at most one
\* window ahead of the number of requests that are done.  (Pressing "s" twice at
\* the end of a batch lets the next one in early.)
WindowIsRespected ==
    d.current # 0 /\ Running /\ d.starts = 1 =>
    LET i == d.current - 1
        size == IF Policy = "FIFO" THEN 1 ELSE options.window
    IN
    IF fairWindow # -1 \/ Policy = "FIFO"
    THEN \A j \in 1 .. (i \div size) * size : j \in d.done
    ELSE options.window = -1 \/ i < d.requestCount + size

\* A request takes as long as DoSATF estimated, so SATF does serve what is
\* nearest in time, and the times add up, wherever angles are multiples of the
\* rotation per tick and no request is interrupted.
Exact ==
    /\ d.starts = 1 /\ 360 % options.rotateSpeed = 0
    /\ \A t \in 0 .. 2 :
          /\ 360 % angleOffset(t) = 0 /\ angleOffset(t) < 360
          /\ angleOffset(t) % options.rotateSpeed = 0
    /\ \A b \in Range(d.queue) :
          LET begin == BeginAngle(b, blockToTrack(b))
          IN  begin % options.rotateSpeed = 0 /\ (begin # 0 \/ d.requestCount > 0)
TimesAreRight ==
    [][Exact /\ d'.requestCount > d.requestCount =>
        /\ (d'.timer - d.seekBegin) * options.rotateSpeed = d.totalEst
        /\ d'.seekTotal + d'.rotTotal + d'.xferTotal = d'.timer]_vars

\* What ends the program early: a late request given by -l, or, in disk-precise.py,
\* a batch that is not let in because the window never grows past the queue although
\* the queue still grows, or an angle that DoSATF has to wrap.
WindowMayStick ==
    options.precise /\ Policy = "BSATF" /\ lateRequests.blocks # <<>> /\ options.window > 1
MayFail(s) == lateRequests.text \/ WindowMayStick \/ Wraps(s)
\* Every request is served in the end, the late ones too, unless the queue is
\* empty from the start, under every policy and window, whenever "s" is pressed;
\* or the program ends for one of the three causes, which holds when it ends.
EveryRequestIsServed ==
    <>(\/ d.failed /\ MayFail(d)
       \/ /\ d.isDone /\ Len(d.queue) = d.requestCount
          /\ d.done = 1 .. Len(d.queue)
          /\ requests # <<>> => Len(d.queue) = Len(requests) + Len(lateRequests.blocks))
=============================================================================
