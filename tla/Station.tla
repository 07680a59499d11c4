------------------------------- MODULE Station -------------------------------
(***************************************************************************)
(* threadlab/train.c: passengers wait in a station for a train, the thread *)
(* of the train (the loader) calls them one by one while there are seats   *)
(* and leaves when everyone who boarded has sat down.  One train is in the *)
(* station at a time, as in train-runner.c.                                *)
(***************************************************************************)
EXTENDS Integers, FiniteSets, Monitor

CONSTANTS
    Passengers,       \* the threads that call station_wait_for_train
    MaxSeats          \* the most free seats a train comes with

ASSUME StationAssumption ==
    /\ IsFiniteSet(Passengers)
    /\ MaxSeats \in Nat

VARIABLES
    pc,               \* where each passenger is, see PassengerPlaces
    loader,           \* where the thread in station_load_train is
    count,            \* its argument, which the loop counts down
    waitingPassenger, \* station->waitingPassenger
    standing,         \* station->standing
    numSeats,         \* station->numSeats
    waitForTrain,     \* passengers blocked on station->waitForTrain
    waitToSeat,       \* the loader, if blocked on station->waitToSeat
    waitForPass       \* the loader, if blocked on station->waitForPass

conditions == <<waitForTrain, waitToSeat, waitForPass>>
train      == <<loader, count>>
vars       == <<pc, loader, count, waitingPassenger, standing, numSeats,
                waitForTrain, waitToSeat, waitForPass>>

\* "start": not yet in the station; "cond": in its cond_wait, blocked or woken;
\* "returned": out of station_wait_for_train; "seated": station_on_board was
\* called for it.
PassengerPlaces == {"start", "cond", "returned", "seated"}

\* "away": no train; "entering": before the lock; "toSeat" and "forPass": in
\* the first and the second cond_wait, blocked or woken; "returned": out of
\* station_load_train.
LoaderPlaces == {"away", "entering", "toSeat", "forPass", "returned"}

TheLoader == "loader"   \* the only thread on waitToSeat and waitForPass

Goto(p, place) == pc' = [pc EXCEPT ![p] = place]

\* The passengers that were called and have not boarded yet.
Called == {p \in Passengers : pc[p] = "cond" /\ p \notin waitForTrain}

Standing == {p \in Passengers : pc[p] = "returned"}

Init ==
    /\ pc = [p \in Passengers |-> "start"]
    /\ loader = "away"
    /\ count = 0
    /\ waitingPassenger = 0
    /\ standing = 0
    /\ numSeats = 0
    /\ waitForTrain = {}
    /\ waitToSeat = {}
    /\ waitForPass = {}

-----------------------------------------------------------------------------
\* station_wait_for_train up to its wait.
PassengerArrives(p) ==
    /\ pc[p] = "start"
    /\ Goto(p, "cond")
    /\ waitingPassenger' = waitingPassenger + 1
    /\ waitForTrain' = waitForTrain \cup {p}
    /\ UNCHANGED <<train, standing, numSeats, waitToSeat, waitForPass>>

\* Mutation: the passenger boards without telling the loader.
PassengerBoards_NoSignal(p) ==
    /\ p \in Called
    /\ Goto(p, "returned")
    /\ standing' = standing + 1
    /\ waitingPassenger' = waitingPassenger - 1
    /\ numSeats' = numSeats - 1
    /\ UNCHANGED <<train, conditions>>

\* Mutation: the passenger is counted as standing only when it sits down.
PassengerBoards_NotStanding(p) ==
    /\ p \in Called
    /\ Goto(p, "returned")
    /\ waitingPassenger' = waitingPassenger - 1
    /\ numSeats' = numSeats - 1
    /\ waitToSeat' \in AfterSignal(waitToSeat)
    /\ UNCHANGED <<train, standing, waitForTrain, waitForPass>>

\* station_wait_for_train after its wait: the passenger boards, whoever woke it.
PassengerBoards(p) ==
    /\ p \in Called
    /\ Goto(p, "returned")
    /\ standing' = standing + 1
    /\ waitingPassenger' = waitingPassenger - 1
    /\ numSeats' = numSeats - 1
    /\ waitToSeat' \in AfterSignal(waitToSeat)
    /\ UNCHANGED <<train, waitForTrain, waitForPass>>

\* station_on_board, called once for each passenger that returned.
PassengerSits(p) ==
    /\ pc[p] = "returned"
    /\ Goto(p, "seated")
    /\ standing' = standing - 1
    /\ waitForPass' = IF standing' = 0 THEN AfterBroadcast(waitForPass) ELSE waitForPass
    /\ UNCHANGED <<train, waitingPassenger, numSeats, waitForTrain, waitToSeat>>

\* A train comes with n free seats: station_load_train is called.
TrainEnters(n) ==
    /\ loader = "away"
    /\ loader' = "entering"
    /\ count' = n
    /\ UNCHANGED <<pc, waitingPassenger, standing, numSeats, conditions>>

\* Mutation: the loader calls everybody at once.
CallPassenger_Broadcast ==
    /\ waitForTrain' = AfterBroadcast(waitForTrain)
    /\ count' = count - 1
    /\ waitToSeat' = waitToSeat \cup {TheLoader}
    /\ loader' = "toSeat"
    /\ UNCHANGED waitForPass

\* The body of the loop: call a passenger, wait until it has boarded.
CallPassenger ==
    /\ waitForTrain' \in AfterSignal(waitForTrain)
    /\ count' = count - 1
    /\ waitToSeat' = waitToSeat \cup {TheLoader}
    /\ loader' = "toSeat"
    /\ UNCHANGED waitForPass

\* What follows the loop: wait for those who stand, once, or leave.
FinishLoading ==
    /\ IF standing > 0
         THEN /\ waitForPass' = waitForPass \cup {TheLoader}
              /\ loader' = "forPass"
         ELSE /\ loader' = "returned"
              /\ UNCHANGED waitForPass
    /\ UNCHANGED <<count, waitForTrain, waitToSeat>>

\* Mutation: the loop forgets the seats.
LoadLoop_NoSeatCheck ==
    /\ \/ waitingPassenger > 0 /\ CallPassenger
       \/ waitingPassenger <= 0 /\ FinishLoading
    /\ UNCHANGED <<pc, waitingPassenger, standing>>

\* Mutation: the loader does not wait for those who stand.
LoadLoop_NoDrain ==
    /\ \/ waitingPassenger > 0 /\ count > 0 /\ CallPassenger
       \/ /\ waitingPassenger <= 0 \/ count <= 0
          /\ loader' = "returned"
          /\ UNCHANGED <<count, conditions>>
    /\ UNCHANGED <<pc, waitingPassenger, standing>>

\* The loop's test and what follows each outcome.
LoadLoop ==
    /\ \/ waitingPassenger > 0 /\ count > 0 /\ CallPassenger
       \/ (waitingPassenger <= 0 \/ count <= 0) /\ FinishLoading
    /\ UNCHANGED <<pc, waitingPassenger, standing>>

\* station_load_train from its entry.
LoaderEnters ==
    /\ loader = "entering"
    /\ numSeats' = count
    /\ LoadLoop

\* The passenger it called has boarded.
LoaderContinues ==
    /\ loader = "toSeat"
    /\ waitToSeat = {}
    /\ LoadLoop
    /\ UNCHANGED numSeats

\* Everyone has sat down; neither the loop nor the test is done again.
LoaderReleased ==
    /\ loader = "forPass"
    /\ waitForPass = {}
    /\ loader' = "returned"
    /\ UNCHANGED <<pc, count, waitingPassenger, standing, numSeats, conditions>>

\* The train's thread has ended.
TrainLeaves ==
    /\ loader = "returned"
    /\ loader' = "away"
    /\ UNCHANGED <<pc, count, waitingPassenger, standing, numSeats, conditions>>

PassengerStep(p) == PassengerArrives(p) \/ PassengerBoards(p)
LoaderStep == LoaderEnters \/ LoaderContinues \/ LoaderReleased

Next ==
    \/ \E p \in Passengers : PassengerStep(p) \/ PassengerSits(p)
    \/ \E n \in 0..MaxSeats : TrainEnters(n)
    \/ LoaderStep
    \/ TrainLeaves

Spec == Init /\ [][Next]_vars

\* pthread_cond_wait returns although nobody signalled, as POSIX allows.
SpuriousWakeup ==
    /\ \/ waitForTrain' \in AfterSpurious(waitForTrain) /\ UNCHANGED <<waitToSeat, waitForPass>>
       \/ waitToSeat' \in AfterSpurious(waitToSeat) /\ UNCHANGED <<waitForTrain, waitForPass>>
       \/ waitForPass' \in AfterSpurious(waitForPass) /\ UNCHANGED <<waitForTrain, waitToSeat>>
    /\ UNCHANGED <<pc, train, waitingPassenger, standing, numSeats>>

SpuriousSpec == Init /\ [][Next \/ SpuriousWakeup]_vars

-----------------------------------------------------------------------------
\* Type invariant of the station, the passengers and the loader.
TypeOK ==
    /\ pc \in [Passengers -> PassengerPlaces]
    /\ loader \in LoaderPlaces
    /\ count \in Nat
    /\ waitingPassenger \in Nat
    /\ standing \in Nat
    /\ numSeats \in Int
    /\ waitForTrain \subseteq {p \in Passengers : pc[p] = "cond"}
    /\ waitToSeat \subseteq {TheLoader}
    /\ waitForPass \subseteq {TheLoader}

\* station_wait_for_train has no loop ("No need for a loop.  All passengers
\* will wait in order to be released one by one"): that is right only as long
\* as a passenger is woken exactly when the loader is blocked for it, one at a
\* time.
OneCalledAtATime ==
    /\ TheLoader \in waitToSeat => Cardinality(Called) = 1
    /\ TheLoader \notin waitToSeat => Called = {}
    /\ TheLoader \in waitToSeat => loader = "toSeat"

\* The counters of the station agree with where the passengers are.
CountersAgree ==
    /\ waitingPassenger = Cardinality({p \in Passengers : pc[p] = "cond"})
    /\ standing = Cardinality(Standing)

\* No train carries more passengers than it has seats: numSeats, which no test
\* in the code looks at, counts what is left and never goes below zero.
SeatsNotOversold ==
    /\ numSeats >= 0
    /\ loader = "toSeat" => numSeats = count + Cardinality(Called)

\* A train leaves, and there is no train, only when everyone who boarded has
\* sat down.
NobodyStandsWithoutTrain ==
    loader \in {"away", "returned"} => Standing = {} /\ Called = {}

\* The comment in station_load_train: "May not return until train is fully
\* loaded or all passengers are loaded".
LeavesFullOrEmptiesStation ==
    [][loader' = "returned" /\ loader # "returned" =>
          numSeats' = 0 \/ waitingPassenger' = 0]_vars
=============================================================================
