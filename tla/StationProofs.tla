--------------------------- MODULE StationProofs ---------------------------
(***************************************************************************)
(* Proofs about Station, for any finite set of passengers and any number   *)
(* of seats, that train-runner.c uses the station as Station assumes, and  *)
(* what its main knows of it.                                               *)
(***************************************************************************)
EXTENDS TrainRunner, FiniteSetTheorems, TLAPS

Waiting == {p \in Passengers : pc[p] = "cond"}

\* Where the loader is blocked or was released from.
LoaderInv ==
    /\ waitToSeat # {} => loader = "toSeat"
    /\ waitForPass # {} => loader = "forPass" /\ standing > 0
    /\ loader = "forPass" /\ waitForPass = {} => standing = 0
    /\ loader \in {"away", "entering", "returned"} => standing = 0

\* One passenger is called for as long as the loader is blocked for it.
CallInv ==
    /\ waitToSeat = {} => Called = {}
    /\ waitToSeat # {} => \E p \in Passengers : Called = {p}

SeatInv ==
    /\ numSeats >= 0
    /\ loader \in {"toSeat", "forPass", "returned"} =>
         numSeats = IF Called = {} THEN count ELSE count + 1

IInv == TypeOK /\ CountersAgree /\ LoaderInv /\ CallInv /\ SeatInv

-----------------------------------------------------------------------------
\* One element more or less counts one more or less.
LEMMA CardPlusMinus ==
    ASSUME NEW S, IsFiniteSet(S), NEW x
    PROVE  /\ Cardinality(S) \in Nat
           /\ x \notin S => Cardinality(S \cup {x}) = Cardinality(S) + 1
           /\ x \in S => Cardinality(S \ {x}) = Cardinality(S) - 1
BY FS_CardinalityType, FS_AddElement, FS_RemoveElement

\* The passengers that wait and those that stand are finitely many: a counter
\* of train.c is zero exactly when there is nobody to count.
LEMMA PassengersFinite ==
    /\ IsFiniteSet(Waiting) /\ IsFiniteSet(Standing)
    /\ Cardinality(Waiting) \in Nat /\ Cardinality(Standing) \in Nat
    /\ Cardinality(Waiting) = 0 <=> Waiting = {}
    /\ Cardinality(Standing) = 0 <=> Standing = {}
<1>1. Waiting \subseteq Passengers /\ Standing \subseteq Passengers
  BY DEF Waiting, Standing
<1> QED
  BY <1>1, FS_Subset, FS_CardinalityType, FS_EmptySet, StationAssumption

\* station_init leaves nobody waiting, called or standing.
LEMMA InitInv == Init => IInv
<1> SUFFICES ASSUME Init PROVE IInv
  OBVIOUS
<1>1. Waiting = {} /\ Standing = {} /\ Called = {}
  BY DEF Init, Waiting, Standing, Called
<1>2. CountersAgree
  BY <1>1, PassengersFinite DEF Init, CountersAgree, Waiting
<1>3. TypeOK
  BY DEF Init, TypeOK, PassengerPlaces, LoaderPlaces
<1> QED
  BY <1>1, <1>2, <1>3 DEF Init, IInv, LoaderInv, CallInv, SeatInv

\* A passenger that enters station_wait_for_train counts itself and sleeps.
LEMMA ArrivesInv ==
    ASSUME IInv, NEW p \in Passengers, PassengerArrives(p) PROVE IInv'
<1> USE DEF IInv
<1>1. /\ pc'[p] = "cond" /\ pc[p] = "start"
      /\ \A q \in Passengers : q # p => pc'[q] = pc[q]
      /\ pc' \in [Passengers -> PassengerPlaces]
  BY DEF PassengerArrives, Goto, TypeOK, PassengerPlaces
<1>2. Waiting' = Waiting \cup {p} /\ p \notin Waiting /\ Standing' = Standing
  BY <1>1 DEF Waiting, Standing
<1>3. waitForTrain' = waitForTrain \cup {p}
  BY DEF PassengerArrives
<1>4. Called' = Called
  BY <1>1, <1>3 DEF Called
<1>5. TypeOK'
  BY <1>1, <1>3 DEF TypeOK, PassengerArrives, train
<1>6. CountersAgree'
  BY <1>2, CardPlusMinus, PassengersFinite DEF CountersAgree, Waiting, PassengerArrives
<1> QED
  BY <1>4, <1>5, <1>6 DEF PassengerArrives, train, LoaderInv, CallInv, SeatInv

\* The passenger that was called boards and releases the loader.
LEMMA BoardsInv ==
    ASSUME IInv, NEW p \in Passengers, PassengerBoards(p) PROVE IInv'
<1> USE DEF IInv
<1>1. /\ pc'[p] = "returned" /\ pc[p] = "cond" /\ p \in Called /\ p \notin waitForTrain
      /\ \A q \in Passengers : q # p => pc'[q] = pc[q]
      /\ pc' \in [Passengers -> PassengerPlaces]
  BY DEF PassengerBoards, Called, Goto, TypeOK, PassengerPlaces
<1>2. /\ Waiting' = Waiting \ {p} /\ p \in Waiting
      /\ Standing' = Standing \cup {p} /\ p \notin Standing
  BY <1>1 DEF Waiting, Standing
<1>3. waitToSeat = {TheLoader} /\ waitToSeat' = {} /\ loader = "toSeat" /\ Called = {p}
  BY <1>1 DEF CallInv, TypeOK, LoaderInv, PassengerBoards, AfterSignal
<1>4. Called' = {}
  BY <1>1, <1>3 DEF Called, PassengerBoards
<1>5. CountersAgree'
  BY <1>2, CardPlusMinus, PassengersFinite DEF CountersAgree, Waiting, PassengerBoards
<1>6. TypeOK'
  <2>1. waitingPassenger' \in Nat
    BY <1>2, <1>5, FS_RemoveElement, FS_CardinalityType, PassengersFinite
       DEF CountersAgree, Waiting
  <2> QED
    BY <1>1, <1>3, <2>1 DEF TypeOK, PassengerBoards, train
<1>7. numSeats' = count /\ count \in Nat
  BY <1>3 DEF SeatInv, TypeOK, PassengerBoards
<1> QED
  BY <1>3, <1>4, <1>5, <1>6, <1>7
     DEF PassengerBoards, train, TypeOK, LoaderInv, CallInv, SeatInv

\* A passenger in station_on_board sits down; the last one releases the loader.
LEMMA SitsInv ==
    ASSUME IInv, NEW p \in Passengers, PassengerSits(p) PROVE IInv'
<1> USE DEF IInv
<1>1. /\ pc'[p] = "seated" /\ pc[p] = "returned"
      /\ \A q \in Passengers : q # p => pc'[q] = pc[q]
      /\ pc' \in [Passengers -> PassengerPlaces]
  BY DEF PassengerSits, Goto, TypeOK, PassengerPlaces
<1>2. /\ Waiting' = Waiting
      /\ Standing' = Standing \ {p} /\ p \in Standing
  BY <1>1 DEF Waiting, Standing
<1>3. Called' = Called
  BY <1>1 DEF Called, PassengerSits
<1>4. CountersAgree'
  BY <1>2, CardPlusMinus, PassengersFinite DEF CountersAgree, Waiting, PassengerSits
<1>5. standing > 0 /\ standing' = standing - 1 /\ standing \in Nat
  <2>1. standing # 0
    BY <1>2, PassengersFinite DEF CountersAgree
  <2> QED
    BY <2>1 DEF TypeOK, PassengerSits
<1>6. TypeOK'
  BY <1>1, <1>5 DEF TypeOK, PassengerSits, train, AfterBroadcast
<1>7. LoaderInv'
  BY <1>5 DEF LoaderInv, PassengerSits, train, AfterBroadcast
<1> QED
  BY <1>3, <1>4, <1>6, <1>7 DEF PassengerSits, train, CallInv, SeatInv

\* One turn of the loader: nobody is called when it starts, and at most one
\* passenger, who was waiting, when it ends.
LEMMA LoopInv ==
    ASSUME TypeOK, CountersAgree, Called = {}, waitToSeat = {}, waitForPass = {},
           numSeats' = count, LoadLoop
    PROVE  IInv'
<1>0. /\ UNCHANGED <<pc, waitingPassenger, standing>>
      /\ Waiting' = Waiting /\ Standing' = Standing
      /\ CountersAgree'
  BY DEF LoadLoop, CountersAgree, Waiting, Standing
<1>1. CASE waitingPassenger > 0 /\ count > 0 /\ CallPassenger
  <2>1. Waiting = waitForTrain /\ Waiting # {}
    <3>1. Waiting = waitForTrain
      BY DEF Waiting, Called, TypeOK
    <3>2. Waiting # {}
      BY <1>1, PassengersFinite DEF CountersAgree, Waiting, TypeOK
    <3> QED
      BY <3>1, <3>2
  <2>2. PICK p \in waitForTrain : waitForTrain' = waitForTrain \ {p}
    BY <1>1, <2>1 DEF CallPassenger, AfterSignal
  <2>3. Called' = {p} /\ p \in Passengers
    BY <1>0, <2>1, <2>2 DEF Called, Waiting
  <2>4. waitToSeat' = {TheLoader} /\ waitForPass' = {} /\ loader' = "toSeat" /\ count' = count - 1
    BY <1>1 DEF CallPassenger
  <2>5. TypeOK'
    BY <1>0, <1>1, <2>2, <2>4 DEF TypeOK, LoaderPlaces
  <2>6. SeatInv'
    BY <2>3, <2>4 DEF SeatInv, TypeOK
  <2> QED
    BY <1>0, <2>3, <2>4, <2>5, <2>6 DEF IInv, LoaderInv, CallInv
<1>2. CASE FinishLoading
  <2>1. waitForTrain' = waitForTrain /\ waitToSeat' = {} /\ count' = count
    BY <1>2 DEF FinishLoading
  <2>2. Called' = {}
    BY <1>0, <2>1 DEF Called
  <2>3. \/ standing > 0 /\ waitForPass' = {TheLoader} /\ loader' = "forPass"
        \/ standing = 0 /\ waitForPass' = {} /\ loader' = "returned"
    BY <1>2 DEF FinishLoading, TypeOK
  <2>4. TypeOK'
    BY <1>0, <2>1, <2>3 DEF TypeOK, LoaderPlaces
  <2>5. LoaderInv' /\ SeatInv'
    BY <1>0, <2>1, <2>2, <2>3 DEF LoaderInv, SeatInv, TypeOK
  <2> QED
    BY <1>0, <2>1, <2>2, <2>4, <2>5 DEF IInv, CallInv
<1> QED
  BY <1>1, <1>2 DEF LoadLoop

\* station_load_train entering its loop, going on after a wait and returning.
LEMMA LoaderInvStep ==
    ASSUME IInv, LoaderStep PROVE IInv'
<1> USE DEF IInv
<1>1. CASE LoaderEnters
  <2>1. Called = {} /\ waitToSeat = {} /\ waitForPass = {}
    BY <1>1 DEF LoaderEnters, LoaderInv, CallInv
  <2> QED
    BY <1>1, <2>1, LoopInv DEF LoaderEnters
<1>2. CASE LoaderContinues
  <2>1. Called = {} /\ waitForPass = {}
    BY <1>2 DEF LoaderContinues, LoaderInv, CallInv
  <2>2. numSeats' = count
    BY <1>2, <2>1 DEF LoaderContinues, SeatInv
  <2> QED
    BY <1>2, <2>1, <2>2, LoopInv DEF LoaderContinues
<1>3. CASE LoaderReleased
  <2>1. Called' = Called
    BY <1>3 DEF LoaderReleased, conditions, Called
  <2>2. TypeOK' /\ CountersAgree'
    BY <1>3 DEF LoaderReleased, conditions, TypeOK, LoaderPlaces, CountersAgree, Standing
  <2> QED
    BY <1>3, <2>1, <2>2 DEF LoaderReleased, conditions, LoaderInv, CallInv, SeatInv
<1> QED
  BY <1>1, <1>2, <1>3 DEF LoaderStep

\* A train enters the empty track or leaves it; no passenger is touched.
LEMMA TrainMovesInv ==
    ASSUME IInv, (\E n \in 0..MaxSeats : TrainEnters(n)) \/ TrainLeaves PROVE IInv'
<1> USE DEF IInv
<1>1. Called' = Called /\ CountersAgree'
  BY DEF TrainEnters, TrainLeaves, conditions, Called, CountersAgree, Standing
<1>2. TypeOK'
  BY StationAssumption DEF TrainEnters, TrainLeaves, conditions, TypeOK, LoaderPlaces
<1>3. LoaderInv' /\ SeatInv'
  BY <1>1 DEF TrainEnters, TrainLeaves, conditions, LoaderInv, SeatInv
<1> QED
  BY <1>1, <1>2, <1>3 DEF TrainEnters, TrainLeaves, conditions, CallInv

\* Every step of the station keeps the invariant.
LEMMA StepInv == IInv /\ [Next]_vars => IInv'
<1> SUFFICES ASSUME IInv, [Next]_vars PROVE IInv'
  OBVIOUS
<1>1. CASE UNCHANGED vars
  BY <1>1 DEF vars, IInv, TypeOK, CountersAgree, LoaderInv, CallInv, SeatInv, Called, Standing
<1> QED
  BY <1>1, ArrivesInv, BoardsInv, SitsInv, LoaderInvStep, TrainMovesInv
     DEF Next, PassengerStep

\* The station keeps its invariant: the loader calls one passenger at a time
\* and is blocked until that one has boarded.
THEOREM StationInvariant == Spec => []IInv
BY InitInv, StepInv, PTL DEF Spec

-----------------------------------------------------------------------------
\* train-runner.c uses the station as Spec allows, so that all of this holds of
\* the program train as well.
THEOREM RunnerUsesStation == RSpec => Spec
<1>1. RInit => Init
  BY DEF RInit
<1>2. [RNext]_allvars => [Next]_vars
  <2> SUFFICES ASSUME [RNext]_allvars PROVE [Next]_vars
    OBVIOUS
  <2>1. CASE UNCHANGED allvars
    BY <2>1 DEF allvars, vars
  <2>2. CASE MainStep
    <3>1. SeatsOfCall(main) \in 0..MaxSeats
      BY StationAssumption DEF SeatsOfCall
    <3>2. MainCalls => Next
      BY <3>1 DEF MainCalls, Next
    <3>3. ASSUME MainSendsTrain PROVE Next
      <4>1. PICK n \in 0..(MaxSeats - 1) : TrainEnters(n)
        BY <3>3 DEF MainSendsTrain
      <4>2. n \in 0..MaxSeats
        BY StationAssumption
      <4> QED
        BY <4>1, <4>2 DEF Next
    <3>4. MainSeatsPassenger => Next
      BY DEF MainSeatsPassenger, Next
    <3>5. MainCallReturns => Next
      BY DEF MainCallReturns, Next
    <3>6. MainChecksTrain \/ MainSeesNobody \/ MainSeesTrainLeave \/ MainFinishes
            => UNCHANGED vars
      BY DEF MainChecksTrain, MainSeesNobody, MainSeesTrainLeave, MainFinishes, MainFinds
    <3>7. MainCollects => UNCHANGED vars
      BY DEF MainCollects
    <3> QED
      BY <2>2, <3>2, <3>3, <3>4, <3>5, <3>6, <3>7 DEF MainStep
  <2>3. ASSUME NEW p \in Passengers, PassengerThread(p) PROVE [Next]_vars
    BY <2>3 DEF PassengerThread, Next
  <2>4. CASE LoaderThread
    BY <2>4 DEF LoaderThread, Next
  <2>5. CASE LoaderThreadEnds
    BY <2>5 DEF LoaderThreadEnds, Next
  <2> QED
    BY <2>1, <2>2, <2>3, <2>4, <2>5 DEF RNext
<1> QED
  BY <1>1, <1>2, PTL DEF RSpec, Spec

\* The station's variables keep their types in the program.
THEOREM TrainTypeCorrect == RSpec => []TypeOK
BY RunnerUsesStation, StationInvariant, PTL DEF IInv

\* Seats taken, passengers waiting, boarding and seated are counted right: what the
\* loader's loop tests is where the threads are.
THEOREM CountersCorrect == RSpec => []CountersAgree
BY RunnerUsesStation, StationInvariant, PTL DEF IInv

\* Passengers are called one at a time, and only while the loader is blocked for
\* the one it called: what station_wait_for_train relies on to need no loop.
THEOREM CalledOneByOne == RSpec => []OneCalledAtATime
<1>1. IInv => OneCalledAtATime
  <2> SUFFICES ASSUME IInv PROVE OneCalledAtATime
    OBVIOUS
  <2>1. ASSUME NEW p \in Passengers, Called = {p} PROVE Cardinality(Called) = 1
    BY <2>1, FS_Singleton
  <2> QED
    BY <2>1 DEF IInv, CallInv, LoaderInv, TypeOK, OneCalledAtATime
<1> QED
  BY <1>1, RunnerUsesStation, StationInvariant, PTL

\* No train is oversold.
THEOREM NoTrainOversold == RSpec => []SeatsNotOversold
<1>1. IInv => SeatsNotOversold
  <2> SUFFICES ASSUME IInv PROVE SeatsNotOversold
    OBVIOUS
  <2>1. ASSUME NEW p \in Passengers, Called = {p} PROVE Cardinality(Called) = 1
    BY <2>1, FS_Singleton
  <2>2. Called = {} => Cardinality(Called) = 0
    BY FS_EmptySet
  <2> QED
    BY <2>1, <2>2 DEF IInv, CallInv, SeatInv, SeatsNotOversold, TypeOK
<1> QED
  BY <1>1, RunnerUsesStation, StationInvariant, PTL

\* No train leaves while a passenger that boarded stands or is about to board.
THEOREM EveryoneSitsBeforeDeparture == RSpec => []NobodyStandsWithoutTrain
<1>1. IInv => NobodyStandsWithoutTrain
  BY PassengersFinite DEF IInv, CallInv, LoaderInv, CountersAgree, NobodyStandsWithoutTrain
<1> QED
  BY <1>1, RunnerUsesStation, StationInvariant, PTL
-----------------------------------------------------------------------------
\* What train-runner.c knows of the station.  While a train is in, the passengers
\* it is to reap are no more than those it has reaped, those that stand and the
\* seats that are left.
Seated == {p \in Passengers : pc[p] = "seated"}
WithTrain == {"reaping", "look", "waiting", "collecting", "returnedEarly"}

RTypes ==
    /\ main \in MainPlaces /\ completed \subseteq Passengers
    /\ threads_to_reap \in Nat /\ threads_reaped \in Nat /\ passengers_left \in Int

CompletedInv ==
    /\ Seated \subseteq completed /\ completed \subseteq Seated \cup Standing
    /\ threads_completed = Cardinality(completed \ Seated)

TrainInv ==
    main \in WithTrain =>
        /\ loader = "entering" => threads_reaped = 0 /\ threads_to_reap <= count
        /\ loader # "entering" => threads_to_reap <= numSeats + standing + threads_reaped
        /\ threads_to_reap <= passengers_left

FlagInv == main \in WithTrain /\ load_train_returned => loader = "away"

ReapInv ==
    /\ main \in {"look", "returnedEarly"} => threads_reaped < threads_to_reap
    /\ main = "reaping" => threads_reaped <= threads_to_reap
    /\ main \in {"waiting", "collecting"} => threads_reaped = threads_to_reap
    /\ main \in {"returnedEarly", "collecting"} => load_train_returned
    /\ main # "tooManyPassengers"

LeftInv ==
    /\ main \in WithTrain =>
          passengers_left + Cardinality(Seated) = Cardinality(Passengers) + threads_reaped
    /\ main \in InCall \cup {"nextTrain"} =>
          passengers_left + Cardinality(Seated) = Cardinality(Passengers)

RInv == RTypes /\ CompletedInv /\ TrainInv /\ FlagInv /\ ReapInv /\ LeftInv

\* The counts of the runner are numbers, and where no train is nobody stands.
LEMMA RunnerCounts ==
    ASSUME IInv, RInv
    PROVE  /\ IsFiniteSet(Passengers) /\ Cardinality(Passengers) \in Nat
           /\ IsFiniteSet(Seated) /\ Cardinality(Seated) \in Nat
           /\ IsFiniteSet(completed) /\ IsFiniteSet(completed \ Seated)
           /\ threads_completed \in Nat /\ (threads_completed = 0 <=> completed \subseteq Seated)
           /\ loader \in {"away", "entering", "returned"} =>
                 Standing = {} /\ standing = 0 /\ threads_completed = 0
           /\ count \in Nat /\ standing \in Nat /\ numSeats \in Int
<1>1. /\ IsFiniteSet(Passengers) /\ Seated \subseteq Passengers
      /\ completed \subseteq Passengers /\ completed \ Seated \subseteq Passengers
  BY StationAssumption DEF RInv, RTypes, Seated
<1>2. /\ IsFiniteSet(Seated) /\ IsFiniteSet(completed) /\ IsFiniteSet(completed \ Seated)
      /\ Cardinality(Passengers) \in Nat /\ Cardinality(Seated) \in Nat
      /\ Cardinality(completed \ Seated) \in Nat
      /\ Cardinality(completed \ Seated) = 0 <=> completed \ Seated = {}
  <2>1. IsFiniteSet(Seated) /\ IsFiniteSet(completed) /\ IsFiniteSet(completed \ Seated)
    BY <1>1, FS_Subset
  <2> QED BY <1>1, <2>1, FS_CardinalityType, FS_EmptySet
<1>3. loader \in {"away", "entering", "returned"} => Standing = {} /\ standing = 0
  BY PassengersFinite DEF IInv, LoaderInv, CountersAgree
<1>4. threads_completed = Cardinality(completed \ Seated) /\ completed \subseteq Seated \cup Standing
  BY DEF RInv, CompletedInv
<1>5. count \in Nat /\ standing \in Nat /\ numSeats \in Int
  BY DEF IInv, TypeOK
<1> QED BY <1>1, <1>2, <1>3, <1>4, <1>5

LEMMA RunnerInit == RInit => RInv
<1> SUFFICES ASSUME RInit PROVE RInv
  OBVIOUS
<1>1. Seated = {} /\ Standing = {} /\ completed = {} /\ main = "call1"
  BY DEF RInit, Init, Seated, Standing
<1>2. Cardinality({}) = 0 /\ Cardinality(Passengers) \in Nat
  BY StationAssumption, FS_EmptySet, FS_CardinalityType
<1>3. RTypes
  <2>1. main \in MainPlaces /\ completed \subseteq Passengers
    BY <1>1 DEF MainPlaces, InCall
  <2>2. threads_to_reap \in Nat /\ threads_reaped \in Nat
    BY DEF RInit
  <2>3. passengers_left \in Int
    <3>1. passengers_left = Cardinality(Passengers)
      BY DEF RInit
    <3> QED BY <3>1, <1>2
  <2> QED BY <2>1, <2>2, <2>3 DEF RTypes
<1>4. CompletedInv
  BY <1>1, <1>2 DEF RInit, CompletedInv
<1>5. TrainInv /\ FlagInv /\ ReapInv
  BY <1>1 DEF TrainInv, FlagInv, ReapInv, WithTrain
<1>6. LeftInv
  <2>1. passengers_left = Cardinality(Passengers) /\ Cardinality(Seated) = 0
    BY <1>1, <1>2 DEF RInit
  <2>2. passengers_left + Cardinality(Seated) = Cardinality(Passengers)
    BY <1>2, <2>1
  <2> QED BY <1>1, <2>2 DEF LeftInv, WithTrain
<1> QED BY <1>3, <1>4, <1>5, <1>6 DEF RInv

\* The loader's thread, main's or the train's, moves: a seat that is called for stays
\* in numSeats until its passenger boards.
LEMMA LoaderMoves ==
    ASSUME IInv, IInv', RInv, LoaderThread \/ LoaderThreadEnds
    PROVE  RInv'
<1>1. /\ UNCHANGED <<main, completed, threads_completed, threads_to_reap, threads_reaped,
                     passengers_left, pc, standing>>
      /\ Seated' = Seated /\ Standing' = Standing
  BY DEF LoaderThread, LoaderThreadEnds, LoaderStep, LoaderEnters, LoaderContinues,
         LoaderReleased, LoadLoop, TrainLeaves, conditions, runner, reaping, Seated, Standing
<1>2. RTypes' /\ CompletedInv' /\ LeftInv'
  BY <1>1 DEF RInv, RTypes, CompletedInv, LeftInv
<1>3. ReapInv'
  BY <1>1 DEF RInv, ReapInv, LoaderThread, LoaderThreadEnds, runner
<1>4. ASSUME LoaderThreadEnds PROVE TrainInv' /\ FlagInv'
  <2>1. /\ loader # "entering" /\ loader' = "away"
        /\ UNCHANGED <<main, threads_to_reap, threads_reaped, passengers_left, standing, numSeats>>
    BY <1>1, <1>4 DEF LoaderThreadEnds, TrainLeaves
  <2> QED BY <2>1 DEF RInv, TrainInv, FlagInv
<1>5. ASSUME LoaderThread PROVE TrainInv' /\ FlagInv'
  <2>1. load_train_returned' = load_train_returned /\ loader # "away" /\ loader' # "entering"
    BY <1>5 DEF LoaderThread, LoaderStep, LoaderEnters, LoaderContinues, LoaderReleased,
                LoadLoop, CallPassenger, FinishLoading, runner
  <2>2. FlagInv'
    BY <1>1, <2>1 DEF RInv, FlagInv
  <2>3. CASE loader = "entering"
    <3>1. numSeats' = count /\ standing = 0 /\ count \in Nat
      BY <1>5, <2>3, RunnerCounts
         DEF LoaderThread, LoaderStep, LoaderEnters, LoaderContinues, LoaderReleased
    <3>2. ASSUME main \in WithTrain
          PROVE  threads_to_reap' <= numSeats' + standing' + threads_reaped'
      <4>1. threads_reaped = 0 /\ threads_to_reap <= count /\ threads_to_reap \in Nat
        BY <2>3, <3>2 DEF RInv, RTypes, TrainInv
      <4> QED BY <1>1, <3>1, <4>1
    <3> QED BY <1>1, <2>1, <2>2, <3>2 DEF RInv, TrainInv
  <2>4. CASE loader # "entering"
    <3>1. numSeats' = numSeats
      BY <1>5, <2>4 DEF LoaderThread, LoaderStep, LoaderEnters, LoaderContinues, LoaderReleased
    <3> QED BY <1>1, <2>1, <2>2, <2>4, <3>1 DEF RInv, TrainInv
  <2> QED BY <2>3, <2>4
<1> QED BY <1>2, <1>3, <1>4, <1>5 DEF RInv

\* A passenger arrives, boards or reports that it has boarded.
LEMMA PassengerMoves ==
    ASSUME IInv, IInv', RInv, NEW p \in Passengers, PassengerThread(p)
    PROVE  RInv'
<1>1. /\ UNCHANGED <<main, load_train_returned, threads_to_reap, threads_reaped,
                     passengers_left, loader, count>>
      /\ pc \in [Passengers -> PassengerPlaces]
  BY DEF PassengerThread, PassengerStep, PassengerArrives, PassengerBoards, train, runner,
         reaping, vars, IInv, TypeOK
<1>2. CASE PassengerStep(p) /\ UNCHANGED runner
  <2>1. /\ pc[p] \in {"start", "cond"} /\ pc'[p] \in {"cond", "returned"}
        /\ \A q \in Passengers : q # p => pc'[q] = pc[q]
    BY <1>1, <1>2 DEF PassengerStep, PassengerArrives, PassengerBoards, Called, Goto
  <2>2. Seated' = Seated /\ Standing \subseteq Standing'
    BY <2>1 DEF Seated, Standing
  <2>3. RTypes' /\ CompletedInv' /\ FlagInv' /\ ReapInv' /\ LeftInv'
    BY <1>1, <1>2, <2>2 DEF runner, reaping, RInv, RTypes, CompletedInv, FlagInv, ReapInv, LeftInv
  <2>4. \/ numSeats' = numSeats /\ standing' = standing
        \/ loader = "toSeat" /\ numSeats' = numSeats - 1 /\ standing' = standing + 1
    BY <1>2 DEF PassengerStep, PassengerArrives, PassengerBoards, IInv, CallInv, LoaderInv
  <2>5. TrainInv'
    BY <1>1, <2>4, RunnerCounts DEF RInv, RTypes, TrainInv
  <2> QED BY <2>3, <2>5 DEF RInv
<1>3. CASE pc[p] = "returned" /\ p \notin completed /\ UNCHANGED vars
           /\ completed' = completed \cup {p} /\ threads_completed' = threads_completed + 1
  <2>1. Seated' = Seated /\ Standing' = Standing /\ p \in Standing /\ p \notin Seated
    BY <1>3 DEF vars, Seated, Standing
  <2>2. CompletedInv'
    <3>1. (completed \cup {p}) \ Seated = (completed \ Seated) \cup {p} /\ p \notin completed \ Seated
      BY <1>3, <2>1
    <3>2. Cardinality((completed \cup {p}) \ Seated) = Cardinality(completed \ Seated) + 1
      BY <3>1, RunnerCounts, FS_AddElement
    <3> QED BY <1>3, <2>1, <3>2 DEF RInv, CompletedInv
  <2>3. RTypes' /\ TrainInv' /\ FlagInv' /\ ReapInv' /\ LeftInv'
    BY <1>1, <1>3, <2>1 DEF vars, RInv, RTypes, TrainInv, FlagInv, ReapInv, LeftInv
  <2> QED BY <2>2, <2>3 DEF RInv
<1> QED BY <1>2, <1>3 DEF PassengerThread

\* main enters and leaves its own calls and reads what the others tell it.
LEMMA MainLooks ==
    ASSUME IInv, RInv,
           \/ MainCalls \/ MainCallReturns \/ MainChecksTrain \/ MainSeesNobody
           \/ MainSeesTrainLeave \/ MainFinishes
    PROVE  RInv'
<1>1. /\ UNCHANGED <<completed, threads_completed, load_train_returned, threads_to_reap,
                     threads_reaped, passengers_left, pc, standing, numSeats>>
      /\ Seated' = Seated /\ Standing' = Standing
  BY DEF MainCalls, MainCallReturns, MainChecksTrain, MainSeesNobody, MainSeesTrainLeave,
         MainFinishes, MainFinds, TrainEnters, TrainLeaves, conditions, runner, reaping, vars,
         Seated, Standing
<1>2. CompletedInv'
  BY <1>1 DEF RInv, CompletedInv
<1>3. CASE MainCalls \/ MainCallReturns
  <2>1. main \in InCall /\ main' \in InCall \cup {"nextTrain"}
    BY <1>3 DEF MainCalls, MainCallReturns, runner, AfterCall, InCall
  <2>2. RTypes' /\ TrainInv' /\ FlagInv' /\ ReapInv' /\ LeftInv'
    BY <1>1, <2>1 DEF RInv, RTypes, TrainInv, FlagInv, ReapInv, LeftInv, MainPlaces, InCall, WithTrain
  <2> QED BY <1>2, <2>2 DEF RInv
<1>4. CASE MainChecksTrain \/ MainSeesNobody \/ MainSeesTrainLeave
  <2>1. main \in WithTrain /\ main' \in WithTrain /\ UNCHANGED <<loader, count>>
    BY <1>4 DEF MainChecksTrain, MainSeesNobody, MainSeesTrainLeave, MainFinds, vars, WithTrain
  <2>2. RTypes' /\ TrainInv' /\ FlagInv' /\ LeftInv'
    BY <1>1, <2>1 DEF RInv, RTypes, TrainInv, FlagInv, LeftInv, MainPlaces, InCall, Done, WithTrain
  <2>3. ReapInv'
    <3>1. CASE MainChecksTrain
      <4>1. /\ main' \in {"look", "returnedEarly", "waiting"}
            /\ main' = "waiting" => threads_reaped >= threads_to_reap
            /\ main' # "waiting" => threads_reaped < threads_to_reap
            /\ main' = "returnedEarly" => load_train_returned
            /\ main = "reaping"
        BY <3>1 DEF MainChecksTrain, MainFinds
      <4>2. /\ main' = "waiting" => threads_reaped = threads_to_reap
            /\ main' # "waiting" => threads_reaped < threads_to_reap
        BY <4>1 DEF RInv, RTypes, ReapInv
      <4> QED BY <1>1, <4>1, <4>2 DEF ReapInv
    <3>2. CASE MainSeesNobody
      BY <1>1, <3>2 DEF MainSeesNobody, MainFinds, RInv, RTypes, ReapInv
    <3>3. CASE MainSeesTrainLeave
      BY <1>1, <3>3 DEF MainSeesTrainLeave, MainFinds, RInv, ReapInv
    <3> QED BY <1>4, <3>1, <3>2, <3>3
  <2> QED BY <1>2, <2>2, <2>3 DEF RInv
<1>5. CASE MainFinishes
  BY <1>1, <1>2, <1>5 DEF MainFinishes, MainFinds, RInv, RTypes, TrainInv, FlagInv, ReapInv, LeftInv,
                          MainPlaces, InCall, Done, WithTrain
<1> QED BY <1>3, <1>4, <1>5

\* The next train: as many passengers are to be reaped as it has seats for.
LEMMA MainSends ==
    ASSUME IInv, RInv, MainSendsTrain PROVE RInv'
<1>1. PICK free_seats \in 0..(MaxSeats - 1) :
         /\ TrainEnters(free_seats)
         /\ threads_to_reap' = Lesser(passengers_left, free_seats)
  BY DEF MainSendsTrain
<1>2. /\ main = "nextTrain" /\ main' = "reaping" /\ passengers_left > 0
      /\ threads_reaped' = 0 /\ load_train_returned' = FALSE
      /\ UNCHANGED <<completed, threads_completed, passengers_left, pc>>
      /\ loader' = "entering" /\ count' = free_seats
  BY <1>1 DEF MainSendsTrain, TrainEnters
<1>3. free_seats \in Nat /\ passengers_left \in Nat
  BY <1>2, StationAssumption DEF RInv, RTypes
<1>4. /\ threads_to_reap' \in Nat /\ threads_to_reap' <= free_seats
      /\ threads_to_reap' <= passengers_left
  BY <1>1, <1>3 DEF Lesser
<1>5. Seated' = Seated /\ Standing' = Standing
  BY <1>2 DEF Seated, Standing
<1>6. RTypes' /\ CompletedInv'
  BY <1>2, <1>4, <1>5 DEF RInv, RTypes, CompletedInv, MainPlaces
<1>7. TrainInv' /\ FlagInv' /\ ReapInv'
  BY <1>2, <1>4 DEF TrainInv, FlagInv, ReapInv
<1>8. LeftInv'
  BY <1>2, <1>5, RunnerCounts DEF RInv, RTypes, LeftInv, WithTrain, InCall
<1> QED BY <1>6, <1>7, <1>8 DEF RInv

\* main lets a passenger that has reported sit down.
LEMMA MainSeats ==
    ASSUME IInv, RInv, MainSeatsPassenger PROVE RInv'
<1>1. PICK p \in Passengers : p \in completed /\ PassengerSits(p)
  BY DEF MainSeatsPassenger
<1>2. /\ main = "look" /\ main' = "reaping" /\ threads_completed > 0
      /\ threads_reaped' = threads_reaped + 1 /\ threads_completed' = threads_completed - 1
      /\ UNCHANGED <<completed, load_train_returned, threads_to_reap, passengers_left>>
      /\ UNCHANGED <<loader, count, numSeats>> /\ standing' = standing - 1
  BY <1>1 DEF MainSeatsPassenger, PassengerSits, train
<1>3. /\ pc[p] = "returned" /\ pc'[p] = "seated"
      /\ \A q \in Passengers : q # p => pc'[q] = pc[q]
  BY <1>1 DEF PassengerSits, Goto, IInv, TypeOK
<1>4. Seated' = Seated \cup {p} /\ p \notin Seated /\ Standing' = Standing \ {p}
  BY <1>3 DEF Seated, Standing
<1>5. Cardinality(Seated') = Cardinality(Seated) + 1
  BY <1>4, RunnerCounts, FS_AddElement
<1>6. CompletedInv'
  <2>1. completed \ Seated' = (completed \ Seated) \ {p} /\ p \in completed \ Seated
    BY <1>1, <1>4
  <2>2. Cardinality(completed \ Seated') = Cardinality(completed \ Seated) - 1
    <3>1. IsFiniteSet(completed \ Seated)
      BY RunnerCounts
    <3>2. Cardinality((completed \ Seated) \ {p}) = Cardinality(completed \ Seated) - 1
      BY <2>1, <3>1, FS_RemoveElement
    <3> QED BY <2>1, <3>2
  <2> QED BY <1>1, <1>2, <1>4, <2>2 DEF RInv, CompletedInv
<1>7. RTypes'
  BY <1>2 DEF RInv, RTypes, MainPlaces
<1>8. loader # "entering"
  BY <1>2, RunnerCounts
<1>9. TrainInv' /\ FlagInv' /\ ReapInv'
  BY <1>2, <1>8, RunnerCounts DEF RInv, RTypes, TrainInv, FlagInv, ReapInv, WithTrain
<1>10. LeftInv'
  BY <1>2, <1>5, RunnerCounts DEF RInv, RTypes, LeftInv, WithTrain, InCall
<1> QED BY <1>6, <1>7, <1>9, <1>10 DEF RInv

\* When the train has gone everybody who boarded has been seated, so nobody is left
\* to be collected.
LEMMA MainCollectsNobody ==
    ASSUME IInv, RInv, MainCollects PROVE RInv'
<1>1. /\ main = "collecting" /\ loader = "away" /\ threads_reaped = threads_to_reap
  BY DEF MainCollects, RInv, FlagInv, ReapInv, WithTrain
<1>2. threads_completed = 0
  BY <1>1, RunnerCounts
<1>3. /\ threads_reaped' = threads_reaped /\ main' = "nextTrain"
      /\ passengers_left' = passengers_left - threads_reaped
      /\ threads_completed' = 0
      /\ UNCHANGED <<vars, completed, load_train_returned, threads_to_reap>>
  BY <1>1, <1>2 DEF MainCollects, RInv, RTypes
<1>4. Seated' = Seated /\ Standing' = Standing
  BY <1>3 DEF vars, Seated, Standing
<1>5. RTypes' /\ CompletedInv'
  BY <1>2, <1>3, <1>4 DEF RInv, RTypes, CompletedInv, MainPlaces
<1>6. TrainInv' /\ FlagInv' /\ ReapInv'
  BY <1>3 DEF TrainInv, FlagInv, ReapInv, WithTrain
<1>7. LeftInv'
  BY <1>1, <1>3, <1>4, RunnerCounts DEF RInv, RTypes, LeftInv, WithTrain, InCall
<1> QED BY <1>5, <1>6, <1>7 DEF RInv

LEMMA RunnerInvariant == RSpec => [](IInv /\ RInv)
<1>1. RSpec => []IInv
  BY RunnerUsesStation, StationInvariant, PTL
<1>2. IInv /\ IInv' /\ RInv /\ [RNext]_allvars => RInv'
  <2> SUFFICES ASSUME IInv, IInv', RInv, [RNext]_allvars PROVE RInv'
    OBVIOUS
  <2>1. CASE UNCHANGED allvars
    BY <2>1 DEF allvars, vars, runner, reaping, RInv, RTypes, CompletedInv, TrainInv, FlagInv,
                ReapInv, LeftInv, Seated, Standing
  <2>2. CASE MainStep
    BY <2>2, MainLooks, MainSends, MainSeats, MainCollectsNobody DEF MainStep
  <2> QED BY <2>1, <2>2, PassengerMoves, LoaderMoves DEF RNext
<1> QED BY <1>1, <1>2, RunnerInit, PTL DEF RSpec

\* main's "returnedEarly" means what it says: the train had seats for all that are
\* still to be reaped, they were not on the platform, and nobody is on its way to
\* a seat.
THEOREM EarlyReportsAreRight == RSpec => []EarlyReportOnlyForLatePassengers
<1>1. IInv /\ RInv => EarlyReportOnlyForLatePassengers
  <2> SUFFICES ASSUME IInv, RInv, main = "returnedEarly"
               PROVE  /\ numSeats > 0
                      /\ \E p \in Passengers : pc[p] = "start" \/ p \in waitForTrain
                      /\ threads_completed = 0
                      /\ threads_to_reap - threads_reaped <= numSeats
    BY DEF EarlyReportOnlyForLatePassengers
  <2>1. loader = "away" /\ Standing = {} /\ standing = 0 /\ threads_completed = 0 /\ Called = {}
    BY RunnerCounts DEF RInv, FlagInv, ReapInv, WithTrain, IInv, LoaderInv, CallInv
  <2>2. /\ threads_reaped < threads_to_reap /\ threads_to_reap <= numSeats + threads_reaped
        /\ threads_to_reap <= passengers_left
        /\ threads_to_reap \in Nat /\ threads_reaped \in Nat /\ numSeats \in Int
    BY <2>1, RunnerCounts DEF RInv, RTypes, TrainInv, ReapInv, WithTrain
  <2>3. Cardinality(Seated) < Cardinality(Passengers)
    BY <2>2, RunnerCounts DEF RInv, RTypes, LeftInv, WithTrain
  <2>4. PICK p \in Passengers : p \notin Seated
    <3>1. Seated # Passengers
      BY <2>3, RunnerCounts
    <3> QED BY <3>1 DEF Seated
  <2>5. pc[p] = "start" \/ p \in waitForTrain
    BY <2>1, <2>4 DEF Seated, Standing, Called, IInv, TypeOK, PassengerPlaces
  <2> QED BY <2>1, <2>2, <2>5
<1> QED BY <1>1, RunnerInvariant, PTL

\* "Too many passengers on this train!" is never reported.
THEOREM NoTrainOverfull == RSpec => [](main # "tooManyPassengers")
<1>1. RInv => main # "tooManyPassengers"
  BY DEF RInv, ReapInv
<1> QED BY <1>1, RunnerInvariant, PTL
=============================================================================
