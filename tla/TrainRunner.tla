---------------------------- MODULE TrainRunner ----------------------------
(***************************************************************************)
(* threadlab/train-runner.c: main calls station_load_train itself while    *)
(* the station is empty, creates the passengers, calls it again for a      *)
(* train without seats, and then sends trains with a random number of      *)
(* seats, each with a thread of its own, until every passenger is gone.    *)
(*                                                                         *)
(* main's waiting for a train to return is not bounded here: the second    *)
(* after which it gives up, and its alarms, stand for "it must return".    *)
(***************************************************************************)
EXTENDS Station

VARIABLES
    main,               \* where main is, see MainPlaces
    completed,          \* the passengers that raised threads_completed
    threads_completed,  \* main's view of them: the counter
    load_train_returned,
    threads_to_reap,
    threads_reaped,
    passengers_left

reaping   == <<threads_to_reap, threads_reaped>>
runner    == <<main, completed, threads_completed, load_train_returned,
               threads_to_reap, threads_reaped, passengers_left>>
allvars   == <<vars, runner>>

\* The calls main makes itself: without seats, with more seats than anybody
\* wants, and, when the passengers exist, without seats again.
InCall == {"call1", "call2", "call3"}
Done   == {"looksGood", "returnedEarly", "tooManyPassengers"}
MainPlaces ==
    InCall \cup Done \cup {"nextTrain", "reaping", "look", "waiting", "collecting"}

SeatsOfCall(call) == IF call = "call2" THEN MaxSeats ELSE 0
AfterCall(call) ==
    CASE call = "call1" -> "call2" [] call = "call2" -> "call3" [] OTHER -> "nextTrain"

RInit ==
    /\ Init
    /\ main = "call1"
    /\ completed = {}
    /\ threads_completed = 0
    /\ load_train_returned = FALSE
    /\ threads_to_reap = 0
    /\ threads_reaped = 0
    /\ passengers_left = Cardinality(Passengers)

-----------------------------------------------------------------------------
\* main enters station_load_train itself, and goes on when it returns.
MainCalls ==
    /\ main \in InCall
    /\ TrainEnters(SeatsOfCall(main))
    /\ UNCHANGED runner

MainCallReturns ==
    /\ main \in InCall
    /\ TrainLeaves
    /\ main' = AfterCall(main)
    /\ UNCHANGED <<completed, threads_completed, load_train_returned, reaping, passengers_left>>

Lesser(m, n) == IF m < n THEN m ELSE n

\* The next train, while there are passengers.
MainSendsTrain ==
    /\ main = "nextTrain"
    /\ passengers_left > 0
    /\ \E free_seats \in 0..(MaxSeats - 1) :
         /\ TrainEnters(free_seats)
         /\ threads_to_reap' = Lesser(passengers_left, free_seats)
    /\ threads_reaped' = 0
    /\ load_train_returned' = FALSE
    /\ main' = "reaping"
    /\ UNCHANGED <<completed, threads_completed, passengers_left>>

MainFinds(place) ==
    /\ main' = place
    /\ UNCHANGED <<vars, completed, threads_completed, load_train_returned, reaping, passengers_left>>

\* The reap loop: first the flag of the train's thread is read ...
MainChecksTrain ==
    /\ main = "reaping"
    /\ \/ threads_reaped >= threads_to_reap /\ MainFinds("waiting")
       \/ threads_reaped < threads_to_reap /\ load_train_returned /\ MainFinds("returnedEarly")
       \/ threads_reaped < threads_to_reap /\ ~load_train_returned /\ MainFinds("look")

\* ... then the counter: no passenger has completed, or one more sits down.
MainSeesNobody == main = "look" /\ threads_completed <= 0 /\ MainFinds("reaping")

MainSeatsPassenger ==
    /\ main = "look"
    /\ threads_completed > 0
    /\ \E p \in Passengers : p \in completed /\ PassengerSits(p)
    /\ threads_reaped' = threads_reaped + 1
    /\ threads_completed' = threads_completed - 1
    /\ main' = "reaping"
    /\ UNCHANGED <<completed, load_train_returned, threads_to_reap, passengers_left>>

\* The loop of sleeps ends when the train's thread has returned.
MainSeesTrainLeave ==
    /\ main = "waiting"
    /\ load_train_returned
    /\ MainFinds("collecting")

\* Passengers that boarded too many are counted, without station_on_board.
MainCollects ==
    /\ main = "collecting"
    /\ LET reaped == threads_reaped + threads_completed
       IN  /\ threads_reaped' = reaped
           /\ passengers_left' = passengers_left - reaped
           /\ main' = IF reaped # threads_to_reap THEN "tooManyPassengers" ELSE "nextTrain"
    /\ threads_completed' = 0
    /\ UNCHANGED <<vars, completed, load_train_returned, threads_to_reap>>

MainFinishes == main = "nextTrain" /\ passengers_left <= 0 /\ MainFinds("looksGood")

MainStep ==
    \/ MainCalls \/ MainCallReturns \/ MainSendsTrain \/ MainChecksTrain
    \/ MainSeesNobody \/ MainSeatsPassenger \/ MainSeesTrainLeave
    \/ MainCollects \/ MainFinishes

\* passenger_thread: threads are created after main's second call; the counter
\* is raised when station_wait_for_train has returned.
PassengerThread(p) ==
    /\ main \notin Done \cup {"call1", "call2"}
    /\ \/ /\ PassengerStep(p)
          /\ UNCHANGED runner
       \/ /\ pc[p] = "returned"
          /\ p \notin completed
          /\ completed' = completed \cup {p}
          /\ threads_completed' = threads_completed + 1
          /\ UNCHANGED <<vars, main, load_train_returned, reaping, passengers_left>>

\* The thread in station_load_train, main itself during its own calls.
LoaderThread == main \notin Done /\ LoaderStep /\ UNCHANGED runner

\* load_train_thread raises its flag and ends.
LoaderThreadEnds ==
    /\ main \notin InCall \cup Done
    /\ TrainLeaves
    /\ load_train_returned' = TRUE
    /\ UNCHANGED <<main, completed, threads_completed, reaping, passengers_left>>

RNext ==
    \/ MainStep
    \/ \E p \in Passengers : PassengerThread(p)
    \/ LoaderThread
    \/ LoaderThreadEnds

\* main, the passengers and the train's thread are threads of their own; each
\* runs if it can, and gets the lock it wants since critical sections are
\* finite.
RFairness ==
    /\ WF_allvars(MainStep)
    /\ \A p \in Passengers : WF_allvars(PassengerThread(p))
    /\ WF_allvars(LoaderThread \/ LoaderThreadEnds)

RSpec == RInit /\ [][RNext]_allvars /\ RFairness

-----------------------------------------------------------------------------
\* "station_load_train returned early!" is reported only if a passenger had
\* not been waiting when the train's loop ended: somebody is left who could not
\* be called, and the seats not taken are at least the passengers missed.
EarlyReportOnlyForLatePassengers ==
    main = "returnedEarly" =>
        /\ numSeats > 0
        /\ \E p \in Passengers : pc[p] = "start" \/ p \in waitForTrain
        /\ threads_completed = 0
        /\ threads_to_reap - threads_reaped <= numSeats

\* main never stays in a call of station_load_train of its own nor in a loop
\* that polls the other threads: the loader misses neither the signal of the
\* passenger that boards nor that of the last one to sit down, whatever other
\* passengers arrive in between.
MainNeverHangs ==
    main \in InCall \cup {"reaping", "look", "waiting"}
        ~> main \in Done \cup {"nextTrain"}
=============================================================================
