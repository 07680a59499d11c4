------------------------------ MODULE WServer ------------------------------
(***************************************************************************)
(* webserverlab/wserver.c: main accepts connections, looks at each request *)
(* and puts it into a bounded queue; a pool of workers takes them out,     *)
(* answers and closes them.  One mutex protects the queue; main waits on   *)
(* queue->full while the queue is full, a worker on queue->sleep while it  *)
(* is empty.                                                               *)
(*                                                                         *)
(* A worker unlocks the mutex a second time after it has closed its        *)
(* connection (line 235), when it does not hold it.  The default mutex of  *)
(* glibc, which the code uses, is then freed whoever holds it, so another  *)
(* thread may enter while its holder is still inside.  The variable        *)
(* exclusion remembers whether that has happened.  Once two threads are    *)
(* inside their accesses to the queue race; of what may come of that, the  *)
(* model follows the outcomes in which each list operation takes effect    *)
(* as a whole, which is enough to see a request popped twice.              *)
(***************************************************************************)
EXTENDS ConnectionQueue, FiniteSets, Monitor

CONSTANTS
    MaxConnections,   \* how many connections clients make
    Workers,          \* the threads of create_worker_threads
    Buffers,          \* the values of the option -b
    Sizes,            \* the file sizes that stat reports
    None              \* no thread, no connection

ASSUME WServerAssumption ==
    /\ MaxConnections \in Nat
    /\ IsFiniteSet(Workers) /\ Workers # {}
    /\ Buffers \subseteq Int
    /\ Sizes \subseteq Int
    /\ None \notin Nat \cup Workers \cup {"main"}
    /\ "main" \notin Workers

VARIABLES
    scheduler,        \* the option -s: "FIFO" or "SFF"
    limit,            \* queue->limit
    queue,            \* queue, from head to tail
    owner,            \* the thread that holds queue->lock
    full,             \* main, if blocked on queue->full
    sleep,            \* the workers blocked on queue->sleep
    main,             \* where main is
    conn,             \* main's connection
    pc,               \* where each worker is
    request,          \* each worker's request
    accepted,         \* how many connections were accepted so far
    filesize,         \* the size view_request found
    closes,           \* how often each connection was closed
    exclusion         \* what became of the mutex, see Exclusions

\* A connection is known by its place in the order main accepts them.
Connections == 1..MaxConnections

options == <<scheduler, limit>>
clients == <<accepted, filesize, closes>>
vars    == <<scheduler, limit, queue, owner, full, sleep, main, conn, pc, request,
             accepted, filesize, closes, exclusion>>

TheMain   == "main"
MainPlaces == {"accept", "reading", "locking", "inside", "waiting"}
WorkerPlaces == {"locking", "inside", "waiting", "popping", "handling", "unlocking"}

\* "kept": only its holder has unlocked the mutex; "freed": a second unlock has
\* freed it while another thread held it; "broken": two threads were inside.
Exclusions == {"kept", "freed", "broken"}
Broken == exclusion = "broken"

Goto(w, place) == pc' = [pc EXCEPT ![w] = place]

\* The threads between a lock, or the return of a wait, and the next unlock or
\* wait.
Inside == {w \in Workers : pc[w] \in {"inside", "popping"}}
            \cup (IF main = "inside" THEN {TheMain} ELSE {})

\* The mutex is free and t takes it: others may be inside all the same.
Enters(t) ==
    /\ owner = None
    /\ owner' = t
    /\ exclusion' = IF Inside = {} THEN exclusion ELSE "broken"

Init ==
    /\ scheduler \in {"FIFO", "SFF"}
    /\ \E b \in Buffers : limit = EffectiveLimit(b)
    /\ queue = <<>>
    /\ owner = None
    /\ full = {}
    /\ sleep = {}
    /\ main = "accept"
    /\ conn = None
    /\ pc = [w \in Workers |-> "locking"]
    /\ request = [w \in Workers |-> None]
    /\ accepted = 0
    /\ filesize = [c \in Connections |-> -1]
    /\ closes = [c \in Connections |-> 0]
    /\ exclusion = "kept"

-----------------------------------------------------------------------------
\* accept_or_die and connection_init.
MainAccepts ==
    /\ main = "accept"
    /\ accepted < MaxConnections
    /\ accepted' = accepted + 1
    /\ conn' = accepted'
    /\ main' = "reading"
    /\ UNCHANGED <<options, queue, owner, full, sleep, pc, request, filesize, closes, exclusion>>

\* Mutation: main forgets to go on to the next client after the 404.
MainRefuses_GoesOn ==
    /\ main = "reading"
    /\ closes' = [closes EXCEPT ![conn] = @ + 1]
    /\ main' = "locking"
    /\ UNCHANGED <<options, queue, owner, full, sleep, conn, pc, request, accepted, filesize,
                   exclusion>>

\* view_request when stat fails: the client gets a 404 and is closed.
MainRefuses ==
    /\ main = "reading"
    /\ closes' = [closes EXCEPT ![conn] = @ + 1]
    /\ main' = "accept"
    /\ conn' = None
    /\ UNCHANGED <<options, queue, owner, full, sleep, pc, request, accepted, filesize, exclusion>>

\* view_request when stat succeeds.
MainViews ==
    /\ main = "reading"
    /\ \E size \in Sizes : filesize' = [filesize EXCEPT ![conn] = size]
    /\ main' = "locking"
    /\ UNCHANGED <<options, queue, owner, full, sleep, conn, pc, request, accepted, closes,
                   exclusion>>

\* pthread_mutex_lock, or the end of pthread_cond_wait.
MainLocks ==
    /\ main = "locking" \/ (main = "waiting" /\ full = {})
    /\ Enters(TheMain)
    /\ main' = "inside"
    /\ UNCHANGED <<options, queue, full, sleep, conn, pc, request, clients>>

MainWaits ==
    /\ main = "inside"
    /\ isFull(queue, limit)
    /\ full' = full \cup {TheMain}
    /\ owner' = None
    /\ main' = "waiting"
    /\ UNCHANGED <<options, queue, sleep, conn, pc, request, clients, exclusion>>

\* Mutation: nobody is told about the connection.
MainSchedules_NoSignal ==
    /\ main = "inside"
    /\ ~isFull(queue, limit)
    /\ queue' = IF scheduler = "FIFO" THEN FIFO(queue, limit, filesize, conn)
                                      ELSE SFF(queue, limit, filesize, conn)
    /\ conn' = None
    /\ owner' = None
    /\ main' = "accept"
    /\ UNCHANGED <<options, full, sleep, pc, request, clients, exclusion>>

\* The scheduler inserts the connection, a worker is signalled.
MainSchedules ==
    /\ main = "inside"
    /\ ~isFull(queue, limit)
    /\ queue' = IF scheduler = "FIFO" THEN FIFO(queue, limit, filesize, conn)
                                      ELSE SFF(queue, limit, filesize, conn)
    /\ sleep' \in AfterSignal(sleep)
    /\ conn' = None
    /\ owner' = None
    /\ main' = "accept"
    /\ UNCHANGED <<options, full, pc, request, clients, exclusion>>

WorkerLocks(w) ==
    /\ pc[w] = "locking" \/ (pc[w] = "waiting" /\ w \notin sleep)
    /\ Enters(w)
    /\ Goto(w, "inside")
    /\ UNCHANGED <<options, queue, full, sleep, main, conn, request, clients>>

WorkerSleeps(w) ==
    /\ pc[w] = "inside"
    /\ isEmpty(queue)
    /\ sleep' = sleep \cup {w}
    /\ owner' = None
    /\ Goto(w, "waiting")
    /\ UNCHANGED <<options, queue, full, main, conn, request, clients, exclusion>>

\* Mutation: queue->full is signalled by nobody.
WorkerReadsHead_NoSignal(w) ==
    /\ pc[w] = "inside"
    /\ ~isEmpty(queue)
    /\ request' = [request EXCEPT ![w] = Head(queue)]
    /\ Goto(w, "popping")
    /\ UNCHANGED <<options, queue, owner, full, sleep, main, conn, clients, exclusion>>

\* Mutation: the mutex is released before the head is advanced.
WorkerReadsHead_Unlocks(w) ==
    /\ pc[w] = "inside"
    /\ ~isEmpty(queue)
    /\ IF isFull(queue, limit) THEN UNCHANGED full ELSE full' \in AfterSignal(full)
    /\ request' = [request EXCEPT ![w] = Head(queue)]
    /\ Goto(w, "popping")
    /\ owner' = None
    /\ UNCHANGED <<options, queue, sleep, main, conn, clients, exclusion>>

\* Before it pops, the worker signals queue->full unless the queue is full at
\* that moment; then pop reads the head ...
WorkerReadsHead(w) ==
    /\ pc[w] = "inside"
    /\ ~isEmpty(queue)
    /\ IF isFull(queue, limit) THEN UNCHANGED full ELSE full' \in AfterSignal(full)
    /\ request' = [request EXCEPT ![w] = Head(queue)]
    /\ Goto(w, "popping")
    /\ UNCHANGED <<options, queue, owner, sleep, main, conn, clients, exclusion>>

\* ... and advances it; the mutex is released.  (If the list was emptied
\* meanwhile pop follows a null pointer and the program ends.)
WorkerAdvances(w) ==
    /\ pc[w] = "popping"
    /\ ~isEmpty(queue)
    /\ queue' = Tail(queue)
    /\ owner' = None
    /\ Goto(w, "handling")
    /\ UNCHANGED <<options, full, sleep, main, conn, request, clients, exclusion>>

\* request_handle answers, close_or_die closes.
WorkerCloses(w) ==
    /\ pc[w] = "handling"
    /\ closes' = [closes EXCEPT ![request[w]] = @ + 1]
    /\ Goto(w, "unlocking")
    /\ UNCHANGED <<options, queue, owner, full, sleep, main, conn, request, accepted, filesize,
                   exclusion>>

\* The second unlock of line 235: the worker does not hold the mutex, and the
\* default mutex is freed all the same, whoever holds it.
WorkerUnlocksAgain(w) ==
    /\ pc[w] = "unlocking"
    /\ exclusion' = IF exclusion = "kept" /\ owner # None THEN "freed" ELSE exclusion
    /\ request' = [request EXCEPT ![w] = None]
    /\ owner' = None
    /\ Goto(w, "locking")
    /\ UNCHANGED <<options, queue, full, sleep, main, conn, clients>>

MainStep ==
    \/ MainAccepts \/ MainRefuses \/ MainViews \/ MainLocks \/ MainWaits \/ MainSchedules

WorkerStep(w) ==
    \/ WorkerLocks(w) \/ WorkerSleeps(w) \/ WorkerReadsHead(w) \/ WorkerAdvances(w)
    \/ WorkerCloses(w) \/ WorkerUnlocksAgain(w)

Next ==
    \/ MainStep
    \/ \E w \in Workers : WorkerStep(w)

\* A step of main, as far as its control goes: each changes main, and no other
\* step of Next takes main from "inside" to "accept" than MainSchedules.  Under
\* [][Next]_vars, WF_main(MainTurn) is WF_vars(MainStep), without the sorted queue.
MainTurn ==
    \/ MainAccepts \/ MainRefuses \/ MainViews \/ MainLocks \/ MainWaits
    \/ main = "inside" /\ ~isFull(queue, limit) /\ main' = "accept"

\* A thread that can run does, and one that keeps wanting the mutex while it is
\* free again and again gets it in the end.  Fairness of main includes that a
\* client which is connected sends its request line: main reads it itself.
Fairness ==
    /\ WF_main(MainTurn) /\ SF_vars(MainLocks)
    /\ \A w \in Workers : WF_vars(WorkerStep(w)) /\ SF_vars(WorkerLocks(w))

Spec == Init /\ [][Next]_vars /\ Fairness

-----------------------------------------------------------------------------
\* Type invariant; a queue never exceeds its limit.
TypeOK ==
    /\ scheduler \in {"FIFO", "SFF"}
    /\ limit \in Nat \ {0}
    /\ queue \in Seq(Connections) /\ Len(queue) <= limit
    /\ owner \in Workers \cup {TheMain, None}
    /\ full \subseteq {TheMain}
    /\ sleep \subseteq Workers
    /\ main \in MainPlaces
    /\ conn \in Connections \cup {None}
    /\ pc \in [Workers -> WorkerPlaces]
    /\ request \in [Workers -> Connections \cup {None}]
    /\ accepted \in 0..MaxConnections
    /\ filesize \in [Connections -> Sizes \cup {-1}]
    /\ closes \in [Connections -> Nat]
    /\ exclusion \in Exclusions

\* The workers that hold a request they have taken off the queue.
Holders(c) == {w \in Workers : request[w] = c /\ pc[w] = "handling"}
Places(c) == {i \in DOMAIN queue : queue[i] = c}

\* Two threads are inside the critical section together only after a worker's
\* second unlock has freed the mutex while another thread held it: locks, waits
\* and the other unlocks of main and the workers keep them apart.
BrokenOnlyBySecondUnlock ==
    [][exclusion' = "broken" => exclusion # "kept"]_vars

\* As long as no two threads have been inside together, no connection is lost
\* and none is handled or closed twice: every accepted connection is in exactly
\* one place, main's hands, the queue, one worker's hands, or closed.  The
\* assertion in close_or_die relies on it.  (Without the condition it is false,
\* see CloseSucceeds.)
EveryConnectionOnce ==
    ~Broken =>
        \A c \in 1..accepted :
            (IF conn = c THEN 1 ELSE 0) + Cardinality(Places(c))
                + Cardinality(Holders(c)) + closes[c] = 1

\* No connection is closed twice: close_or_die asserts that close succeeds.
CloseSucceeds == \A c \in Connections : closes[c] <= 1

\* No worker sleeps through work: while a worker is blocked on queue->sleep,
\* there are at least as many woken workers on their way to the queue as there
\* are connections in it, as long as no two threads have been inside together.
WokenWorkersCoverQueue ==
    ~Broken /\ sleep # {} =>
        Len(queue) <= Cardinality({w \in Workers :
            \/ pc[w] = "waiting" /\ w \notin sleep
            \/ pc[w] \in {"inside", "popping"}})

\* The order each scheduler is named for, first in first out or smallest file
\* first, as long as no two threads have been inside together.
QueueInOrder ==
    ~Broken =>
        \A i, j \in DOMAIN queue : i < j =>
            IF scheduler = "SFF" THEN filesize[queue[i]] <= filesize[queue[j]]
                                 ELSE queue[i] < queue[j]

\* "MAIN IS ASLEEP ... QUEUE is FULL", "Main is awake now": main, blocked
\* because the queue was full, goes on after the workers have made room (or the
\* mutex breaks, which is another matter).
MainWakesUp == main = "waiting" ~> Broken \/ (main = "inside" /\ ~isFull(queue, limit))

\* Nobody is forgotten: whatever the scheduler, all connections are accepted
\* and closed in the end, main and the workers always wake each other up,
\* unless two threads were inside together.
EveryoneIsServed ==
    <>(Broken \/ (accepted = MaxConnections /\ \A c \in Connections : closes[c] = 1))
=============================================================================
