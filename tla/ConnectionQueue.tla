-------------------------- MODULE ConnectionQueue --------------------------
(***************************************************************************)
(* The bounded queue of webserverlab/wserver.c and its two schedulers.     *)
(* The linked list from head to tail is a sequence; an element stands for  *)
(* the connection a node carries, and filesize[c] for its size.            *)
(***************************************************************************)
EXTENDS Integers, Sequences, SequencesExt

\* Mutation: a limit of zero is kept.
EffectiveLimit_KeepsZero(buffers) == IF buffers < 0 THEN 65535 ELSE buffers

\* connection_queue_init: a limit that is not positive means a large one.
EffectiveLimit(buffers) == IF buffers <= 0 THEN 65535 ELSE buffers

isEmpty(queue) == queue = <<>>
isFull(queue, limit) == Len(queue) = limit

\* insert_connection, which refuses an item when the queue is full.
Inserted(queue, limit, c) == IF Len(queue) >= limit THEN queue ELSE Append(queue, c)

\* Mutation: minIndex leaves out the last of the positions it may look at.
minIndex_OffByOne(queue, filesize, sortedIndex) ==
    CHOOSE i \in DOMAIN queue :
        /\ i <= sortedIndex \/ i = 1
        /\ \A j \in 1..sortedIndex : filesize[queue[i]] <= filesize[queue[j]] \/ i = 1

\* minIndex: the last of the smallest among the first sortedIndex + 1 positions
\* (positions of a sequence count from 1).  Its rotation of the whole queue
\* leaves the queue as it was.
minIndex(queue, filesize, sortedIndex) ==
    CHOOSE i \in 1..(sortedIndex + 1) :
        \A j \in 1..(sortedIndex + 1) :
            /\ filesize[queue[i]] <= filesize[queue[j]]
            /\ filesize[queue[i]] = filesize[queue[j]] => j <= i

\* insertMinToRear: the others keep their order, a copy of the chosen node
\* becomes the tail.
insertMinToRear(queue, i) == Append(RemoveAt(queue, i), queue[i])

\* sortQueue: n rounds, the k-th of which looks at the n - k + 1 positions that
\* have not been chosen yet.
sortQueue(queue, filesize) ==
    LET n == Len(queue)
        rounds[k \in 0..n] ==
            IF k = 0 THEN queue
            ELSE insertMinToRear(rounds[k - 1], minIndex(rounds[k - 1], filesize, n - k))
    IN  rounds[n]

FIFO(queue, limit, filesize, c) == Inserted(queue, limit, c)

SFF(queue, limit, filesize, c) ==
    LET longer == Inserted(queue, limit, c)
    IN  IF Len(longer) > 1 THEN sortQueue(longer, filesize) ELSE longer
=============================================================================
