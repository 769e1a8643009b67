--------------------------- MODULE ConcurrentQueue ---------------------------
(***************************************************************************)
(* The bounded queue of shared/concurrentqueue.h.  A QList guarded by a    *)
(* mutex holds the elements, a QSemaphore counts the free places.  The two *)
(* are not updated together: every operation below is one of the atomic    *)
(* halves of a method, and the modules that use the queue decide what may  *)
(* happen between them.                                                    *)
(***************************************************************************)
EXTENDS Integers, Sequences

CONSTANT QueueSize              \* QUEUE_SIZE, 10000 in the code

ASSUME QueueSizeAssumption == QueueSize \in Nat \ {0}

QueueOf(T) == [items : Seq(T), avail : Int]

EmptyQueue == [items |-> <<>>, avail |-> QueueSize]

\* avail.acquire(n), first half of both enqueue methods.  acquire(0) never blocks.
CanAcquire(q, n) == q.avail >= n
Acquire(q, n) == [q EXCEPT !.avail = @ - n]

\* append under the lock, second half of both enqueue methods.
Put(q, s) == [q EXCEPT !.items = @ \o s]

\* Slip: the single-element enqueue forgets avail.acquire().
EnqueueOneFree(q, x) == [items |-> Append(q.items, x), avail |-> q.avail]

\* enqueue(const T &): both halves, for a caller nobody can overtake in between.
EnqueueOne(q, x) == [items |-> Append(q.items, x), avail |-> q.avail - 1]

\* Slip: dequeue(int) forgets avail.release(batchsize).
ReleaseNothing(q, n) == q

\* dequeue(int batchsize): the permits are released BEFORE the elements leave.
Release(q, n) == [q EXCEPT !.avail = @ + n]
Holds(q, n) == n \in 0..Len(q.items)
Batch(q, n) == SubSeq(q.items, 1, n)
WithoutBatch(q, n) == [q EXCEPT !.items = SubSeq(@, n + 1, Len(@))]

\* dequeue(T &result) on a non-empty queue: release and takeFirst under one lock.
WithoutFirst(q) == [items |-> Tail(q.items), avail |-> q.avail + 1]

\* clear(): returns QUEUE_SIZE permits, however many were taken.
Clear(q) == [items |-> <<>>, avail |-> q.avail + QueueSize]

\* remaining(): the permits that are out, which is not the number of elements
\* while an enqueue or a batch dequeue is between its two halves.
Remaining(q) == QueueSize - q.avail
=============================================================================
