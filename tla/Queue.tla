------------------------------- MODULE Queue -------------------------------
(***************************************************************************)
(* src/queue.c: the linked-list request queue guarded by one mutex and one *)
(* condition variable.  Any thread may call any operation.  Every unlocked *)
(* step (allocating a node, reading node->data after the unlock, freeing   *)
(* it) and every acquisition of the mutex is a step of its own; what runs  *)
(* while the mutex is held is one step.                                    *)
(*                                                                         *)
(* The mutex and the condition variable are POSIX objects: a lock is       *)
(* granted to any waiting thread, pthread_cond_signal wakes one sleeping   *)
(* thread of its choice, pthread_cond_wait may also wake spuriously, and   *)
(* none of them fails (the objects are initialised by every caller).       *)
(***************************************************************************)
EXTENDS Integers, Sequences, FiniteSets

CONSTANTS Threads,   \* the calling threads
          Requests,  \* the request_t objects, each passed to queue_enqueue once
          Nodes,     \* the addresses malloc can return for a node_t
          NULL,      \* the null pointer
          MaxCalls   \* bound: how many calls are made on the queue in all,
                     \* every spurious wake-up counted as one

ASSUME QueueAssumption ==
    /\ IsFiniteSet(Threads)
    /\ NULL \notin Threads \cup Requests \cup Nodes
    /\ MaxCalls \in Nat

VARIABLES front, rear, size, closed,  \* the fields of struct queue
          data, next,                 \* data[n], next[n]: the fields of node n
          live,                       \* the nodes malloc'ed and not freed
          mutex,                      \* the owner of *q->mutex, or NULL
          pc,                         \* pc[t]: where thread t is in queue.c
          node,                       \* node[t]: t's local variable `node`
          list,                       \* history: the nodes linked and not yet
                                      \* unlinked, in the order of their linking
          fate,                       \* history: the life of each request
          phase,                      \* of the queue and its process
          calls                       \* how many of the MaxCalls were made

heapVars  == <<data, next, live>>
queueVars == <<front, rear, size, closed, list>>
vars == <<queueVars, heapVars, mutex, pc, node, fate, phase, calls>>

\* The places of a thread.  "idle" is outside queue.c.
Labels == {"idle", "enq_lock", "enq_body", "deq_lock", "deq_check", "waiting",
           "woken", "deq_unlock", "deq_free", "null_unlock", "close_lock",
           "close_body", "peek_lock", "peek_body", "unlock"}

\* Between a LOCK_MTX and its UNLOCK_MTX.
Critical == {"enq_body", "deq_check", "deq_unlock", "null_unlock",
             "close_body", "peek_body", "unlock"}

\* Holding in its local variable a node that is not in the queue.
Holding == {"enq_lock", "enq_body", "deq_unlock", "deq_free"}

At(label) == {t \in Threads : pc[t] = label}

Phases == {"open", "destroying", "destroyed", "exited"}

----------------------------------------------------------------------------
(* POSIX threads, as queue.c uses them. *)

\* pthread_mutex_lock returns to t, which goes from `from` to `to`.
Lock(t, from, to) ==
    /\ phase # "exited"
    /\ pc[t] = from
    /\ mutex = NULL
    /\ mutex' = t
    /\ pc' = [pc EXCEPT ![t] = to]
    /\ UNCHANGED <<queueVars, heapVars, node, fate, phase, calls>>

\* pthread_mutex_unlock by t, which goes from `from` to `to`.
Unlock(t, from, to) ==
    /\ phase # "exited"
    /\ pc[t] = from
    /\ mutex' = NULL
    /\ pc' = [pc EXCEPT ![t] = to]
    /\ UNCHANGED <<queueVars, heapVars, node, fate, phase, calls>>

\* pthread_cond_signal by t, which then goes to `to`: one sleeping thread, if
\* there is one, leaves the condition variable and contends for the mutex.
Signal(t, to) ==
    IF At("waiting") = {}
    THEN pc' = [pc EXCEPT ![t] = to]
    ELSE \E w \in At("waiting") :
            pc' = [pc EXCEPT ![t] = to, ![w] = "woken"]

\* pthread_cond_broadcast by t, which then goes to `to`.
Broadcast(t, to) ==
    pc' = [s \in Threads |-> IF s = t THEN to
                             ELSE IF pc[s] = "waiting" THEN "woken"
                             ELSE pc[s]]

\* pthread_cond_wait may return although nobody signalled.
SpuriousWakeup(t) ==
    /\ phase # "exited"
    /\ pc[t] = "waiting"
    /\ calls < MaxCalls
    /\ calls' = calls + 1
    /\ pc' = [pc EXCEPT ![t] = "woken"]
    /\ UNCHANGED <<queueVars, heapVars, mutex, node, fate, phase>>

----------------------------------------------------------------------------
(* The heap.  The contents of a freed node are forgotten: MemorySafe below *)
(* says that no thread looks at them.                                      *)

Malloc(n, r) ==
    /\ n \in Nodes \ live
    /\ live' = live \cup {n}
    /\ data' = [data EXCEPT ![n] = r]
    /\ next' = [next EXCEPT ![n] = NULL]

Free(n) ==
    /\ live' = live \ {n}
    /\ data' = [data EXCEPT ![n] = NULL]
    /\ next' = [next EXCEPT ![n] = NULL]

----------------------------------------------------------------------------
(* queue_init *)
Init ==
    /\ front = NULL
    /\ rear = NULL
    /\ size = 0
    /\ closed = FALSE
    /\ list = << >>
    /\ live = {}
    /\ data = [n \in Nodes |-> NULL]
    /\ next = [n \in Nodes |-> NULL]
    /\ mutex = NULL
    /\ pc = [t \in Threads |-> "idle"]
    /\ node = [t \in Threads |-> NULL]
    /\ fate = [r \in Requests |-> "fresh"]
    /\ phase = "open"
    /\ calls = 0

\* A thread outside queue.c calls one of the operations.
Call(t, label) ==
    /\ phase = "open"
    /\ pc[t] = "idle"
    /\ calls < MaxCalls
    /\ calls' = calls + 1
    /\ pc' = [pc EXCEPT ![t] = label]

\* queue_enqueue, before the lock: allocate the node and fill it.
EnqueueAlloc(t, r, n) ==
    /\ Call(t, "enq_lock")
    /\ fate[r] = "fresh"
    /\ fate' = [fate EXCEPT ![r] = "calling"]
    /\ Malloc(n, r)
    /\ node' = [node EXCEPT ![t] = n]
    /\ UNCHANGED <<queueVars, mutex, phase>>

\* malloc returns NULL when the heap is exhausted: the process exits.
EnqueueNoMemory(t) ==
    /\ phase = "open"
    /\ pc[t] = "idle"
    /\ calls < MaxCalls
    /\ live = Nodes
    /\ phase' = "exited"
    /\ UNCHANGED <<queueVars, heapVars, mutex, pc, node, fate, calls>>

\* Mutant: the early return forgets its UNLOCK_MTX.
EnqueueRefuseKeepsLock(t) ==
    /\ phase # "exited"
    /\ pc[t] = "enq_body"
    /\ closed
    /\ Free(node[t])
    /\ fate' = [fate EXCEPT ![data[node[t]]] = "refused"]
    /\ node' = [node EXCEPT ![t] = NULL]
    /\ pc' = [pc EXCEPT ![t] = "idle"]
    /\ UNCHANGED <<queueVars, mutex, phase, calls>>

\* Mutant: the early return forgets its free(node).
EnqueueRefuseLeaks(t) ==
    /\ phase # "exited"
    /\ pc[t] = "enq_body"
    /\ closed
    /\ fate' = [fate EXCEPT ![data[node[t]]] = "refused"]
    /\ node' = [node EXCEPT ![t] = NULL]
    /\ pc' = [pc EXCEPT ![t] = "unlock"]
    /\ UNCHANGED <<queueVars, heapVars, mutex, phase, calls>>

\* The queue is closed: free the node, keep the request out.
EnqueueRefuse(t) ==
    /\ phase # "exited"
    /\ pc[t] = "enq_body"
    /\ closed
    /\ Free(node[t])
    /\ fate' = [fate EXCEPT ![data[node[t]]] = "refused"]
    /\ node' = [node EXCEPT ![t] = NULL]
    /\ pc' = [pc EXCEPT ![t] = "unlock"]
    /\ UNCHANGED <<queueVars, mutex, phase, calls>>

\* Link the node behind the rear and count it.
LinkNode(n) ==
    /\ IF rear # NULL
       THEN next' = [next EXCEPT ![rear] = n] /\ UNCHANGED front
       ELSE front' = n /\ UNCHANGED next
    /\ rear' = n
    /\ size' = size + 1
    /\ list' = Append(list, n)
    /\ UNCHANGED <<closed, data, live>>

\* The request is in the queue, and t has done with its node.
HandOver(t) ==
    /\ fate' = [fate EXCEPT ![data[node[t]]] = "queued"]
    /\ node' = [node EXCEPT ![t] = NULL]
    /\ UNCHANGED <<mutex, phase, calls>>

\* Mutant: signal only when the queue was empty.
EnqueueLinkSignalsOnEmpty(t) ==
    /\ phase # "exited"
    /\ pc[t] = "enq_body"
    /\ ~closed
    /\ LinkNode(node[t])
    /\ HandOver(t)
    /\ IF front = NULL THEN Signal(t, "unlock")
                       ELSE pc' = [pc EXCEPT ![t] = "unlock"]

\* Mutant: queue_enqueue does not look at q->closed.
EnqueueLinkWhenClosed(t) ==
    /\ phase # "exited"
    /\ pc[t] = "enq_body"
    /\ LinkNode(node[t])
    /\ HandOver(t)
    /\ Signal(t, "unlock")

\* The queue is open: link the node, wake a sleeping dequeuer.
EnqueueLink(t) ==
    /\ phase # "exited"
    /\ pc[t] = "enq_body"
    /\ ~closed
    /\ LinkNode(node[t])
    /\ HandOver(t)
    /\ Signal(t, "unlock")

queue_enqueue(t) ==
    \/ \E r \in Requests, n \in Nodes : EnqueueAlloc(t, r, n)
    \/ EnqueueNoMemory(t)
    \/ Lock(t, "enq_lock", "enq_body")
    \/ EnqueueRefuse(t)
    \/ EnqueueLink(t)

----------------------------------------------------------------------------
DequeueCall(t) ==
    /\ Call(t, "deq_lock")
    /\ UNCHANGED <<queueVars, heapVars, mutex, node, fate, phase>>

\* The while loop finds nothing to do: sleep, releasing the mutex.
DequeueWait(t) ==
    /\ front = NULL
    /\ ~closed
    /\ Unlock(t, "deq_check", "waiting")

\* Mutant: NULL as soon as the queue is closed, whatever is still in it.
DequeueNullWhenClosed(t) ==
    /\ phase # "exited"
    /\ pc[t] = "deq_check"
    /\ closed
    /\ pc' = [pc EXCEPT ![t] = "null_unlock"]
    /\ UNCHANGED <<queueVars, heapVars, mutex, node, fate, phase, calls>>

\* Closed and empty: the result will be NULL.
DequeueNull(t) ==
    /\ phase # "exited"
    /\ pc[t] = "deq_check"
    /\ front = NULL
    /\ closed
    /\ pc' = [pc EXCEPT ![t] = "null_unlock"]
    /\ UNCHANGED <<queueVars, heapVars, mutex, node, fate, phase, calls>>

\* Mutant: q->rear is not reset when the last node leaves.
DequeueUnlinkStaleRear(t) ==
    /\ phase # "exited"
    /\ pc[t] = "deq_check"
    /\ front # NULL
    /\ node' = [node EXCEPT ![t] = front]
    /\ front' = next[front]
    /\ size' = size - 1
    /\ list' = Tail(list)
    /\ pc' = [pc EXCEPT ![t] = "deq_unlock"]
    /\ UNCHANGED <<rear, closed, heapVars, mutex, fate, phase, calls>>

\* Unlink the front node.
DequeueUnlink(t) ==
    /\ phase # "exited"
    /\ pc[t] = "deq_check"
    /\ front # NULL
    /\ node' = [node EXCEPT ![t] = front]
    /\ front' = next[front]
    /\ rear' = IF next[front] = NULL THEN NULL ELSE rear
    /\ size' = size - 1
    /\ list' = Tail(list)
    /\ pc' = [pc EXCEPT ![t] = "deq_unlock"]
    /\ UNCHANGED <<closed, heapVars, mutex, fate, phase, calls>>

\* After the unlock: read the request out of the node, free the node, return.
DequeueReturn(t) ==
    /\ phase # "exited"
    /\ pc[t] = "deq_free"
    /\ fate' = [fate EXCEPT ![data[node[t]]] = "delivered"]
    /\ Free(node[t])
    /\ node' = [node EXCEPT ![t] = NULL]
    /\ pc' = [pc EXCEPT ![t] = "idle"]
    /\ UNCHANGED <<queueVars, mutex, phase, calls>>

queue_dequeue(t) ==
    \/ DequeueCall(t)
    \/ Lock(t, "deq_lock", "deq_check")
    \/ DequeueWait(t)
    \/ SpuriousWakeup(t)
    \/ Lock(t, "woken", "deq_check")
    \/ DequeueNull(t)
    \/ Unlock(t, "null_unlock", "idle")
    \/ DequeueUnlink(t)
    \/ Unlock(t, "deq_unlock", "deq_free")
    \/ DequeueReturn(t)

----------------------------------------------------------------------------
CloseCall(t) ==
    /\ Call(t, "close_lock")
    /\ UNCHANGED <<queueVars, heapVars, mutex, node, fate, phase>>

\* Mutant: pthread_cond_signal in place of the broadcast.
CloseMarkSignals(t) ==
    /\ phase # "exited"
    /\ pc[t] = "close_body"
    /\ closed' = TRUE
    /\ Signal(t, "unlock")
    /\ UNCHANGED <<front, rear, size, list, heapVars, mutex, node, fate,
                   phase, calls>>

\* Mark the queue closed and wake every sleeping dequeuer.
CloseMark(t) ==
    /\ phase # "exited"
    /\ pc[t] = "close_body"
    /\ closed' = TRUE
    /\ Broadcast(t, "unlock")
    /\ UNCHANGED <<front, rear, size, list, heapVars, mutex, node, fate,
                   phase, calls>>

queue_close(t) ==
    \/ CloseCall(t)
    \/ Lock(t, "close_lock", "close_body")
    \/ CloseMark(t)

\* queue_isclosed and queue_size: copy one field while holding the mutex.
PeekCall(t) ==
    /\ Call(t, "peek_lock")
    /\ UNCHANGED <<queueVars, heapVars, mutex, node, fate, phase>>

queue_isclosed_or_size(t) ==
    \/ PeekCall(t)
    \/ Lock(t, "peek_lock", "peek_body")
    \/ Unlock(t, "peek_body", "idle")

\* The UNLOCK_MTX that ends queue_enqueue and queue_close.
FinalUnlock(t) == Unlock(t, "unlock", "idle")

----------------------------------------------------------------------------
(* queue_destroy takes no lock.  Its callers (join_worker_thread after the *)
(* pthread_join, the main functions after the pool is gone) call it when   *)
(* no other thread is inside queue.c and none will come back.              *)
DestroyCall ==
    /\ phase = "open"
    /\ \A t \in Threads : pc[t] = "idle"
    /\ phase' = "destroying"
    /\ UNCHANGED <<queueVars, heapVars, mutex, pc, node, fate, calls>>

\* One turn of the loop: unlink the front node, free its request and it.
\* The code leaves rear and size alone.
DestroyFreeFront ==
    /\ phase = "destroying"
    /\ front # NULL
    /\ front' = next[front]
    /\ fate' = [fate EXCEPT ![data[front]] = "freed"]
    /\ Free(front)
    /\ list' = Tail(list)
    /\ UNCHANGED <<rear, size, closed, mutex, pc, node, phase, calls>>

\* The list is gone; free(q).
DestroyFreeQueue ==
    /\ phase = "destroying"
    /\ front = NULL
    /\ phase' = "destroyed"
    /\ UNCHANGED <<queueVars, heapVars, mutex, pc, node, fate, calls>>

queue_destroy == DestroyCall \/ DestroyFreeFront \/ DestroyFreeQueue

----------------------------------------------------------------------------
ThreadStep(t) ==
    \/ queue_enqueue(t)
    \/ queue_dequeue(t)
    \/ queue_close(t)
    \/ queue_isclosed_or_size(t)
    \/ FinalUnlock(t)

Next == (\E t \in Threads : ThreadStep(t)) \/ queue_destroy

Spec == Init /\ [][Next]_vars

\* What a thread inside queue.c does next, without the calls themselves and
\* without spurious wake-ups.
Continue(t) ==
    \/ \E l \in {<<"enq_lock", "enq_body">>, <<"deq_lock", "deq_check">>,
                 <<"woken", "deq_check">>, <<"close_lock", "close_body">>,
                 <<"peek_lock", "peek_body">>} : Lock(t, l[1], l[2])
    \/ \E l \in {<<"null_unlock", "idle">>, <<"deq_unlock", "deq_free">>,
                 <<"peek_body", "idle">>, <<"unlock", "idle">>} :
          Unlock(t, l[1], l[2])
    \/ EnqueueRefuse(t) \/ EnqueueLink(t) \/ CloseMark(t)
    \/ DequeueWait(t) \/ DequeueNull(t) \/ DequeueUnlink(t) \/ DequeueReturn(t)

\* The scheduler does not stop a runnable thread for ever.  Weak fairness is
\* enough for the mutex because only MaxCalls calls compete for it.
FairSpec == Spec /\ \A t \in Threads : WF_vars(Continue(t))

----------------------------------------------------------------------------
(* Properties *)

TypeOK ==
    /\ front \in Nodes \cup {NULL}
    /\ rear \in Nodes \cup {NULL}
    /\ size \in Nat
    /\ closed \in BOOLEAN
    /\ list \in Seq(Nodes)
    /\ live \subseteq Nodes
    /\ data \in [Nodes -> Requests \cup {NULL}]
    /\ next \in [Nodes -> Nodes \cup {NULL}]
    /\ mutex \in Threads \cup {NULL}
    /\ pc \in [Threads -> Labels]
    /\ node \in [Threads -> Nodes \cup {NULL}]
    /\ fate \in [Requests -> {"fresh", "calling", "queued", "refused",
                              "delivered", "freed"}]
    /\ phase \in Phases
    /\ calls \in 0..MaxCalls

\* The mutex is held by exactly the thread that is between LOCK_MTX and
\* UNLOCK_MTX, on every path of every operation, the error returns included.
MutualExclusion ==
    \A t \in Threads : pc[t] \in Critical <=> mutex = t

\* While the queue is usable, front, rear, size and the next pointers describe
\* the list of the nodes linked and not yet unlinked: nothing is skipped, rear
\* never dangles after the last node is taken, and size is the length.
ListShape ==
    /\ front = IF list = << >> THEN NULL ELSE list[1]
    /\ \A i \in 1..Len(list) :
          next[list[i]] = IF i = Len(list) THEN NULL ELSE list[i + 1]
    /\ phase \in {"open", "exited"} =>
          /\ rear = IF list = << >> THEN NULL ELSE list[Len(list)]
          /\ size = Len(list)

Linked == {list[i] : i \in 1..Len(list)}
Held == {node[t] : t \in {s \in Threads : pc[s] \in Holding}}

\* No use after free, no double free and no leak of nodes: the nodes that a
\* pointer of the queue or of a thread leads to are exactly the allocated ones,
\* no node is in the list twice, and no thread shares the node it works on
\* outside the mutex (queue_dequeue reads node->data after the unlock).
MemorySafe ==
    /\ live = Linked \cup Held
    /\ Linked \cap Held = {}
    /\ \A i, j \in 1..Len(list) : list[i] = list[j] => i = j
    /\ \A s, t \in Threads :
          pc[s] \in Holding /\ pc[t] \in Holding /\ node[s] = node[t] => s = t

\* pthread_cond_signal once per queue_enqueue is enough for any number of
\* dequeuers: while one sleeps, every queued request has a thread of its own
\* that is awake and about to look at the queue.
NoLostWakeup ==
    At("waiting") # {} =>
        Len(list) <= Cardinality({t \in Threads : pc[t] \in {"woken", "deq_check"}})

\* No dequeuer sleeps on a closed queue, whatever the order in which
\* queue_close and queue_dequeue get the mutex.
NoSleepOnClosed == closed => At("waiting") = {}

\* queue_close is final: the queue never becomes longer after it.
ClosedNeverGrows == [][closed => closed' /\ Len(list') <= Len(list)]_vars

\* src/queue.c implements the promise of FifoQueue: requests leave in the order
\* they came, each goes to one caller, NULL means closed and empty.
Fifo == INSTANCE FifoQueue WITH
    buf <- [i \in 1..Len(list) |-> data[list[i]]],
    result <- [t \in Threads |->
                  IF pc[t] \in {"deq_unlock", "deq_free"} THEN <<data[node[t]]>>
                  ELSE IF pc[t] = "null_unlock" THEN <<NULL>>
                  ELSE << >>]

ImplementsFifo == Fifo!Spec

\* Once the queue is closed every call in progress returns.
CallsReturnAfterClose ==
    \A t \in Threads :
        (closed /\ pc[t] # "idle") ~> (pc[t] = "idle" \/ phase = "exited")

\* A request and a sleeping dequeuer are never left facing each other.
SleeperMeetsRequest ==
    (front # NULL /\ At("waiting") # {})
        ~> (front = NULL \/ At("waiting") = {} \/ phase = "exited")

\* A thread that works on a node outside the list has one.
HoldersHaveNode == \A t \in Threads : pc[t] \in Holding => node[t] \in Nodes

\* A node of the queue, or in a thread's hands, carries a request.
NodesCarryRequests == \A n \in live : data[n] \in Requests

\* Before it links its node, an enqueuer's node ends a list.
Enqueuing == {"enq_lock", "enq_body"}
FreshNodesEnd ==
    \A t \in Threads : pc[t] \in Enqueuing => next[node[t]] = NULL

\* Nobody is inside queue.c while the queue is torn down.
QuietDestroy ==
    phase \in {"destroying", "destroyed"} => \A t \in Threads : pc[t] = "idle"

\* The part of the inductive invariant about pointers and nodes.
HeapInv ==
    /\ ListShape
    /\ MemorySafe
    /\ HoldersHaveNode
    /\ NodesCarryRequests
    /\ FreshNodesEnd

\* What the inductive invariant says of types, list, nodes and mutex; nobody
\* sleeps on a closed queue or is inside queue.c while it is torn down.
CoreInv ==
    /\ TypeOK
    /\ HeapInv
    /\ MutualExclusion
    /\ NoSleepOnClosed
    /\ QuietDestroy

\* No two nodes carry the same request, and the request of a node is where the
\* node is: on its way into the queue, or in it until queue_dequeue returns.
FatesKept ==
    /\ \A m, n \in live : data[m] = data[n] => m = n
    /\ \A t \in Threads : pc[t] \in Enqueuing => fate[data[node[t]]] = "calling"
    /\ \A t \in Threads : pc[t] \in Holding \ Enqueuing => fate[data[node[t]]] = "queued"
    /\ \A i \in 1..Len(list) : fate[data[list[i]]] = "queued"

\* The inductive invariant.
QueueInv == CoreInv /\ FatesKept
=============================================================================
