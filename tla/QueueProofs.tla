---------------------------- MODULE QueueProofs ----------------------------
(***************************************************************************)
(* Proofs about src/queue.c, for any number of threads, requests, nodes    *)
(* and calls.                                                              *)
(***************************************************************************)
EXTENDS Queue, FiniteSetTheorems, SequenceTheorems, TLAPS

\* Init establishes the inductive invariant.
LEMMA InitInv == Init => CoreInv
<1> SUFFICES ASSUME Init PROVE CoreInv
  OBVIOUS
<1> USE QueueAssumption DEF QueueAssumption
<1>1. TypeOK
  <2>1. closed \in BOOLEAN
    BY DEF Init
  <2>2. list \in Seq(Nodes) /\ size \in Nat /\ calls \in 0..MaxCalls
    BY DEF Init
  <2>3. /\ front \in Nodes \cup {NULL}
        /\ rear \in Nodes \cup {NULL}
        /\ live \subseteq Nodes
        /\ data \in [Nodes -> Requests \cup {NULL}]
        /\ next \in [Nodes -> Nodes \cup {NULL}]
        /\ mutex \in Threads \cup {NULL}
        /\ node \in [Threads -> Nodes \cup {NULL}]
    BY DEF Init
  <2>4. pc \in [Threads -> Labels] /\ phase \in Phases
    BY DEF Init, Labels, Phases
  <2> QED
    BY <2>1, <2>2, <2>3, <2>4 DEF Init, TypeOK
<1>2. HeapInv
  BY DEF Init, HeapInv, ListShape, MemorySafe, HoldersHaveNode,
         NodesCarryRequests, FreshNodesEnd, Linked, Held, Holding, Enqueuing
<1>3. MutualExclusion /\ NoSleepOnClosed /\ QuietDestroy
  BY DEF Init, MutualExclusion, NoSleepOnClosed, QuietDestroy, Critical
<1> QED
  BY <1>1, <1>2, <1>3 DEF CoreInv

\* A step that leaves the list, the nodes and every thread's hold on its node
\* alone leaves the part of the invariant about nodes alone.
LEMMA HeapUntouched ==
    ASSUME HeapInv, UNCHANGED <<front, rear, size, list, data, next, live, node>>,
           \A t \in Threads : pc'[t] \in Holding <=> pc[t] \in Holding,
           \A t \in Threads : pc'[t] \in Enqueuing => pc[t] \in Enqueuing,
           phase' = phase \/ phase = "open"
    PROVE  HeapInv'
<1>1. ListShape'
  BY DEF HeapInv, ListShape
<1>2. Held' = Held
  BY DEF Held
<1>3. MemorySafe'
  BY <1>2 DEF HeapInv, MemorySafe, Linked
<1>4. HoldersHaveNode' /\ NodesCarryRequests' /\ FreshNodesEnd'
  BY DEF HeapInv, HoldersHaveNode, NodesCarryRequests, FreshNodesEnd
<1> QED
  BY <1>1, <1>3, <1>4 DEF HeapInv

\* Acquiring the mutex preserves the invariant, whatever it is acquired for.
LEMMA LockStep ==
    ASSUME CoreInv, NEW t \in Threads, NEW from \in Labels, NEW to \in Labels,
           Lock(t, from, to), from # "idle", from \notin Critical, to \in Critical,
           from \in Holding <=> to \in Holding,
           to \in Enqueuing => from \in Enqueuing
    PROVE  CoreInv'
<1> USE QueueAssumption DEF QueueAssumption
<1>1. TypeOK'
  BY DEF CoreInv, TypeOK, Lock, queueVars, heapVars
<1>2. HeapInv'
  <2>1. \A s \in Threads : /\ pc'[s] \in Holding <=> pc[s] \in Holding
                           /\ pc'[s] \in Enqueuing => pc[s] \in Enqueuing
    BY DEF CoreInv, TypeOK, Lock
  <2> QED
    BY <2>1, HeapUntouched DEF CoreInv, Lock, queueVars, heapVars
<1>3. MutualExclusion'
  BY DEF CoreInv, TypeOK, Lock, MutualExclusion
<1>4. NoSleepOnClosed'
  BY DEF CoreInv, TypeOK, Lock, NoSleepOnClosed, At, Critical, queueVars
<1>5. QuietDestroy'
  BY DEF CoreInv, TypeOK, Lock, QuietDestroy, Critical
<1> QED
  BY <1>1, <1>2, <1>3, <1>4, <1>5 DEF CoreInv

\* Releasing the mutex preserves the invariant; a thread that releases it to
\* sleep must have seen the queue open.
LEMMA UnlockStep ==
    ASSUME CoreInv, NEW t \in Threads, NEW from \in Labels, NEW to \in Labels,
           Unlock(t, from, to), from \in Critical, to \notin Critical,
           from \in Holding <=> to \in Holding,
           to \in Enqueuing => from \in Enqueuing,
           to = "waiting" => ~closed
    PROVE  CoreInv'
<1> USE QueueAssumption DEF QueueAssumption
<1>1. TypeOK'
  BY DEF CoreInv, TypeOK, Unlock, queueVars, heapVars
<1>2. HeapInv'
  <2>1. \A s \in Threads : /\ pc'[s] \in Holding <=> pc[s] \in Holding
                           /\ pc'[s] \in Enqueuing => pc[s] \in Enqueuing
    BY DEF CoreInv, TypeOK, Unlock
  <2> QED
    BY <2>1, HeapUntouched DEF CoreInv, Unlock, queueVars, heapVars
<1>3. MutualExclusion'
  BY DEF CoreInv, TypeOK, Unlock, MutualExclusion
<1>4. NoSleepOnClosed'
  BY DEF CoreInv, TypeOK, Unlock, NoSleepOnClosed, At, queueVars
<1>5. QuietDestroy'
  BY DEF CoreInv, TypeOK, Unlock, QuietDestroy, Critical
<1> QED
  BY <1>1, <1>2, <1>3, <1>4, <1>5 DEF CoreInv

\* Entering queue.c without touching a node, for one of the queue operations.
LEMMA CallStep ==
    ASSUME CoreInv, NEW t \in Threads,
           NEW label \in {"deq_lock", "close_lock", "peek_lock"},
           Call(t, label),
           UNCHANGED <<queueVars, heapVars, mutex, node, fate, phase>>
    PROVE  CoreInv'
<1> USE QueueAssumption DEF QueueAssumption
<1>1. TypeOK'
  BY DEF CoreInv, TypeOK, Call, Labels, queueVars, heapVars
<1>2. HeapInv'
  <2>1. \A s \in Threads : /\ pc'[s] \in Holding <=> pc[s] \in Holding
                           /\ pc'[s] \in Enqueuing => pc[s] \in Enqueuing
    BY DEF CoreInv, TypeOK, Call, Holding, Enqueuing
  <2> QED
    BY <2>1, HeapUntouched DEF CoreInv, queueVars, heapVars
<1>3. MutualExclusion'
  BY DEF CoreInv, TypeOK, Call, MutualExclusion, Critical
<1>4. NoSleepOnClosed'
  BY DEF CoreInv, TypeOK, Call, NoSleepOnClosed, At, queueVars
<1>5. QuietDestroy'
  BY DEF CoreInv, TypeOK, Call, QuietDestroy
<1> QED
  BY <1>1, <1>2, <1>3, <1>4, <1>5 DEF CoreInv

\* The steps that change only where threads are.
LEMMA PcSteps ==
    ASSUME CoreInv, NEW t \in Threads,
           SpuriousWakeup(t) \/ DequeueNull(t) \/ CloseMark(t)
    PROVE  CoreInv'
<1> USE QueueAssumption DEF QueueAssumption
<1>1. TypeOK'
  <2>1. CASE SpuriousWakeup(t)
    BY <2>1 DEF CoreInv, TypeOK, SpuriousWakeup, Labels, queueVars, heapVars
  <2>2. CASE DequeueNull(t)
    BY <2>2 DEF CoreInv, TypeOK, DequeueNull, Labels, queueVars, heapVars
  <2>3. CASE CloseMark(t)
    <3>1. closed' \in BOOLEAN
      BY <2>3 DEF CloseMark
    <3>2. pc' \in [Threads -> Labels]
      BY <2>3 DEF CoreInv, TypeOK, CloseMark, Broadcast, Labels
    <3> QED
      BY <2>3, <3>1, <3>2 DEF CoreInv, TypeOK, CloseMark, heapVars
  <2> QED
    BY <2>1, <2>2, <2>3
<1>2. HeapInv'
  <2>1. \A s \in Threads : /\ pc'[s] \in Holding <=> pc[s] \in Holding
                           /\ pc'[s] \in Enqueuing => pc[s] \in Enqueuing
    BY DEF CoreInv, TypeOK, SpuriousWakeup, DequeueNull, CloseMark, Broadcast,
           Holding, Enqueuing
  <2>2. UNCHANGED <<front, rear, size, list, data, next, live, node, phase>>
    BY DEF SpuriousWakeup, DequeueNull, CloseMark, queueVars, heapVars
  <2> QED
    BY <2>1, <2>2, HeapUntouched DEF CoreInv
<1>3. MutualExclusion'
  BY DEF CoreInv, TypeOK, SpuriousWakeup, DequeueNull, CloseMark, Broadcast,
         MutualExclusion, Critical
<1>4. NoSleepOnClosed'
  <2>1. CASE SpuriousWakeup(t) \/ DequeueNull(t)
    <3>1. closed' = closed
      BY <2>1 DEF SpuriousWakeup, DequeueNull, queueVars
    <3>2. \A s \in Threads : pc'[s] = "waiting" => pc[s] = "waiting"
      BY <2>1 DEF CoreInv, TypeOK, SpuriousWakeup, DequeueNull
    <3>3. NoSleepOnClosed
      BY DEF CoreInv
    <3> QED
      BY <3>1, <3>2, <3>3 DEF NoSleepOnClosed, At
  <2>2. CASE CloseMark(t)
    BY <2>2 DEF CloseMark, Broadcast, NoSleepOnClosed, At
  <2> QED
    BY <2>1, <2>2
<1>5. QuietDestroy'
  BY DEF CoreInv, TypeOK, SpuriousWakeup, DequeueNull, CloseMark, QuietDestroy
<1> QED
  BY <1>1, <1>2, <1>3, <1>4, <1>5 DEF CoreInv

\* queue_enqueue's allocation: the fresh node is in no list and in no other
\* thread's hands.
LEMMA EnqueueAllocStep ==
    ASSUME CoreInv, NEW t \in Threads, NEW r \in Requests, NEW n \in Nodes,
           EnqueueAlloc(t, r, n)
    PROVE  CoreInv'
<1> USE QueueAssumption DEF QueueAssumption
<1> USE DEF EnqueueAlloc, Call, Malloc
<1>1. TypeOK'
  BY DEF CoreInv, TypeOK, Labels, queueVars
<1>a. /\ pc[t] = "idle" /\ pc' = [pc EXCEPT ![t] = "enq_lock"]
      /\ node' = [node EXCEPT ![t] = n]
      /\ n \notin live /\ live' = live \cup {n}
      /\ pc \in [Threads -> Labels] /\ node \in [Threads -> Nodes \cup {NULL}]
  BY DEF CoreInv, TypeOK
<1>2. ListShape'
  <2>1. \A j \in 1..Len(list) : list[j] # n
    BY <1>a DEF CoreInv, HeapInv, MemorySafe, Linked
  <2> QED
    BY <2>1 DEF CoreInv, TypeOK, HeapInv, ListShape, queueVars
<1>3. MemorySafe'
  <2>1. Held' = Held \cup {n}
    BY <1>a DEF Held, Holding
  <2>2. Linked' = Linked
    BY DEF Linked, queueVars
  <2>3. n \notin Linked \cup Held
    BY <1>a DEF CoreInv, HeapInv, MemorySafe
  <2>4. \A s, u \in Threads :
           pc'[s] \in Holding /\ pc'[u] \in Holding /\ node'[s] = node'[u] => s = u
    BY <1>a, <2>3 DEF CoreInv, HeapInv, MemorySafe, Held, Holding
  <2> QED
    BY <1>a, <2>1, <2>2, <2>3, <2>4 DEF CoreInv, HeapInv, MemorySafe, queueVars
<1>4. HoldersHaveNode' /\ NodesCarryRequests'
  BY DEF CoreInv, TypeOK, HeapInv, HoldersHaveNode, NodesCarryRequests
<1>7. FreshNodesEnd'
  BY <1>a DEF CoreInv, TypeOK, HeapInv, FreshNodesEnd, HoldersHaveNode,
              Enqueuing, Holding
<1>5. MutualExclusion'
  BY DEF CoreInv, TypeOK, MutualExclusion, Critical
<1>6. NoSleepOnClosed' /\ QuietDestroy'
  BY DEF CoreInv, TypeOK, NoSleepOnClosed, At, QuietDestroy, queueVars
<1> QED
  BY <1>1, <1>2, <1>3, <1>4, <1>5, <1>6, <1>7 DEF CoreInv, HeapInv

\* Freeing a node that only thread t holds: the rest of the heap is untouched.
\* This is the common part of a refused enqueue and of the end of a dequeue.
LEMMA FreeHeldStep ==
    ASSUME CoreInv, NEW t \in Threads, NEW label \in {"unlock", "idle"},
           pc[t] \in Holding, Free(node[t]),
           pc' = [pc EXCEPT ![t] = label], node' = [node EXCEPT ![t] = NULL],
           UNCHANGED queueVars, UNCHANGED phase
    PROVE  HeapInv'
<1> USE QueueAssumption DEF QueueAssumption
<1> USE DEF Free
<1>a. /\ node[t] \in Nodes /\ node[t] \in live /\ node[t] \notin Linked
      /\ pc \in [Threads -> Labels] /\ node \in [Threads -> Nodes \cup {NULL}]
      /\ label \notin Holding /\ label \notin Enqueuing
  BY DEF CoreInv, TypeOK, HeapInv, HoldersHaveNode, MemorySafe, Held, Holding,
         Enqueuing
<1>1. ListShape'
  <2>1. \A j \in 1..Len(list) : list[j] # node[t]
    BY <1>a DEF Linked
  <2> QED
    BY <2>1 DEF CoreInv, TypeOK, HeapInv, ListShape, queueVars
<1>2. MemorySafe'
  <2>1. Held' = Held \ {node[t]}
    BY <1>a DEF CoreInv, HeapInv, MemorySafe, Held
  <2>2. Linked' = Linked
    BY DEF Linked, queueVars
  <2>3. \A s, u \in Threads :
           pc'[s] \in Holding /\ pc'[u] \in Holding /\ node'[s] = node'[u] => s = u
    BY <1>a DEF CoreInv, HeapInv, MemorySafe
  <2> QED
    BY <1>a, <2>1, <2>2, <2>3 DEF CoreInv, HeapInv, MemorySafe, queueVars
<1>3. HoldersHaveNode'
  BY <1>a DEF CoreInv, HeapInv, HoldersHaveNode
<1>4. NodesCarryRequests'
  BY DEF CoreInv, TypeOK, HeapInv, NodesCarryRequests
<1>5. FreshNodesEnd'
  BY <1>a DEF CoreInv, TypeOK, HeapInv, FreshNodesEnd, HoldersHaveNode,
              Enqueuing, Holding
<1> QED
  BY <1>1, <1>2, <1>3, <1>4, <1>5 DEF HeapInv

\* queue_enqueue on a closed queue.
LEMMA EnqueueRefuseStep ==
    ASSUME CoreInv, NEW t \in Threads, EnqueueRefuse(t)
    PROVE  CoreInv'
<1> USE QueueAssumption DEF QueueAssumption
<1>1. TypeOK'
  BY DEF CoreInv, TypeOK, EnqueueRefuse, Free, Labels, queueVars
<1>2. HeapInv'
  BY FreeHeldStep DEF EnqueueRefuse, Holding
<1>3. MutualExclusion'
  BY DEF CoreInv, TypeOK, EnqueueRefuse, MutualExclusion, Critical
<1>4. NoSleepOnClosed' /\ QuietDestroy'
  BY DEF CoreInv, TypeOK, EnqueueRefuse, NoSleepOnClosed, At, QuietDestroy,
         queueVars
<1> QED
  BY <1>1, <1>2, <1>3, <1>4 DEF CoreInv

\* The end of queue_dequeue, outside the mutex.
LEMMA DequeueReturnStep ==
    ASSUME CoreInv, NEW t \in Threads, DequeueReturn(t)
    PROVE  CoreInv'
<1> USE QueueAssumption DEF QueueAssumption
<1>1. TypeOK'
  BY DEF CoreInv, TypeOK, DequeueReturn, Free, Labels, queueVars
<1>2. HeapInv'
  BY FreeHeldStep DEF DequeueReturn, Holding
<1>3. MutualExclusion'
  BY DEF CoreInv, TypeOK, DequeueReturn, MutualExclusion, Critical
<1>4. NoSleepOnClosed' /\ QuietDestroy'
  BY DEF CoreInv, TypeOK, DequeueReturn, NoSleepOnClosed, At, QuietDestroy,
         queueVars
<1> QED
  BY <1>1, <1>2, <1>3, <1>4 DEF CoreInv

\* The three forms a signalled pc can take, seen from one thread.
LEMMA SignalEffect ==
    ASSUME TypeOK, NEW t \in Threads, pc[t] = "enq_body", Signal(t, "unlock")
    PROVE  /\ pc' \in [Threads -> Labels]
           /\ pc'[t] = "unlock"
           /\ \A s \in Threads \ {t} :
                 pc'[s] = pc[s] \/ (pc[s] = "waiting" /\ pc'[s] = "woken")
<1>1. CASE At("waiting") = {}
  BY <1>1 DEF Signal, TypeOK, Labels
<1>2. CASE At("waiting") # {}
  <2>1. PICK w \in At("waiting") :
           pc' = [pc EXCEPT ![t] = "unlock", ![w] = "woken"]
    BY <1>2 DEF Signal
  <2>2. w \in Threads /\ pc[w] = "waiting" /\ w # t
    BY <2>1 DEF At
  <2> QED
    BY <2>1, <2>2 DEF TypeOK, Labels
<1> QED
  BY <1>1, <1>2

\* queue_enqueue links its node behind the rear.
LEMMA EnqueueLinkStep ==
    ASSUME CoreInv, NEW t \in Threads, EnqueueLink(t)
    PROVE  CoreInv'
<1> USE QueueAssumption DEF QueueAssumption, LinkNode, HandOver
<1> DEFINE n == node[t]
<1>a. /\ TypeOK /\ ListShape /\ MemorySafe
      /\ pc[t] = "enq_body" /\ pc[t] \in Holding /\ phase = "open"
      /\ n \in Nodes /\ n \in live /\ n \notin Linked
      /\ next[n] = NULL
  BY DEF CoreInv, HeapInv, HoldersHaveNode, FreshNodesEnd, MemorySafe, Held,
         Holding, Enqueuing, EnqueueLink, QuietDestroy, TypeOK, Phases
<1>b. /\ pc' \in [Threads -> Labels]
      /\ pc'[t] = "unlock"
      /\ \A s \in Threads \ {t} :
            pc'[s] = pc[s] \/ (pc[s] = "waiting" /\ pc'[s] = "woken")
  BY <1>a, SignalEffect DEF EnqueueLink
<1>c. /\ list \in Seq(Nodes) /\ list' = Append(list, n)
      /\ Len(list) \in Nat /\ Len(list') = Len(list) + 1
      /\ \A j \in 1..Len(list) : list'[j] = list[j] /\ list[j] \in Nodes
      /\ list'[Len(list) + 1] = n
  BY <1>a DEF TypeOK, EnqueueLink
<1>d. \A s \in Threads : /\ pc'[s] \in Holding <=> (s # t /\ pc[s] \in Holding)
                         /\ pc'[s] \in Enqueuing => (s # t /\ pc[s] \in Enqueuing)
  BY <1>b DEF Holding, Enqueuing
<1>e. node' = [node EXCEPT ![t] = NULL] /\ node \in [Threads -> Nodes \cup {NULL}]
  BY <1>a DEF EnqueueLink, TypeOK
<1>f. \A j \in 1..Len(list) : list[j] # n
  BY <1>a DEF Linked
<1>1. TypeOK'
  <2>1. front' \in Nodes \cup {NULL} /\ next' \in [Nodes -> Nodes \cup {NULL}]
    <3>1. CASE rear = NULL
      BY <1>a, <3>1 DEF TypeOK, EnqueueLink
    <3>2. CASE rear # NULL
      BY <1>a, <3>2 DEF TypeOK, EnqueueLink
    <3> QED
      BY <3>1, <3>2
  <2>2. list' \in Seq(Nodes)
    BY <1>a, <1>c
  <2>3. size' \in Nat
    BY <1>a DEF TypeOK, EnqueueLink
  <2>4. closed' \in BOOLEAN
    BY <1>a DEF TypeOK, EnqueueLink
  <2>5. /\ rear' \in Nodes \cup {NULL} /\ live' \subseteq Nodes
        /\ data' \in [Nodes -> Requests \cup {NULL}]
        /\ mutex' \in Threads \cup {NULL}
        /\ node' \in [Threads -> Nodes \cup {NULL}]
        /\ phase' \in Phases /\ calls' \in 0..MaxCalls
    BY <1>a DEF TypeOK, EnqueueLink
  <2>6. fate' \in [Requests -> {"fresh", "calling", "queued", "refused",
                                "delivered", "freed"}]
    BY <1>a DEF TypeOK, EnqueueLink
  <2> QED
    BY <1>b, <2>1, <2>2, <2>3, <2>4, <2>5, <2>6 DEF TypeOK
<1>2. ListShape'
  <2>1. CASE list = << >>
    <3>1. rear = NULL /\ Len(list) = 0
      BY <1>a, <2>1 DEF ListShape
    <3>2. front' = n /\ next' = next /\ rear' = n /\ size' = 1 /\ list' # << >>
      BY <1>a, <1>c, <2>1, <3>1 DEF EnqueueLink, ListShape
    <3> QED
      BY <1>a, <1>c, <3>1, <3>2 DEF ListShape
  <2>2. CASE list # << >>
    <3>1. /\ Len(list) > 0 /\ list' # << >>
          /\ rear = list[Len(list)] /\ rear \in Nodes /\ rear # NULL
      BY <1>a, <1>c, <2>2 DEF ListShape
    <3>2. /\ front' = front /\ next' = [next EXCEPT ![rear] = n]
          /\ rear' = n /\ size' = size + 1
      BY <3>1 DEF EnqueueLink
    <3>3. front' = list'[1] /\ size' = Len(list') /\ rear' = list'[Len(list')]
      BY <1>a, <1>c, <2>2, <3>1, <3>2 DEF ListShape
    <3>4. ASSUME NEW j \in 1..Len(list')
          PROVE  next'[list'[j]] = IF j = Len(list') THEN NULL ELSE list'[j + 1]
      <4>1. CASE j = Len(list) + 1
        BY <4>1, <1>a, <1>c, <1>f, <3>1, <3>2 DEF TypeOK
      <4>2. CASE j = Len(list)
        BY <4>2, <1>a, <1>c, <3>1, <3>2 DEF TypeOK
      <4>3. CASE j \in 1..(Len(list) - 1)
        <5>1. list[j] # rear
          BY <4>3, <1>a, <1>c, <3>1 DEF MemorySafe
        <5>2. next[list[j]] = list[j + 1]
          BY <4>3, <1>a, <1>c DEF ListShape
        <5> QED
          BY <4>3, <5>1, <5>2, <1>a, <1>c, <3>2 DEF TypeOK
      <4> QED
        BY <1>c, <4>1, <4>2, <4>3
    <3> QED
      BY <3>1, <3>3, <3>4 DEF ListShape
  <2> QED
    BY <2>1, <2>2
<1>3. MemorySafe'
  <2>1. Held' = Held \ {n}
    BY <1>a, <1>d, <1>e DEF Held, MemorySafe
  <2>2. Linked' = Linked \cup {n}
    BY <1>c DEF Linked
  <2>3. live' = live
    BY DEF EnqueueLink
  <2>4. \A j, k \in 1..Len(list') : list'[j] = list'[k] => j = k
    BY <1>a, <1>c, <1>f DEF MemorySafe
  <2>5. \A s, u \in Threads :
           pc'[s] \in Holding /\ pc'[u] \in Holding /\ node'[s] = node'[u] => s = u
    BY <1>a, <1>d, <1>e DEF MemorySafe
  <2>6. n \in Held
    BY <1>a DEF Held
  <2>7. live' = Linked' \cup Held' /\ Linked' \cap Held' = {}
    BY <1>a, <2>1, <2>2, <2>3, <2>6 DEF MemorySafe
  <2> QED
    BY <2>4, <2>5, <2>7 DEF MemorySafe
<1>4. HoldersHaveNode' /\ NodesCarryRequests'
  BY <1>d, <1>e DEF CoreInv, HeapInv, HoldersHaveNode, NodesCarryRequests,
                    EnqueueLink
<1>5. FreshNodesEnd'
  <2> SUFFICES ASSUME NEW s \in Threads, pc'[s] \in Enqueuing
               PROVE  next'[node'[s]] = NULL
    BY DEF FreshNodesEnd
  <2>1. s # t /\ pc[s] \in Enqueuing /\ node'[s] = node[s] /\ next[node[s]] = NULL
    BY <1>d, <1>e DEF CoreInv, HeapInv, FreshNodesEnd
  <2>2. node[s] \in Nodes /\ node[s] \in Held
    BY <2>1 DEF CoreInv, HeapInv, HoldersHaveNode, Held, Holding, Enqueuing
  <2>3. rear # NULL => rear \in Linked
    BY <1>a, <1>c DEF ListShape, Linked
  <2>4. node[s] # rear
    BY <1>a, <2>2, <2>3 DEF MemorySafe
  <2> QED
    BY <1>a, <2>1, <2>2, <2>4 DEF EnqueueLink, TypeOK
<1>6. MutualExclusion'
  BY <1>a, <1>b DEF CoreInv, MutualExclusion, Critical, EnqueueLink
<1>7. NoSleepOnClosed' /\ QuietDestroy'
  BY <1>a DEF EnqueueLink, NoSleepOnClosed, QuietDestroy
<1> QED
  BY <1>1, <1>2, <1>3, <1>4, <1>5, <1>6, <1>7 DEF CoreInv, HeapInv

\* What taking the first element of a nonempty list leaves.
LEMMA TailFacts ==
    ASSUME NEW S, NEW s \in Seq(S), s # << >>
    PROVE  /\ Tail(s) \in Seq(S) /\ Len(s) \in Nat \ {0} /\ s[1] \in S
           /\ Len(Tail(s)) = Len(s) - 1
           /\ \A j \in 1..(Len(s) - 1) : Tail(s)[j] = s[j + 1]
           /\ Tail(s) = << >> <=> Len(s) = 1
<1>1. Len(s) \in Nat \ {0} /\ s[1] \in S
  OBVIOUS
<1>2. Tail(s) \in Seq(S) /\ Len(Tail(s)) = Len(s) - 1
  OBVIOUS
<1>3. \A j \in 1..(Len(s) - 1) : Tail(s)[j] = s[j + 1]
  OBVIOUS
<1>4. Tail(s) = << >> <=> Len(Tail(s)) = 0
  BY <1>2, EmptySeq
<1> QED
  BY <1>1, <1>2, <1>3, <1>4

\* Taking the front node off the list takes it out of Linked, and only it.
LEMMA UnlinkFacts ==
    ASSUME TypeOK, MemorySafe, list # << >>, list' = Tail(list)
    PROVE  /\ Linked = Linked' \cup {list[1]} /\ list[1] \notin Linked'
           /\ \A j, k \in 1..Len(list') : list'[j] = list'[k] => j = k
<1>b. /\ Len(list) \in Nat \ {0} /\ Len(list') = Len(list) - 1
      /\ \A j \in 1..Len(list') : list'[j] = list[j + 1]
  BY TailFacts DEF TypeOK
<1>1. Linked = Linked' \cup {list[1]}
  <2>1. \A j \in 1..Len(list) :
           j = 1 \/ (j - 1 \in 1..Len(list') /\ list[j] = list'[j - 1])
    BY <1>b
  <2>2. \A j \in 1..Len(list') : j + 1 \in 1..Len(list)
    BY <1>b
  <2> QED
    BY <1>b, <2>1, <2>2 DEF Linked
<1>2. list[1] \notin Linked'
  <2> SUFFICES ASSUME NEW j \in 1..Len(list') PROVE list'[j] # list[1]
    BY DEF Linked
  <2>1. j + 1 \in 1..Len(list) /\ 1 \in 1..Len(list) /\ j + 1 # 1
    BY <1>b
  <2> QED
    BY <2>1, <1>b DEF MemorySafe
<1>3. ASSUME NEW j \in 1..Len(list'), NEW k \in 1..Len(list'), list'[j] = list'[k]
      PROVE  j = k
  <2>1. j + 1 \in 1..Len(list) /\ k + 1 \in 1..Len(list) /\ list[j + 1] = list[k + 1]
    BY <1>3, <1>b
  <2>2. j + 1 = k + 1
    BY <2>1 DEF MemorySafe
  <2> QED
    BY <2>2
<1> QED
  BY <1>1, <1>2, <1>3

\* queue_dequeue unlinks the front node, and now holds it.
LEMMA DequeueUnlinkStep ==
    ASSUME CoreInv, NEW t \in Threads, DequeueUnlink(t)
    PROVE  CoreInv'
<1> USE QueueAssumption DEF QueueAssumption
<1>a. /\ TypeOK /\ ListShape /\ MemorySafe
      /\ pc[t] = "deq_check" /\ pc[t] \notin Holding /\ phase = "open"
      /\ front # NULL /\ list # << >> /\ front = list[1] /\ front \in Nodes
  BY DEF CoreInv, HeapInv, ListShape, Holding, DequeueUnlink, QuietDestroy,
         TypeOK, Phases
<1>b. /\ list' = Tail(list) /\ list' \in Seq(Nodes) /\ Len(list) \in Nat \ {0}
      /\ Len(list') = Len(list) - 1
      /\ \A j \in 1..Len(list') : list'[j] = list[j + 1]
      /\ list' = << >> <=> Len(list) = 1
  BY <1>a, TailFacts DEF TypeOK, DequeueUnlink
<1>c. /\ pc' = [pc EXCEPT ![t] = "deq_unlock"] /\ pc \in [Threads -> Labels]
      /\ node' = [node EXCEPT ![t] = front]
      /\ node \in [Threads -> Nodes \cup {NULL}]
      /\ UNCHANGED <<closed, data, next, live, mutex, phase>>
  BY <1>a DEF TypeOK, DequeueUnlink, heapVars
<1>d. next[front] = IF Len(list) = 1 THEN NULL ELSE list[2]
  BY <1>a, <1>b DEF ListShape
<1>1. TypeOK'
  <2>1. closed' \in BOOLEAN
    BY <1>a, <1>c DEF TypeOK
  <2>2. front' \in Nodes \cup {NULL} /\ rear' \in Nodes \cup {NULL}
    BY <1>a DEF TypeOK, DequeueUnlink
  <2>4. size' \in Nat
    BY <1>a, <1>b DEF ListShape, DequeueUnlink
  <2>3. pc' \in [Threads -> Labels]
    BY <1>c DEF Labels
  <2> QED
    BY <1>a, <1>b, <1>c, <2>1, <2>2, <2>3, <2>4 DEF TypeOK, DequeueUnlink
<1>2. ListShape'
  <2>1. front' = IF list' = << >> THEN NULL ELSE list'[1]
    BY <1>a, <1>b, <1>d DEF DequeueUnlink
  <2>2. \A j \in 1..Len(list') :
           next'[list'[j]] = IF j = Len(list') THEN NULL ELSE list'[j + 1]
    BY <1>a, <1>b, <1>c DEF ListShape
  <2>3. rear' = IF list' = << >> THEN NULL ELSE list'[Len(list')]
    <3>1. CASE Len(list) = 1
      BY <3>1, <1>b, <1>d DEF DequeueUnlink
    <3>2. CASE Len(list) # 1
      <4>1. list[2] \in Nodes /\ next[front] # NULL
        BY <3>2, <1>a, <1>b, <1>d DEF TypeOK
      <4> QED
        BY <3>2, <4>1, <1>a, <1>b DEF DequeueUnlink, ListShape
    <3> QED
      BY <3>1, <3>2
  <2>4. size' = Len(list')
    BY <1>a, <1>b DEF DequeueUnlink, ListShape
  <2> QED
    BY <2>1, <2>2, <2>3, <2>4 DEF ListShape
<1>3. MemorySafe'
  <2>1. Held' = Held \cup {front}
    BY <1>a, <1>c DEF Held, Holding
  <2>2. /\ Linked = Linked' \cup {front} /\ front \notin Linked'
        /\ \A j, k \in 1..Len(list') : list'[j] = list'[k] => j = k
    BY <1>a, <1>b, UnlinkFacts
  <2>5. front \notin Held
    BY <1>a, <2>2 DEF MemorySafe
  <2>6. \A s, u \in Threads :
           pc'[s] \in Holding /\ pc'[u] \in Holding /\ node'[s] = node'[u] => s = u
    BY <1>a, <1>c, <2>5 DEF MemorySafe, Held
  <2>7. live' = Linked' \cup Held' /\ Linked' \cap Held' = {}
    BY <1>a, <1>c, <2>1, <2>2, <2>5 DEF MemorySafe
  <2> QED
    BY <2>2, <2>6, <2>7 DEF MemorySafe
<1>4. HoldersHaveNode' /\ NodesCarryRequests' /\ FreshNodesEnd'
  BY <1>a, <1>c DEF CoreInv, HeapInv, HoldersHaveNode, NodesCarryRequests,
                    FreshNodesEnd, Enqueuing
<1>5. MutualExclusion'
  BY <1>a, <1>c DEF CoreInv, MutualExclusion, Critical
<1>6. NoSleepOnClosed' /\ QuietDestroy'
  BY <1>a, <1>c DEF CoreInv, NoSleepOnClosed, QuietDestroy, At
<1> QED
  BY <1>1, <1>2, <1>3, <1>4, <1>5, <1>6 DEF CoreInv, HeapInv

\* The steps that change only the phase: malloc fails, queue_destroy begins
\* with nobody inside queue.c, and ends.
LEMMA PhaseSteps ==
    ASSUME CoreInv,
           (\E t \in Threads : EnqueueNoMemory(t)) \/ DestroyCall \/ DestroyFreeQueue
    PROVE  CoreInv'
<1>1. /\ UNCHANGED <<queueVars, heapVars, mutex, pc, node, fate, calls>>
      /\ phase' \in Phases
      /\ phase = "open" \/ (phase = "destroying" /\ phase' = "destroyed")
      /\ phase' \in {"destroying", "destroyed"} => \A t \in Threads : pc[t] = "idle"
  BY DEF EnqueueNoMemory, DestroyCall, DestroyFreeQueue, Phases, CoreInv, QuietDestroy
<1>2. TypeOK'
  <2>1. closed' \in BOOLEAN
    BY <1>1 DEF CoreInv, TypeOK, queueVars
  <2> QED
    BY <1>1, <2>1 DEF CoreInv, TypeOK, queueVars, heapVars
<1>3. HeapInv'
  <2>1. ListShape'
    BY <1>1 DEF CoreInv, HeapInv, ListShape, queueVars, heapVars
  <2>2. MemorySafe'
    <3>1. Linked' = Linked /\ Held' = Held
      BY <1>1 DEF Linked, Held, heapVars, queueVars
    <3>2. UNCHANGED <<live, list, pc, node>>
      BY <1>1 DEF heapVars, queueVars
    <3>3. MemorySafe
      BY DEF CoreInv, HeapInv
    <3> QED
      BY <3>1, <3>2, <3>3 DEF MemorySafe
  <2>3. HoldersHaveNode' /\ NodesCarryRequests' /\ FreshNodesEnd'
    BY <1>1 DEF CoreInv, HeapInv, HoldersHaveNode, NodesCarryRequests,
                FreshNodesEnd, heapVars
  <2> QED
    BY <2>1, <2>2, <2>3 DEF HeapInv
<1>4. MutualExclusion' /\ NoSleepOnClosed' /\ QuietDestroy'
  BY <1>1 DEF CoreInv, MutualExclusion, NoSleepOnClosed, At, QuietDestroy, queueVars
<1> QED
  BY <1>2, <1>3, <1>4 DEF CoreInv

\* One turn of queue_destroy's loop.
LEMMA DestroyFreeFrontStep ==
    ASSUME CoreInv, DestroyFreeFront
    PROVE  CoreInv'
<1> USE QueueAssumption DEF QueueAssumption
<1>a. /\ TypeOK /\ ListShape /\ MemorySafe
      /\ \A t \in Threads : pc[t] = "idle" /\ pc[t] \notin Holding
      /\ list # << >> /\ front = list[1] /\ front \in Nodes
      /\ Held = {} /\ Held' = {}
  BY DEF CoreInv, HeapInv, ListShape, Holding, Held, DestroyFreeFront,
         QuietDestroy, TypeOK
<1>t. list' = Tail(list)
  BY DEF DestroyFreeFront
<1>b. /\ list' \in Seq(Nodes) /\ Len(list) \in Nat \ {0}
      /\ Len(list') = Len(list) - 1
      /\ \A j \in 1..Len(list') : list'[j] = list[j + 1]
      /\ list' = << >> <=> Len(list) = 1
  BY <1>a, <1>t, TailFacts DEF TypeOK
<1>c. /\ UNCHANGED <<rear, size, closed, mutex, pc, node, phase, calls>>
      /\ phase = "destroying"
      /\ front' = next[front]
      /\ live' = live \ {front}
      /\ data' = [data EXCEPT ![front] = NULL]
      /\ next' = [next EXCEPT ![front] = NULL]
  BY DEF DestroyFreeFront, Free
<1>d. /\ Linked = Linked' \cup {front} /\ front \notin Linked'
      /\ \A j, k \in 1..Len(list') : list'[j] = list'[k] => j = k
  BY <1>a, <1>t, UnlinkFacts
<1>1. TypeOK'
  <2>1. closed' \in BOOLEAN
    BY <1>a, <1>c DEF TypeOK
  <2>2. fate' \in [Requests -> {"fresh", "calling", "queued", "refused",
                                "delivered", "freed"}]
    BY <1>a DEF TypeOK, DestroyFreeFront
  <2> QED
    BY <1>a, <1>b, <1>c, <2>1, <2>2 DEF TypeOK
<1>2. ListShape'
  <2>1. front' = IF list' = << >> THEN NULL ELSE list'[1]
    <3>1. next[front] = IF Len(list) = 1 THEN NULL ELSE list[2]
      BY <1>a, <1>b DEF ListShape
    <3> QED
      BY <3>1, <1>b, <1>c
  <2>2. ASSUME NEW j \in 1..Len(list')
        PROVE  next'[list'[j]] = IF j = Len(list') THEN NULL ELSE list'[j + 1]
    <3>1. list'[j] # front /\ list'[j] \in Nodes
      BY <1>b, <1>d DEF Linked
    <3>2. j + 1 \in 1..Len(list) /\ list'[j] = list[j + 1]
      BY <1>b
    <3>3. next[list[j + 1]] = IF j + 1 = Len(list) THEN NULL ELSE list[(j + 1) + 1]
      BY <3>2, <1>a DEF ListShape
    <3>4. next'[list'[j]] = next[list[j + 1]]
      BY <3>1, <3>2, <1>a, <1>c DEF TypeOK
    <3>5. j # Len(list') => j + 1 \in 1..Len(list') /\ list'[j + 1] = list[(j + 1) + 1]
      BY <1>b
    <3>6. j = Len(list') <=> j + 1 = Len(list)
      BY <1>b
    <3> QED
      BY <3>3, <3>4, <3>5, <3>6
  <2> QED
    BY <2>1, <2>2, <1>c DEF ListShape
<1>3. MemorySafe'
  BY <1>a, <1>c, <1>d DEF MemorySafe
<1>4. HoldersHaveNode' /\ FreshNodesEnd'
  BY <1>a, <1>c DEF HoldersHaveNode, FreshNodesEnd, Enqueuing
<1>5. NodesCarryRequests'
  BY <1>a, <1>c DEF CoreInv, HeapInv, NodesCarryRequests, TypeOK
<1>6. MutualExclusion' /\ NoSleepOnClosed' /\ QuietDestroy'
  BY <1>a, <1>c DEF CoreInv, MutualExclusion, NoSleepOnClosed, At, QuietDestroy
<1> QED
  BY <1>1, <1>2, <1>3, <1>4, <1>5, <1>6 DEF CoreInv, HeapInv

\* A step that changes nothing.
LEMMA StutterStep ==
    ASSUME CoreInv, UNCHANGED vars
    PROVE  CoreInv'
<1>1. TypeOK'
  BY DEF CoreInv, TypeOK, vars, queueVars, heapVars
<1>2. HeapInv'
  BY HeapUntouched DEF CoreInv, vars, queueVars, heapVars
<1>3. MutualExclusion' /\ NoSleepOnClosed' /\ QuietDestroy'
  BY DEF CoreInv, MutualExclusion, NoSleepOnClosed, At, QuietDestroy, vars, queueVars
<1> QED
  BY <1>1, <1>2, <1>3 DEF CoreInv

\* Every step of every operation preserves the inductive invariant.
LEMMA NextInv == CoreInv /\ [Next]_vars => CoreInv'
<1> SUFFICES ASSUME CoreInv, [Next]_vars PROVE CoreInv'
  OBVIOUS
<1> USE DEF Labels, Critical, Holding, Enqueuing
<1>1. ASSUME NEW t \in Threads, queue_enqueue(t) PROVE CoreInv'
  <2>1. ASSUME NEW r \in Requests, NEW n \in Nodes, EnqueueAlloc(t, r, n)
        PROVE  CoreInv'
    BY <2>1, EnqueueAllocStep
  <2>2. CASE EnqueueNoMemory(t)
    BY <2>2, PhaseSteps
  <2>3. CASE Lock(t, "enq_lock", "enq_body")
    BY <2>3, LockStep
  <2>4. CASE EnqueueRefuse(t)
    BY <2>4, EnqueueRefuseStep
  <2>5. CASE EnqueueLink(t)
    BY <2>5, EnqueueLinkStep
  <2> QED
    BY <1>1, <2>1, <2>2, <2>3, <2>4, <2>5 DEF queue_enqueue
<1>2. ASSUME NEW t \in Threads, queue_dequeue(t) PROVE CoreInv'
  <2>1. CASE DequeueCall(t)
    BY <2>1, CallStep DEF DequeueCall
  <2>2. CASE Lock(t, "deq_lock", "deq_check") \/ Lock(t, "woken", "deq_check")
    BY <2>2, LockStep
  <2>3. CASE DequeueWait(t)
    BY <2>3, UnlockStep DEF DequeueWait
  <2>4. CASE SpuriousWakeup(t) \/ DequeueNull(t)
    BY <2>4, PcSteps
  <2>5. CASE Unlock(t, "null_unlock", "idle") \/ Unlock(t, "deq_unlock", "deq_free")
    BY <2>5, UnlockStep
  <2>6. CASE DequeueUnlink(t)
    BY <2>6, DequeueUnlinkStep
  <2>7. CASE DequeueReturn(t)
    BY <2>7, DequeueReturnStep
  <2> QED
    BY <1>2, <2>1, <2>2, <2>3, <2>4, <2>5, <2>6, <2>7 DEF queue_dequeue
<1>3. ASSUME NEW t \in Threads,
             queue_close(t) \/ queue_isclosed_or_size(t) \/ FinalUnlock(t)
      PROVE  CoreInv'
  <2>1. CASE CloseCall(t) \/ PeekCall(t)
    BY <2>1, CallStep DEF CloseCall, PeekCall
  <2>2. CASE Lock(t, "close_lock", "close_body") \/ Lock(t, "peek_lock", "peek_body")
    BY <2>2, LockStep
  <2>3. CASE CloseMark(t)
    BY <2>3, PcSteps
  <2>4. CASE Unlock(t, "peek_body", "idle") \/ FinalUnlock(t)
    BY <2>4, UnlockStep DEF FinalUnlock
  <2> QED
    BY <1>3, <2>1, <2>2, <2>3, <2>4 DEF queue_close, queue_isclosed_or_size
<1>4. CASE queue_destroy
  BY <1>4, PhaseSteps, DestroyFreeFrontStep DEF queue_destroy
<1>5. CASE UNCHANGED vars
  BY <1>5, StutterStep
<1> QED
  BY <1>1, <1>2, <1>3, <1>4, <1>5 DEF Next, ThreadStep

\* This part of the invariant holds in every reachable state of queue.c.
THEOREM CoreInvariant == Spec => []CoreInv
<1>1. Init => CoreInv
  BY InitInv
<1>2. CoreInv /\ [Next]_vars => CoreInv'
  BY NextInv
<1> QED
  BY <1>1, <1>2, PTL DEF Spec

\* On every path of every operation of queue.c, error returns included, the
\* mutex is held by exactly the thread between LOCK_MTX and UNLOCK_MTX.
THEOREM MutexDiscipline == Spec => []MutualExclusion
<1>1. CoreInv => MutualExclusion
  BY DEF CoreInv
<1> QED
  BY <1>1, CoreInvariant, PTL

\* front, rear, size and the next pointers always describe the list of the
\* nodes linked by queue_enqueue and not yet unlinked.
THEOREM ListShapeHolds == Spec => []ListShape
<1>1. CoreInv => ListShape
  BY DEF CoreInv, HeapInv
<1> QED
  BY <1>1, CoreInvariant, PTL

\* queue.c neither uses a freed node, nor frees one twice, nor leaks one.
THEOREM MemorySafety == Spec => []MemorySafe
<1>1. CoreInv => MemorySafe
  BY DEF CoreInv, HeapInv
<1> QED
  BY <1>1, CoreInvariant, PTL

\* After queue_close no thread sleeps in queue_dequeue.
THEOREM CloseWakesAll == Spec => []NoSleepOnClosed
<1>1. CoreInv => NoSleepOnClosed
  BY DEF CoreInv
<1> QED
  BY <1>1, CoreInvariant, PTL

\* The variables of queue.c keep their types.
THEOREM TypeCorrect == Spec => []TypeOK
<1>1. CoreInv => TypeOK
  BY DEF CoreInv
<1> QED
  BY <1>1, CoreInvariant, PTL

\* queue_close is final: afterwards no step of any operation lengthens the list.
THEOREM CloseIsFinal == Spec => ClosedNeverGrows
<1>1. CoreInv /\ [Next]_vars => [closed => closed' /\ Len(list') <= Len(list)]_vars
  <2> SUFFICES ASSUME CoreInv, Next, closed
               PROVE  closed' /\ Len(list') <= Len(list)
    BY DEF vars
  <2>a. TypeOK /\ ListShape
    BY DEF CoreInv, HeapInv
  <2>1. CASE UNCHANGED list
    <3>1. closed'
      BY DEF Next, ThreadStep, queue_enqueue, queue_dequeue, queue_close,
             queue_isclosed_or_size, FinalUnlock, queue_destroy, EnqueueAlloc,
             EnqueueNoMemory, EnqueueRefuse, EnqueueLink, LinkNode, DequeueCall,
             DequeueWait, SpuriousWakeup, DequeueNull, DequeueUnlink,
             DequeueReturn, CloseCall, CloseMark, PeekCall, DestroyCall,
             DestroyFreeFront, DestroyFreeQueue, Lock, Unlock, queueVars
    <3>2. Len(list) \in Nat /\ list' = list
      BY <2>a, <2>1 DEF TypeOK
    <3> QED
      BY <3>1, <3>2
  <2>2. CASE list' # list
    <3>1. (\E t \in Threads : DequeueUnlink(t)) \/ DestroyFreeFront
      BY <2>2 DEF Next, ThreadStep, queue_enqueue, queue_dequeue, queue_close,
             queue_isclosed_or_size, FinalUnlock, queue_destroy, EnqueueAlloc,
             EnqueueNoMemory, EnqueueRefuse, EnqueueLink, LinkNode, DequeueCall,
             DequeueWait, SpuriousWakeup, DequeueNull, 
             DequeueReturn, CloseCall, CloseMark, PeekCall, DestroyCall,
             DestroyFreeQueue, Lock, Unlock, queueVars
    <3>2. front # NULL /\ list' = Tail(list) /\ closed' = closed
      BY <3>1 DEF DequeueUnlink, DestroyFreeFront
    <3>3. list # << >>
      BY <2>a, <3>2 DEF ListShape
    <3>4. Len(list) \in Nat /\ Len(list') = Len(list) - 1
      BY <2>a, <3>2, <3>3, TailFacts DEF TypeOK
    <3> QED
      BY <3>2, <3>4
  <2> QED
    BY <2>1, <2>2
<1> QED
  BY <1>1, CoreInvariant, PTL DEF Spec, ClosedNeverGrows

----------------------------------------------------------------------------
(* One signal per request is enough.                                       *)

\* The threads that are awake in queue_dequeue and about to look at the list.
Looking == {t \in Threads : pc[t] \in {"woken", "deq_check"}}

\* The set of looking threads is finite, so its size is a number.
LEMMA LookingFinite ==
    /\ IsFiniteSet(Looking) /\ Cardinality(Looking) \in Nat
    /\ IsFiniteSet(Looking') /\ Cardinality(Looking') \in Nat
<1>1. Looking \subseteq Threads /\ Looking' \subseteq Threads
  BY DEF Looking
<1> QED
  BY <1>1, QueueAssumption, FS_Subset, FS_CardinalityType DEF QueueAssumption

\* A step that makes no thread stop looking, lengthens no list and puts no
\* thread to sleep preserves NoLostWakeup.
LEMMA NobodyStopsLooking ==
    ASSUME TypeOK, NoLostWakeup, UNCHANGED list, Looking \subseteq Looking',
           At("waiting")' # {} => At("waiting") # {}
    PROVE  NoLostWakeup'
<1>1. Cardinality(Looking) <= Cardinality(Looking')
  BY LookingFinite, FS_Subset
<1>2. Len(list) \in Nat /\ Len(list') = Len(list)
  BY DEF TypeOK
<1> QED
  BY <1>1, <1>2, LookingFinite DEF NoLostWakeup, Looking

\* Every step of every operation preserves NoLostWakeup.
LEMMA NextWakeup == CoreInv /\ NoLostWakeup /\ [Next]_vars => NoLostWakeup'
<1> SUFFICES ASSUME CoreInv, NoLostWakeup, [Next]_vars PROVE NoLostWakeup'
  OBVIOUS
<1>a. TypeOK /\ ListShape /\ pc \in [Threads -> Labels]
  BY DEF CoreInv, HeapInv, TypeOK
\* An empty list needs nobody.
<1>b. list' = << >> => NoLostWakeup'
  <2> SUFFICES ASSUME list' = << >> PROVE NoLostWakeup'
    OBVIOUS
  <2>1. Len(list') = 0
    OBVIOUS
  <2> QED
    BY <2>1, LookingFinite DEF NoLostWakeup, Looking
<1>1. ASSUME NEW t \in Threads, NEW from \in Labels \ {"woken", "deq_check", "waiting"},
             NEW to \in Labels \ {"waiting"},
             pc[t] = from, pc' = [pc EXCEPT ![t] = to], UNCHANGED list
      PROVE  NoLostWakeup'
  <2>1. Looking \subseteq Looking' /\ (At("waiting")' # {} => At("waiting") # {})
    BY <1>1, <1>a DEF Looking, At
  <2> QED
    BY <1>1, <1>a, <2>1, NobodyStopsLooking
<1>2. ASSUME NEW t \in Threads, EnqueueLink(t) PROVE NoLostWakeup'
  <2>1. CASE At("waiting") = {}
    <3>1. At("waiting")' = {}
      BY <1>2, <1>a, <2>1 DEF EnqueueLink, Signal, At
    <3> QED
      BY <3>1 DEF NoLostWakeup
  <2>2. CASE At("waiting") # {}
    <3>1. PICK w \in At("waiting") :
             pc' = [pc EXCEPT ![t] = "unlock", ![w] = "woken"]
      BY <1>2, <2>2 DEF EnqueueLink, Signal
    <3>2. pc[t] = "enq_body" /\ pc[w] = "waiting" /\ w \in Threads
      BY <1>2, <3>1 DEF EnqueueLink, At
    <3>3. Looking' = Looking \cup {w} /\ w \notin Looking
      BY <1>a, <3>1, <3>2 DEF Looking
    <3>4. Cardinality(Looking') = Cardinality(Looking) + 1
      BY <3>3, LookingFinite, FS_AddElement
    <3>5. Len(list) \in Nat /\ Len(list') = Len(list) + 1
      BY <1>2, <1>a DEF EnqueueLink, LinkNode, TypeOK
    <3>6. Len(list) <= Cardinality(Looking)
      BY <2>2 DEF NoLostWakeup, Looking
    <3>7. Len(list') <= Cardinality(Looking')
      BY <3>4, <3>5, <3>6, LookingFinite
    <3> QED
      BY <3>7 DEF NoLostWakeup, Looking
  <2> QED
    BY <2>1, <2>2
<1>3. ASSUME NEW t \in Threads, DequeueUnlink(t) PROVE NoLostWakeup'
  <2>1. Looking' = Looking \ {t} /\ t \in Looking
    BY <1>3, <1>a DEF DequeueUnlink, Looking
  <2>2. Cardinality(Looking') = Cardinality(Looking) - 1
    BY <2>1, LookingFinite, FS_RemoveElement
  <2>3. list # << >> /\ list' = Tail(list)
    BY <1>3, <1>a DEF DequeueUnlink, ListShape
  <2>4. Len(list) \in Nat \ {0} /\ Len(list') = Len(list) - 1
    BY <1>a, <2>3, TailFacts DEF TypeOK
  <2>5. At("waiting")' = At("waiting")
    BY <1>3, <1>a DEF DequeueUnlink, At
  <2>6. At("waiting") # {} => Len(list') <= Cardinality(Looking')
    BY <2>2, <2>4, LookingFinite DEF NoLostWakeup, Looking
  <2> QED
    BY <2>5, <2>6 DEF NoLostWakeup, Looking
<1>4. ASSUME NEW t \in Threads, Lock(t, "woken", "deq_check") \/ SpuriousWakeup(t)
      PROVE  NoLostWakeup'
  <2>1. Looking \subseteq Looking' /\ (At("waiting")' # {} => At("waiting") # {})
    BY <1>4, <1>a DEF Lock, SpuriousWakeup, Looking, At
  <2>2. UNCHANGED list
    BY <1>4 DEF Lock, SpuriousWakeup, queueVars
  <2> QED
    BY <1>a, <2>1, <2>2, NobodyStopsLooking
<1>5. ASSUME NEW t \in Threads, DequeueWait(t) \/ DequeueNull(t) PROVE NoLostWakeup'
  <2>1. list = << >> /\ UNCHANGED list
    <3>1. front = NULL /\ UNCHANGED list
      BY <1>5 DEF DequeueWait, DequeueNull, Unlock, queueVars
    <3>2. ASSUME list # << >> PROVE front \in Nodes
      BY <3>2, <1>a, TailFacts DEF TypeOK, ListShape
    <3> QED
      BY <3>1, <3>2, QueueAssumption DEF QueueAssumption
  <2> QED
    BY <2>1, <1>b
<1>6. ASSUME NEW t \in Threads, CloseMark(t) PROVE NoLostWakeup'
  <2>1. At("waiting")' = {}
    BY <1>6 DEF CloseMark, Broadcast, At
  <2> QED
    BY <2>1 DEF NoLostWakeup
<1>7. CASE UNCHANGED <<pc, list>>
  BY <1>7, <1>a, NobodyStopsLooking DEF Looking, At
<1>8. CASE DestroyFreeFront
  <2>1. At("waiting")' = {}
    BY <1>8, <1>a DEF CoreInv, DestroyFreeFront, QuietDestroy, At
  <2> QED
    BY <2>1 DEF NoLostWakeup
<1>9. ASSUME NEW t \in Threads, queue_enqueue(t) PROVE NoLostWakeup'
  <2>1. CASE EnqueueLink(t)
    BY <2>1, <1>2
  <2>2. CASE EnqueueNoMemory(t)
    BY <2>2, <1>7 DEF EnqueueNoMemory, queueVars
  <2>3. CASE ~EnqueueLink(t) /\ ~EnqueueNoMemory(t)
    BY <1>9, <2>3, <1>1 DEF queue_enqueue, EnqueueAlloc, Call, Lock,
       EnqueueRefuse, queueVars, Labels
  <2> QED
    BY <2>1, <2>2, <2>3
<1>10. ASSUME NEW t \in Threads, queue_dequeue(t) PROVE NoLostWakeup'
  <2>1. CASE DequeueCall(t) \/ Lock(t, "deq_lock", "deq_check")
    BY <2>1, <1>1 DEF DequeueCall, Call, Lock, queueVars, Labels
  <2>2. CASE Unlock(t, "null_unlock", "idle") \/ Unlock(t, "deq_unlock", "deq_free")
    BY <2>2, <1>1 DEF Unlock, queueVars, Labels
  <2>3. CASE DequeueReturn(t)
    BY <2>3, <1>1 DEF DequeueReturn, queueVars, Labels
  <2> QED
    BY <1>10, <2>1, <2>2, <2>3, <1>3, <1>4, <1>5 DEF queue_dequeue
<1>11. ASSUME NEW t \in Threads,
              queue_close(t) \/ queue_isclosed_or_size(t) \/ FinalUnlock(t)
       PROVE  NoLostWakeup'
  <2>1. CASE CloseMark(t)
    BY <2>1, <1>6
  <2>2. CASE ~CloseMark(t)
    BY <1>11, <2>2, <1>1 DEF queue_close, queue_isclosed_or_size, FinalUnlock,
       CloseCall, PeekCall, Call, Lock, Unlock, queueVars, Labels
  <2> QED
    BY <2>1, <2>2
<1>12. CASE queue_destroy
  BY <1>12, <1>7, <1>8 DEF queue_destroy, DestroyCall, DestroyFreeQueue, queueVars
<1>13. CASE UNCHANGED vars
  BY <1>13, <1>7 DEF vars, queueVars
<1> QED
  BY <1>9, <1>10, <1>11, <1>12, <1>13 DEF Next, ThreadStep

\* One pthread_cond_signal per queue_enqueue loses no wake-up: for any number
\* of dequeuers, while one sleeps every queued request has an awake thread.
THEOREM WakeupsNotLost == Spec => []NoLostWakeup
<1>1. Init => NoLostWakeup
  BY DEF Init, NoLostWakeup, At
<1>2. CoreInv /\ NoLostWakeup /\ [Next]_vars => NoLostWakeup'
  BY NextWakeup
<1> QED
  BY <1>1, <1>2, CoreInvariant, PTL DEF Spec

---------------------------------------------------------------------------
\* The queue as FifoQueue sees it: the requests of the linked nodes, and the result
\* a thread inside queue_dequeue has fixed.
Buf == [i \in 1..Len(list) |-> data[list[i]]]
Result(t) == IF pc[t] \in {"deq_unlock", "deq_free"} THEN <<data[node[t]]>>
             ELSE IF pc[t] = "null_unlock" THEN <<NULL>>
             ELSE << >>

\* The requests in the queue.
LEMMA BufTyped ==
    ASSUME TypeOK, MemorySafe, NodesCarryRequests
    PROVE  Buf \in Seq(Requests) /\ Len(Buf) = Len(list) /\ Len(list) \in Nat
           /\ \A j \in 1..Len(list) : Buf[j] = data[list[j]]
<1>1. Len(list) \in Nat /\ \A j \in 1..Len(list) : list[j] \in Nodes
  BY ElementOfSeq DEF TypeOK
<1>2. \A j \in 1..Len(list) : data[list[j]] \in Requests
  BY DEF MemorySafe, Linked, NodesCarryRequests
<1> QED
  BY <1>1, <1>2, IsASeq DEF Buf


-----------------------------------------------------------------------------
(* Where the requests are: FatesKept *)

\* What the invariant says of the node a thread holds.
LEMMA HeldFacts ==
    ASSUME CoreInv, NEW t \in Threads, pc[t] \in Holding
    PROVE  /\ node[t] \in Nodes /\ node[t] \in live /\ node[t] \notin Linked
           /\ data[node[t]] \in Requests
           /\ \A u \in Threads \ {t} : pc[u] \in Holding => node[u] # node[t]
<1>1. node[t] \in Held
  BY DEF Held
<1>2. node[t] \in Nodes /\ node[t] \in live /\ node[t] \notin Linked
  BY <1>1 DEF CoreInv, HeapInv, MemorySafe, HoldersHaveNode
<1>3. data[node[t]] \in Requests
  BY <1>2 DEF CoreInv, HeapInv, NodesCarryRequests
<1>4. \A u \in Threads \ {t} : pc[u] \in Holding => node[u] # node[t]
  BY DEF CoreInv, HeapInv, MemorySafe
<1> QED
  BY <1>2, <1>3, <1>4

\* What it says of a linked node.
LEMMA LinkedFacts ==
    ASSUME CoreInv, NEW j \in 1..Len(list)
    PROVE  /\ list[j] \in Nodes /\ list[j] \in live /\ list[j] \in Linked
           /\ data[list[j]] \in Requests
<1>1. list[j] \in Linked
  BY DEF Linked
<1>2. list[j] \in live /\ live \subseteq Nodes
  BY <1>1 DEF CoreInv, HeapInv, MemorySafe, TypeOK
<1> QED
  BY <1>1, <1>2 DEF CoreInv, HeapInv, NodesCarryRequests

\* A request that no node carries yet is fresh, and the others are not.
LEMMA LiveFates ==
    ASSUME CoreInv, FatesKept, NEW n \in live
    PROVE  data[n] \in Requests /\ fate[data[n]] \in {"calling", "queued"}
<1>1. data[n] \in Requests
  BY DEF CoreInv, HeapInv, NodesCarryRequests
<1>2. CASE n \in Linked
  BY <1>1, <1>2 DEF Linked, FatesKept
<1>3. CASE n \in Held
  BY <1>1, <1>3 DEF Held, FatesKept
<1> QED
  BY <1>1, <1>2, <1>3 DEF CoreInv, HeapInv, MemorySafe

\* Steps that touch neither nodes nor requests.
LEMMA FatesUntouched ==
    ASSUME FatesKept, UNCHANGED <<list, data, live, node, fate>>,
           \A t \in Threads : /\ pc'[t] \in Enqueuing <=> pc[t] \in Enqueuing
                              /\ pc'[t] \in Holding \ Enqueuing <=> pc[t] \in Holding \ Enqueuing
    PROVE  FatesKept'
<1>1. \A t \in Threads : pc'[t] \in Enqueuing => fate'[data'[node'[t]]] = "calling"
  BY DEF FatesKept
<1>2. \A t \in Threads : pc'[t] \in Holding \ Enqueuing => fate'[data'[node'[t]]] = "queued"
  BY DEF FatesKept
<1>3. \A m, n \in live' : data'[m] = data'[n] => m = n
  BY DEF FatesKept
<1>4. \A j \in 1..Len(list') : fate'[data'[list'[j]]] = "queued"
  BY DEF FatesKept
<1> QED
  BY <1>1, <1>2, <1>3, <1>4 DEF FatesKept

\* queue_enqueue's allocation: the new node carries a request no node carried.
LEMMA AllocFates ==
    ASSUME CoreInv, FatesKept, NEW t \in Threads, NEW r \in Requests, NEW n \in Nodes,
           EnqueueAlloc(t, r, n)
    PROVE  FatesKept'
<1>1. /\ pc[t] = "idle" /\ pc' = [pc EXCEPT ![t] = "enq_lock"] /\ fate[r] = "fresh"
      /\ fate' = [fate EXCEPT ![r] = "calling"] /\ n \notin live /\ live' = live \cup {n}
      /\ data' = [data EXCEPT ![n] = r] /\ node' = [node EXCEPT ![t] = n] /\ UNCHANGED list
  BY DEF EnqueueAlloc, Call, Malloc, queueVars
<1>2. \A m \in live : data[m] # r /\ data'[m] = data[m] /\ fate'[data'[m]] = fate[data[m]]
  <2> TAKE m \in live
  <2>1. data[m] \in Requests /\ data[m] # r
    BY <1>1, LiveFates
  <2>2. data'[m] = data[m]
    BY <1>1 DEF CoreInv, TypeOK
  <2> QED
    BY <1>1, <2>1, <2>2 DEF CoreInv, TypeOK
<1>3. data'[n] = r /\ fate'[r] = "calling" /\ node'[t] = n /\ pc'[t] = "enq_lock"
  BY <1>1 DEF CoreInv, TypeOK
<1>4. \A u \in Threads \ {t} : pc'[u] = pc[u] /\ node'[u] = node[u]
  BY <1>1 DEF CoreInv, TypeOK
<1>5. \A u \in Threads : pc[u] \in Holding => node[u] \in live
  BY HeldFacts
<1>6. Enqueuing \subseteq Holding /\ "enq_lock" \in Enqueuing
  BY DEF Enqueuing, Holding
<1>7. \A u \in Threads : pc'[u] \in Enqueuing => fate'[data'[node'[u]]] = "calling"
  BY <1>2, <1>3, <1>4, <1>5, <1>6 DEF FatesKept
<1>8. \A u \in Threads : pc'[u] \in Holding \ Enqueuing => fate'[data'[node'[u]]] = "queued"
  BY <1>2, <1>3, <1>4, <1>5, <1>6 DEF FatesKept
<1>9. \A j \in 1..Len(list') : fate'[data'[list'[j]]] = "queued"
  BY <1>1, <1>2, LinkedFacts DEF FatesKept
<1>10. \A k, m \in live' : data'[k] = data'[m] => k = m
  BY <1>1, <1>2, <1>3 DEF FatesKept
<1> QED
  BY <1>7, <1>8, <1>9, <1>10 DEF FatesKept

\* A thread frees the node it holds: its request goes where nobody looks again.
LEMMA FreeFates ==
    ASSUME CoreInv, FatesKept, NEW t \in Threads, pc[t] \in Holding, Free(node[t]),
           NEW f, fate' = [fate EXCEPT ![data[node[t]]] = f],
           NEW label \in {"unlock", "idle"}, pc' = [pc EXCEPT ![t] = label],
           node' = [node EXCEPT ![t] = NULL], UNCHANGED list
    PROVE  /\ FatesKept'
           /\ \A m \in live \ {node[t]} : data'[m] = data[m] /\ fate'[data'[m]] = fate[data[m]]
<1>1. /\ node[t] \in live /\ node[t] \notin Linked /\ data[node[t]] \in Requests
      /\ \A u \in Threads \ {t} : pc[u] \in Holding => node[u] # node[t]
  BY HeldFacts
<1>2. live' = live \ {node[t]} /\ data' = [data EXCEPT ![node[t]] = NULL]
  BY DEF Free
<1>3. \A m \in live \ {node[t]} : data'[m] = data[m] /\ fate'[data'[m]] = fate[data[m]]
  <2> TAKE m \in live \ {node[t]}
  <2>1. data[m] # data[node[t]] /\ data[m] \in Requests
    BY <1>1, LiveFates DEF FatesKept
  <2>2. data'[m] = data[m]
    BY <1>2 DEF CoreInv, TypeOK
  <2> QED
    BY <2>1, <2>2 DEF CoreInv, TypeOK
<1>4. pc'[t] = label /\ \A u \in Threads \ {t} : pc'[u] = pc[u] /\ node'[u] = node[u]
  BY DEF CoreInv, TypeOK
<1>5. \A u \in Threads \ {t} : pc[u] \in Holding => node[u] \in live \ {node[t]}
  BY <1>1, HeldFacts
<1>6. Enqueuing \subseteq Holding /\ label \notin Holding
  BY DEF Enqueuing, Holding
<1>7. \A u \in Threads : pc'[u] \in Enqueuing => fate'[data'[node'[u]]] = "calling"
  BY <1>3, <1>4, <1>5, <1>6 DEF FatesKept
<1>8. \A u \in Threads : pc'[u] \in Holding \ Enqueuing => fate'[data'[node'[u]]] = "queued"
  BY <1>3, <1>4, <1>5, <1>6 DEF FatesKept
<1>9. \A j \in 1..Len(list') : fate'[data'[list'[j]]] = "queued"
  <2>1. \A j \in 1..Len(list) : list[j] \in live \ {node[t]}
    BY <1>1, LinkedFacts
  <2> QED
    BY <1>3, <2>1 DEF FatesKept
<1>10. \A k, m \in live' : data'[k] = data'[m] => k = m
  BY <1>2, <1>3 DEF FatesKept
<1> QED
  BY <1>3, <1>7, <1>8, <1>9, <1>10 DEF FatesKept

\* queue_enqueue links its node: its request is the queue's now.
LEMMA LinkFates ==
    ASSUME CoreInv, FatesKept, NEW t \in Threads, EnqueueLink(t)
    PROVE  FatesKept'
<1>1. /\ pc[t] = "enq_body" /\ list' = Append(list, node[t]) /\ UNCHANGED <<data, live>>
      /\ fate' = [fate EXCEPT ![data[node[t]]] = "queued"]
      /\ node' = [node EXCEPT ![t] = NULL] /\ Signal(t, "unlock")
  BY DEF EnqueueLink, LinkNode, HandOver
<1>2. pc[t] \in Holding /\ Enqueuing \subseteq Holding
  BY <1>1 DEF Holding, Enqueuing
<1>3. /\ node[t] \in live /\ node[t] \in Nodes /\ data[node[t]] \in Requests
      /\ \A u \in Threads \ {t} : pc[u] \in Holding => node[u] # node[t] /\ node[u] \in live
  BY <1>2, HeldFacts
<1>4. \A m \in live : fate'[data[m]] = IF m = node[t] THEN "queued" ELSE fate[data[m]]
  <2> TAKE m \in live
  <2>1. data[m] \in Requests /\ (m # node[t] => data[m] # data[node[t]])
    BY <1>3, LiveFates DEF FatesKept
  <2> QED
    BY <1>1, <1>3, <2>1 DEF CoreInv, TypeOK
<1>5. /\ pc'[t] = "unlock"
      /\ \A u \in Threads \ {t} : pc'[u] = pc[u] \/ (pc[u] = "waiting" /\ pc'[u] = "woken")
  BY <1>1, SignalEffect DEF CoreInv
<1>6. \A u \in Threads \ {t} : node'[u] = node[u]
  BY <1>1 DEF CoreInv, TypeOK
<1>7. \A u \in Threads : pc'[u] \in Holding => u # t /\ pc'[u] = pc[u]
  BY <1>5 DEF Holding
<1>8. \A u \in Threads : pc'[u] \in Enqueuing => fate'[data'[node'[u]]] = "calling"
  BY <1>1, <1>2, <1>3, <1>4, <1>6, <1>7 DEF FatesKept
<1>9. \A u \in Threads : pc'[u] \in Holding \ Enqueuing => fate'[data'[node'[u]]] = "queued"
  BY <1>1, <1>3, <1>4, <1>6, <1>7 DEF FatesKept
<1>10. \A j \in 1..Len(list') : fate'[data'[list'[j]]] = "queued"
  <2> TAKE j \in 1..Len(list')
  <2>1. Len(list) \in Nat /\ Len(list') = Len(list) + 1
        /\ list'[Len(list) + 1] = node[t] /\ (j <= Len(list) => list'[j] = list[j])
    BY <1>1, <1>3, AppendProperties DEF CoreInv, TypeOK
  <2>2. CASE j = Len(list) + 1
    BY <1>1, <1>3, <1>4, <2>1, <2>2
  <2>3. CASE j # Len(list) + 1
    <3>1. j \in 1..Len(list) /\ list'[j] = list[j]
      BY <2>1, <2>3
    <3>2. list[j] \in live /\ fate[data[list[j]]] = "queued"
      BY <3>1, LinkedFacts DEF FatesKept
    <3> QED
      BY <1>1, <1>4, <3>1, <3>2
  <2> QED
    BY <2>2, <2>3
<1>11. \A k, m \in live' : data'[k] = data'[m] => k = m
  BY <1>1 DEF FatesKept
<1> QED
  BY <1>8, <1>9, <1>10, <1>11 DEF FatesKept

\* The front node of a nonempty list.
LEMMA FrontFacts ==
    ASSUME CoreInv, front # NULL
    PROVE  /\ list # << >> /\ front = list[1] /\ front \in Nodes /\ front \in live /\ 1 \in 1..Len(list)
           /\ data[front] \in Requests
           /\ Len(list) \in Nat /\ Len(Tail(list)) = Len(list) - 1
           /\ \A j \in 1..Len(Tail(list)) : /\ j + 1 \in 1..Len(list) /\ Tail(list)[j] = list[j + 1]
                                            /\ Tail(list)[j] \in live \ {front}
<1>1. list # << >> /\ front = list[1] /\ list \in Seq(Nodes)
  BY DEF CoreInv, HeapInv, ListShape, TypeOK
<1>2. /\ Len(list) \in Nat \ {0} /\ Len(Tail(list)) = Len(list) - 1
      /\ \A j \in 1..(Len(list) - 1) : Tail(list)[j] = list[j + 1]
  BY <1>1, TailFacts
<1>3. 1 \in 1..Len(list) /\ \A j \in 1..Len(Tail(list)) : j + 1 \in 1..Len(list) /\ j + 1 # 1
  BY <1>2
<1>4. \A j \in 1..Len(Tail(list)) : Tail(list)[j] \in live \ {front}
  <2> TAKE j \in 1..Len(Tail(list))
  <2>1. Tail(list)[j] = list[j + 1] /\ list[j + 1] \in live
    BY <1>2, <1>3, LinkedFacts
  <2>2. list[j + 1] # list[1]
    BY <1>3 DEF CoreInv, HeapInv, MemorySafe
  <2> QED
    BY <1>1, <2>1, <2>2
<1>5. front \in Nodes /\ front \in live /\ data[front] \in Requests
  BY <1>1, <1>3, LinkedFacts
<1> QED
  BY <1>1, <1>2, <1>3, <1>4, <1>5

\* queue_dequeue takes the front node into its hands.
LEMMA UnlinkFates ==
    ASSUME CoreInv, FatesKept, NEW t \in Threads, DequeueUnlink(t)
    PROVE  FatesKept'
<1>1. /\ pc[t] = "deq_check" /\ front # NULL /\ list' = Tail(list) /\ UNCHANGED <<data, live, fate>>
      /\ node' = [node EXCEPT ![t] = front] /\ pc' = [pc EXCEPT ![t] = "deq_unlock"]
  BY DEF DequeueUnlink, heapVars
<1>2. /\ front = list[1] /\ 1 \in 1..Len(list)
      /\ \A j \in 1..Len(list') : j + 1 \in 1..Len(list) /\ list'[j] = list[j + 1]
  BY <1>1, FrontFacts
<1>3. /\ pc'[t] = "deq_unlock" /\ node'[t] = front
      /\ \A u \in Threads \ {t} : pc'[u] = pc[u] /\ node'[u] = node[u]
  BY <1>1 DEF CoreInv, TypeOK
<1>4. "deq_unlock" \notin Enqueuing
  BY DEF Enqueuing
<1>5. fate[data[front]] = "queued"
  BY <1>2 DEF FatesKept
<1>6. \A u \in Threads : pc'[u] \in Enqueuing => fate'[data'[node'[u]]] = "calling"
  BY <1>1, <1>3, <1>4 DEF FatesKept
<1>7. \A u \in Threads : pc'[u] \in Holding \ Enqueuing => fate'[data'[node'[u]]] = "queued"
  BY <1>1, <1>3, <1>5 DEF FatesKept
<1>8. \A j \in 1..Len(list') : fate'[data'[list'[j]]] = "queued"
  BY <1>1, <1>2 DEF FatesKept
<1>9. \A k, m \in live' : data'[k] = data'[m] => k = m
  BY <1>1 DEF FatesKept
<1> QED
  BY <1>6, <1>7, <1>8, <1>9 DEF FatesKept

\* queue_destroy frees the front node and its request.
LEMMA DestroyFates ==
    ASSUME CoreInv, FatesKept, DestroyFreeFront
    PROVE  /\ FatesKept'
           /\ \A m \in live \ {front} : data'[m] = data[m]
<1>1. /\ phase = "destroying" /\ front # NULL /\ list' = Tail(list) /\ UNCHANGED <<pc, node>>
      /\ fate' = [fate EXCEPT ![data[front]] = "freed"]
      /\ live' = live \ {front} /\ data' = [data EXCEPT ![front] = NULL]
  BY DEF DestroyFreeFront, Free
<1>2. \A u \in Threads : pc[u] = "idle" /\ pc'[u] \notin Holding /\ pc'[u] \notin Enqueuing
  BY <1>1 DEF CoreInv, QuietDestroy, Holding, Enqueuing
<1>3. \A m \in live \ {front} : data'[m] = data[m] /\ fate'[data'[m]] = fate[data[m]]
  <2> TAKE m \in live \ {front}
  <2>1. data[m] # data[front] /\ data[m] \in Requests
    BY <1>1, FrontFacts, LiveFates DEF FatesKept
  <2>2. data'[m] = data[m]
    BY <1>1 DEF CoreInv, TypeOK
  <2> QED
    BY <1>1, <2>1, <2>2 DEF CoreInv, TypeOK
<1>4. \A j \in 1..Len(list') : fate'[data'[list'[j]]] = "queued"
  <2> TAKE j \in 1..Len(list')
  <2>1. j + 1 \in 1..Len(list) /\ list'[j] = list[j + 1] /\ list'[j] \in live \ {front}
    BY <1>1, FrontFacts
  <2>2. fate[data[list[j + 1]]] = "queued"
    BY <2>1 DEF FatesKept
  <2> QED
    BY <1>3, <2>1, <2>2
<1>5. \A k, m \in live' : data'[k] = data'[m] => k = m
  BY <1>1, <1>3 DEF FatesKept
<1> QED
  BY <1>2, <1>3, <1>4, <1>5 DEF FatesKept

\* The steps of the queue, sorted by what they do to nodes and requests.
Locks(t) ==
    \/ Lock(t, "enq_lock", "enq_body") \/ Lock(t, "deq_lock", "deq_check")
    \/ Lock(t, "woken", "deq_check") \/ Lock(t, "close_lock", "close_body")
    \/ Lock(t, "peek_lock", "peek_body")
Unlocks(t) ==
    \/ Unlock(t, "deq_unlock", "deq_free") \/ Unlock(t, "peek_body", "idle")
    \/ Unlock(t, "unlock", "idle")
Walk(t) == \/ Locks(t) \/ Unlocks(t) \/ DequeueCall(t) \/ CloseCall(t) \/ PeekCall(t)
           \/ DequeueWait(t) \/ SpuriousWakeup(t) \/ EnqueueNoMemory(t)

\* The actions of Next, sorted by what they do to FifoQueue's state.
LEMMA NextSplit ==
    Next => \/ DestroyCall \/ DestroyFreeFront \/ DestroyFreeQueue
            \/ \E t \in Threads :
                  \/ Walk(t) \/ DequeueNull(t) \/ Unlock(t, "null_unlock", "idle")
                  \/ EnqueueRefuse(t) \/ EnqueueLink(t) \/ DequeueUnlink(t) \/ DequeueReturn(t)
                  \/ CloseMark(t)
                  \/ \E r \in Requests, n \in Nodes : EnqueueAlloc(t, r, n)
BY Zenon DEF Next, ThreadStep, queue_enqueue, queue_dequeue, queue_close, queue_isclosed_or_size,
       FinalUnlock, queue_destroy, Walk, Locks, Unlocks

\* A walking thread changes its place only, and no result.
LEMMA WalkFacts ==
    ASSUME CoreInv, NEW t \in Threads, Walk(t)
    PROVE  /\ UNCHANGED <<list, data, live, node, fate, closed>>
           /\ \A u \in Threads :
                 /\ pc'[u] \in Enqueuing <=> pc[u] \in Enqueuing
                 /\ pc'[u] \in Holding \ Enqueuing <=> pc[u] \in Holding \ Enqueuing
                 /\ pc'[u] \in {"deq_unlock", "deq_free"} <=> pc[u] \in {"deq_unlock", "deq_free"}
                 /\ pc'[u] = "null_unlock" <=> pc[u] = "null_unlock"
<1>1. UNCHANGED <<list, data, live, node, fate, closed>>
  BY Zenon DEF Walk, Locks, Unlocks, Lock, Unlock, DequeueCall, CloseCall, PeekCall, DequeueWait,
               SpuriousWakeup, EnqueueNoMemory, queueVars, heapVars
<1>2. CASE Locks(t)
  BY <1>1, <1>2 DEF Locks, Lock, CoreInv, TypeOK, Enqueuing, Holding
<1>3. CASE Unlocks(t) \/ DequeueWait(t)
  BY <1>1, <1>3 DEF Unlocks, DequeueWait, Unlock, CoreInv, TypeOK, Enqueuing, Holding
<1>4. CASE DequeueCall(t) \/ CloseCall(t) \/ PeekCall(t)
  BY <1>1, <1>4 DEF DequeueCall, CloseCall, PeekCall, Call, CoreInv, TypeOK, Enqueuing, Holding
<1>5. CASE SpuriousWakeup(t) \/ EnqueueNoMemory(t)
  BY <1>1, <1>5 DEF SpuriousWakeup, EnqueueNoMemory, CoreInv, TypeOK, Enqueuing, Holding
<1> QED
  BY <1>2, <1>3, <1>4, <1>5 DEF Walk

\* The other steps that change only where threads are.
LEMMA NullFacts ==
    ASSUME CoreInv, NEW t \in Threads,
           DequeueNull(t) \/ Unlock(t, "null_unlock", "idle") \/ CloseMark(t)
    PROVE  /\ UNCHANGED <<list, data, live, node, fate>>
           /\ \A u \in Threads : /\ pc'[u] \in Enqueuing <=> pc[u] \in Enqueuing
                                 /\ pc'[u] \in Holding \ Enqueuing <=> pc[u] \in Holding \ Enqueuing
<1>1. UNCHANGED <<list, data, live, node, fate>>
  BY Zenon DEF DequeueNull, Unlock, CloseMark, queueVars, heapVars
<1>2. CASE DequeueNull(t)
  BY <1>1, <1>2 DEF DequeueNull, CoreInv, TypeOK, Enqueuing, Holding
<1>3. CASE Unlock(t, "null_unlock", "idle")
  BY <1>1, <1>3 DEF Unlock, CoreInv, TypeOK, Enqueuing, Holding
<1>4. CASE CloseMark(t)
  BY <1>1, <1>4 DEF CloseMark, Broadcast, CoreInv, TypeOK, Enqueuing, Holding
<1> QED
  BY <1>2, <1>3, <1>4

\* Every step keeps the requests where their nodes are.
LEMMA NextFates == CoreInv /\ FatesKept /\ [Next]_vars => FatesKept'
<1> SUFFICES ASSUME CoreInv, FatesKept, [Next]_vars PROVE FatesKept'
  OBVIOUS
<1>1. CASE UNCHANGED vars
  BY <1>1, FatesUntouched DEF vars, queueVars, heapVars
<1>2. CASE DestroyCall \/ DestroyFreeQueue
  <2>1. UNCHANGED <<list, data, live, node, fate, pc>>
    BY <1>2, Zenon DEF DestroyCall, DestroyFreeQueue, queueVars, heapVars
  <2> QED
    BY <2>1, FatesUntouched
<1>3. CASE DestroyFreeFront
  BY <1>3, DestroyFates
<1>4. ASSUME NEW t \in Threads, Walk(t) PROVE FatesKept'
  BY <1>4, WalkFacts, FatesUntouched
<1>5. ASSUME NEW t \in Threads, DequeueNull(t) \/ Unlock(t, "null_unlock", "idle") \/ CloseMark(t)
      PROVE  FatesKept'
  BY <1>5, NullFacts, FatesUntouched
<1>6. ASSUME NEW t \in Threads, NEW r \in Requests, NEW n \in Nodes, EnqueueAlloc(t, r, n)
      PROVE  FatesKept'
  BY <1>6, AllocFates
<1>7. ASSUME NEW t \in Threads, EnqueueRefuse(t) PROVE FatesKept'
  BY <1>7, FreeFates DEF EnqueueRefuse, queueVars, Holding
<1>8. ASSUME NEW t \in Threads, DequeueReturn(t) PROVE FatesKept'
  BY <1>8, FreeFates DEF DequeueReturn, queueVars, Holding
<1>9. ASSUME NEW t \in Threads, EnqueueLink(t) \/ DequeueUnlink(t) PROVE FatesKept'
  BY <1>9, LinkFates, UnlinkFates
<1> QED
  BY <1>1, <1>2, <1>3, <1>4, <1>5, <1>6, <1>7, <1>8, <1>9, NextSplit, Zenon

\* The inductive invariant holds in every reachable state of queue.c.
THEOREM QueueInvariant == Spec => []QueueInv
<1>1. Init => FatesKept
  BY DEF Init, FatesKept, Enqueuing, Holding
<1> QED
  BY <1>1, NextFates, CoreInvariant, PTL DEF Spec, QueueInv

-----------------------------------------------------------------------------
(* queue.c implements FifoQueue *)

\* A step of queue.c is one of FifoQueue, or changes nothing FifoQueue sees.
FifoStep == Fifo!Next \/ UNCHANGED Fifo!fifoVars

\* What each operation of FifoQueue changes, in terms of queue.c. A step that FifoQueue
\* does not see:
LEMMA FifoIdle ==
    ASSUME Buf' = Buf, UNCHANGED <<closed, fate>>, \A t \in Threads : Result(t)' = Result(t)
    PROVE  FifoStep
BY Zenon DEF FifoStep, Fifo!fifoVars, Buf, Result

\* A caller passes a request to queue_enqueue.
LEMMA FifoOffer ==
    ASSUME NEW r \in Requests, fate[r] = "fresh", fate' = [fate EXCEPT ![r] = "calling"],
           Buf' = Buf, UNCHANGED closed, \A t \in Threads : Result(t)' = Result(t)
    PROVE  FifoStep
<1>1. Fifo!Offer(r)
  BY Zenon DEF Fifo!Offer, Buf, Result
<1> QED
  BY <1>1 DEF FifoStep, Fifo!Next

\* Linking a node puts its request into the queue.
LEMMA FifoPut ==
    ASSUME NEW r \in Requests, fate[r] = "calling", fate' = [fate EXCEPT ![r] = "queued"],
           ~closed, Buf' = Append(Buf, r), UNCHANGED closed,
           \A t \in Threads : Result(t)' = Result(t)
    PROVE  FifoStep
<1>1. Fifo!Put(r)
  BY Zenon DEF Fifo!Put, Buf, Result
<1> QED
  BY <1>1 DEF FifoStep, Fifo!Next

\* A closed queue refuses a request.
LEMMA FifoRefuse ==
    ASSUME NEW r \in Requests, fate[r] = "calling", fate' = [fate EXCEPT ![r] = "refused"],
           closed, Buf' = Buf, UNCHANGED closed, \A t \in Threads : Result(t)' = Result(t)
    PROVE  FifoStep
<1>1. Fifo!Refuse(r)
  BY Zenon DEF Fifo!Refuse, Buf, Result
<1> QED
  BY <1>1 DEF FifoStep, Fifo!Next

\* A caller of queue_dequeue takes the oldest request.
LEMMA FifoTake ==
    ASSUME NEW t \in Threads, Buf # << >>, Result(t) = << >>, Result(t)' = <<Head(Buf)>>,
           Buf' = Tail(Buf), UNCHANGED <<closed, fate>>,
           \A u \in Threads \ {t} : Result(u)' = Result(u)
    PROVE  FifoStep
<1>1. Fifo!Take(t)
  BY DEF Fifo!Take, Buf, Result
<1> QED
  BY <1>1 DEF FifoStep, Fifo!Next

\* A closed and empty queue fixes NULL as a caller's result.
LEMMA FifoTakeNull ==
    ASSUME NEW t \in Threads, Buf = << >>, closed, Result(t) = << >>, Result(t)' = <<NULL>>,
           Buf' = Buf, UNCHANGED <<closed, fate>>,
           \A u \in Threads \ {t} : Result(u)' = Result(u)
    PROVE  FifoStep
<1>1. Fifo!TakeNull(t)
  BY DEF Fifo!TakeNull, Buf, Result
<1> QED
  BY <1>1 DEF FifoStep, Fifo!Next

\* A fixed request goes to the caller that took it.
LEMMA FifoReturn ==
    ASSUME NEW t \in Threads, NEW r \in Requests, Result(t) = <<r>>, Result(t)' = << >>,
           fate[r] = "queued", fate' = [fate EXCEPT ![r] = "delivered"],
           Buf' = Buf, UNCHANGED closed, \A u \in Threads \ {t} : Result(u)' = Result(u)
    PROVE  FifoStep
<1>1. r # NULL
  BY QueueAssumption DEF QueueAssumption
<1>2. Fifo!Return(t)
  BY <1>1 DEF Fifo!Return, Buf, Result
<1> QED
  BY <1>2 DEF FifoStep, Fifo!Next

\* A fixed NULL goes to its caller.
LEMMA FifoReturnNull ==
    ASSUME NEW t \in Threads, Result(t) = <<NULL>>, Result(t)' = << >>,
           Buf' = Buf, UNCHANGED <<closed, fate>>,
           \A u \in Threads \ {t} : Result(u)' = Result(u)
    PROVE  FifoStep
<1>1. Fifo!Return(t)
  BY DEF Fifo!Return, Buf, Result
<1> QED
  BY <1>1 DEF FifoStep, Fifo!Next

\* The queue is closed.
LEMMA FifoClose ==
    ASSUME closed' = TRUE, Buf' = Buf, UNCHANGED fate,
           \A t \in Threads : Result(t)' = Result(t)
    PROVE  FifoStep
<1>1. Fifo!Close
  BY Zenon DEF Fifo!Close, Buf, Result
<1> QED
  BY <1>1 DEF FifoStep, Fifo!Next

\* queue_destroy drops what is still queued.
LEMMA FifoDrop ==
    ASSUME Buf # << >>, fate[Head(Buf)] = "queued", fate' = [fate EXCEPT ![Head(Buf)] = "freed"],
           Buf' = Tail(Buf), UNCHANGED closed,
           \A t \in Threads : Result(t) = << >> /\ Result(t)' = << >>
    PROVE  FifoStep
<1>1. Fifo!Drop
  BY DEF Fifo!Drop, Buf, Result
<1> QED
  BY <1>1 DEF FifoStep, Fifo!Next

\* The buffer depends on the linked nodes only.
LEMMA BufSame ==
    ASSUME UNCHANGED list, \A j \in 1..Len(list) : data'[list[j]] = data[list[j]]
    PROVE  Buf' = Buf
BY Zenon DEF Buf

\* A linked node puts its request behind the others.
LEMMA BufAppend ==
    ASSUME CoreInv, NEW n \in Nodes, data[n] \in Requests,
           list' = Append(list, n), UNCHANGED data
    PROVE  Buf' = Append(Buf, data[n])
<1>1. /\ Buf \in Seq(Requests) /\ Len(Buf) = Len(list) /\ Len(list) \in Nat
      /\ \A j \in 1..Len(list) : Buf[j] = data[list[j]]
  BY BufTyped DEF CoreInv, HeapInv
<1>2. /\ Len(list') = Len(list) + 1 /\ list'[Len(list) + 1] = n
      /\ \A j \in 1..Len(list) : list'[j] = list[j]
  BY AppendProperties DEF CoreInv, TypeOK
<1>3. /\ Append(Buf, data[n]) \in Seq(Requests)
      /\ Len(Append(Buf, data[n])) = Len(list) + 1
      /\ Append(Buf, data[n])[Len(list) + 1] = data[n]
      /\ \A j \in 1..Len(list) : Append(Buf, data[n])[j] = Buf[j]
  BY <1>1, AppendProperties
<1>4. Append(Buf, data[n]) = [j \in 1..(Len(list) + 1) |-> Append(Buf, data[n])[j]]
  BY <1>3, LenProperties
<1>5. \A j \in 1..(Len(list) + 1) : data'[list'[j]] = Append(Buf, data[n])[j]
  BY <1>1, <1>2, <1>3
<1>6. Buf' = [j \in 1..(Len(list) + 1) |-> data'[list'[j]]]
  BY <1>2 DEF Buf
<1> QED
  BY <1>4, <1>5, <1>6, Zenon

\* Unlinking the front node takes the first request.
LEMMA BufTail ==
    ASSUME CoreInv, front # NULL, list' = Tail(list),
           \A m \in live \ {front} : data'[m] = data[m]
    PROVE  Buf # << >> /\ Head(Buf) = data[front] /\ Buf' = Tail(Buf)
<1>1. /\ Buf \in Seq(Requests) /\ Len(Buf) = Len(list) /\ Len(list) \in Nat
      /\ \A j \in 1..Len(list) : Buf[j] = data[list[j]]
  BY BufTyped DEF CoreInv, HeapInv
<1>2. /\ front = list[1] /\ 1 \in 1..Len(list) /\ Len(list') = Len(list) - 1
      /\ \A j \in 1..Len(list') : /\ j + 1 \in 1..Len(list) /\ list'[j] = list[j + 1]
                                  /\ list'[j] \in live \ {front}
  BY FrontFacts
<1>3. Buf # << >>
  BY <1>1, <1>2
<1>4. Head(Buf) = data[front]
  BY <1>1, <1>2, <1>3
<1>5. /\ Tail(Buf) \in Seq(Requests) /\ Len(Tail(Buf)) = Len(list) - 1
      /\ \A j \in 1..Len(Tail(Buf)) : Tail(Buf)[j] = Buf[j + 1]
  BY <1>1, <1>3, HeadTailProperties
<1>6. \A j \in 1..Len(list') : data'[list'[j]] = Tail(Buf)[j]
  BY <1>1, <1>2, <1>5
<1>7. Tail(Buf) = [j \in 1..Len(list') |-> Tail(Buf)[j]]
  <2>1. Tail(Buf) \in [1..Len(Tail(Buf)) -> Requests]
    BY <1>5, LenProperties
  <2>2. Len(Tail(Buf)) = Len(list')
    BY <1>2, <1>5
  <2> QED
    BY <2>1, <2>2, Zenon
<1> QED
  BY <1>3, <1>4, <1>6, <1>7, Zenon DEF Buf

\* The result of a thread depends on its place and the request of its node.
LEMMA ResultSame ==
    ASSUME NEW t \in Threads,
           pc'[t] \in {"deq_unlock", "deq_free"} <=> pc[t] \in {"deq_unlock", "deq_free"},
           pc'[t] = "null_unlock" <=> pc[t] = "null_unlock",
           pc[t] \in {"deq_unlock", "deq_free"} => data'[node'[t]] = data[node[t]]
    PROVE  Result(t)' = Result(t)
<1>1. CASE pc[t] \in {"deq_unlock", "deq_free"}
  BY <1>1 DEF Result
<1>2. CASE pc[t] \notin {"deq_unlock", "deq_free"} /\ pc[t] = "null_unlock"
  BY <1>2 DEF Result
<1>3. CASE pc[t] \notin {"deq_unlock", "deq_free"} /\ pc[t] # "null_unlock"
  BY <1>3 DEF Result
<1> QED
  BY <1>1, <1>2, <1>3

\* Calls, locks, unlocks and waits are none of FifoQueue.
LEMMA WalkFifo ==
    ASSUME CoreInv, NEW t \in Threads, Walk(t)
    PROVE  FifoStep
<1>1. UNCHANGED <<list, data, live, node, fate, closed>>
  BY WalkFacts
<1>2. Buf' = Buf
  BY <1>1, BufSame
<1>3. \A u \in Threads : Result(u)' = Result(u)
  BY <1>1, WalkFacts, ResultSame
<1> QED
  BY <1>1, <1>2, <1>3, FifoIdle

\* Nor are the steps of queue_destroy but the loop.
LEMMA PhaseFifo ==
    ASSUME DestroyCall \/ DestroyFreeQueue \/ UNCHANGED vars
    PROVE  FifoStep
<1>1. UNCHANGED <<list, data, node, fate, closed, pc>>
  BY Zenon DEF DestroyCall, DestroyFreeQueue, vars, queueVars, heapVars
<1>2. Buf' = Buf
  BY <1>1, BufSame
<1>3. \A u \in Threads : Result(u)' = Result(u)
  BY <1>1, ResultSame
<1> QED
  BY <1>1, <1>2, <1>3, FifoIdle

\* queue_dequeue decides for NULL only on a closed and empty queue, and returns it.
LEMMA NullFifo ==
    ASSUME CoreInv, NEW t \in Threads, DequeueNull(t) \/ Unlock(t, "null_unlock", "idle")
    PROVE  FifoStep
<1>1. UNCHANGED <<list, data, live, node, fate>> /\ UNCHANGED closed
  BY Zenon DEF DequeueNull, Unlock, queueVars, heapVars
<1>2. Buf' = Buf
  BY <1>1, BufSame
<1>3. \A u \in Threads \ {t} : pc'[u] = pc[u]
  BY DEF DequeueNull, Unlock, CoreInv, TypeOK
<1>4. \A u \in Threads \ {t} : Result(u)' = Result(u)
  BY <1>1, <1>3, ResultSame
<1>5. CASE DequeueNull(t)
  <2>1. pc[t] = "deq_check" /\ pc'[t] = "null_unlock" /\ front = NULL /\ closed
    BY <1>5 DEF DequeueNull, CoreInv, TypeOK
  <2>2. list = << >>
    <3>1. SUFFICES ASSUME list # << >> PROVE FALSE
      OBVIOUS
    <3>2. front = list[1] /\ list \in Seq(Nodes)
      BY <3>1 DEF CoreInv, HeapInv, ListShape, TypeOK
    <3>3. list[1] \in Nodes
      BY <3>1, <3>2, TailFacts
    <3> QED
      BY <2>1, <3>2, <3>3, QueueAssumption DEF QueueAssumption
  <2>3. Buf = << >>
    BY <2>2 DEF Buf
  <2>4. Result(t) = << >> /\ Result(t)' = <<NULL>>
    BY <2>1 DEF Result
  <2> QED
    BY <1>1, <1>2, <1>4, <2>1, <2>3, <2>4, FifoTakeNull
<1>6. CASE Unlock(t, "null_unlock", "idle")
  <2>1. pc[t] = "null_unlock" /\ pc'[t] = "idle"
    BY <1>6 DEF Unlock, CoreInv, TypeOK
  <2>2. Result(t) = <<NULL>> /\ Result(t)' = << >>
    BY <2>1 DEF Result
  <2> QED
    BY <1>1, <1>2, <1>4, <2>2, FifoReturnNull
<1> QED
  BY <1>5, <1>6

\* queue_close closes the abstract queue.
LEMMA CloseFifo ==
    ASSUME CoreInv, NEW t \in Threads, CloseMark(t)
    PROVE  FifoStep
<1>1. UNCHANGED <<list, data, node, fate>> /\ closed' = TRUE
  BY Zenon DEF CloseMark, heapVars
<1>2. Buf' = Buf
  BY <1>1, BufSame
<1>3. \A u \in Threads :
        /\ pc'[u] \in {"deq_unlock", "deq_free"} <=> pc[u] \in {"deq_unlock", "deq_free"}
        /\ pc'[u] = "null_unlock" <=> pc[u] = "null_unlock"
  BY DEF CloseMark, Broadcast, CoreInv, TypeOK
<1>4. \A u \in Threads : Result(u)' = Result(u)
  BY <1>1, <1>3, ResultSame
<1> QED
  BY <1>1, <1>2, <1>4, FifoClose

\* The call of queue_enqueue offers the request; the node is not linked yet.
LEMMA AllocFifo ==
    ASSUME CoreInv, NEW t \in Threads, NEW r \in Requests, NEW n \in Nodes, EnqueueAlloc(t, r, n)
    PROVE  FifoStep
<1>1. /\ pc[t] = "idle" /\ pc' = [pc EXCEPT ![t] = "enq_lock"] /\ fate[r] = "fresh"
      /\ fate' = [fate EXCEPT ![r] = "calling"] /\ n \notin live
      /\ data' = [data EXCEPT ![n] = r] /\ node' = [node EXCEPT ![t] = n] /\ UNCHANGED <<list, closed>>
  BY DEF EnqueueAlloc, Call, Malloc, queueVars
<1>2. \A m \in live : data'[m] = data[m]
  BY <1>1 DEF CoreInv, TypeOK
<1>3. Buf' = Buf
  BY <1>1, <1>2, LinkedFacts, BufSame
<1>4. /\ pc'[t] = "enq_lock" /\ \A u \in Threads \ {t} : pc'[u] = pc[u] /\ node'[u] = node[u]
  BY <1>1 DEF CoreInv, TypeOK
<1>5. \A u \in Threads : pc[u] \in {"deq_unlock", "deq_free"} => node[u] \in live
  BY HeldFacts DEF Holding
<1>6. \A u \in Threads : Result(u)' = Result(u)
  BY <1>1, <1>2, <1>4, <1>5, ResultSame
<1> QED
  BY <1>1, <1>3, <1>6, FifoOffer

\* A refused request, and one that is returned.
LEMMA FreeFifo ==
    ASSUME CoreInv, FatesKept, NEW t \in Threads, EnqueueRefuse(t) \/ DequeueReturn(t)
    PROVE  FifoStep
<1> DEFINE r == data[node[t]]
<1> DEFINE f == IF pc[t] = "enq_body" THEN "refused" ELSE "delivered"
<1>1. /\ fate' = [fate EXCEPT ![r] = f]
      /\ (EnqueueRefuse(t) /\ f = "refused") \/ (DequeueReturn(t) /\ f = "delivered")
  <2>1. CASE EnqueueRefuse(t)
    <3>1. pc[t] = "enq_body" /\ fate' = [fate EXCEPT ![data[node[t]]] = "refused"]
      BY <2>1 DEF EnqueueRefuse
    <3> QED
      BY <2>1, <3>1
  <2>2. CASE DequeueReturn(t)
    <3>1. pc[t] = "deq_free" /\ fate' = [fate EXCEPT ![data[node[t]]] = "delivered"]
      BY <2>2 DEF DequeueReturn
    <3> QED
      BY <2>2, <3>1
  <2> QED
    BY <2>1, <2>2
<1> HIDE DEF f
<1>2. PICK label \in {"unlock", "idle"} : pc' = [pc EXCEPT ![t] = label]
  BY DEF EnqueueRefuse, DequeueReturn
<1>3. /\ Free(node[t]) /\ node' = [node EXCEPT ![t] = NULL] /\ UNCHANGED <<list, closed>>
  BY Zenon DEF EnqueueRefuse, DequeueReturn, queueVars
<1>4. pc[t] \in Holding
  BY DEF EnqueueRefuse, DequeueReturn, Holding
<1>5. \A m \in live \ {node[t]} : data'[m] = data[m]
  BY <1>1, <1>2, <1>3, <1>4, FreeFates
<1>6. \A j \in 1..Len(list) : list[j] \in live \ {node[t]}
  BY <1>4, LinkedFacts, HeldFacts
<1>7. Buf' = Buf
  BY <1>3, <1>5, <1>6, BufSame
<1>8. /\ pc'[t] = label /\ \A u \in Threads \ {t} : pc'[u] = pc[u] /\ node'[u] = node[u]
  BY <1>2, <1>3 DEF CoreInv, TypeOK
<1>9. \A u \in Threads \ {t} : pc[u] \in {"deq_unlock", "deq_free"} => node[u] \in live \ {node[t]}
  BY <1>4, HeldFacts DEF Holding
<1>10. \A u \in Threads \ {t} : Result(u)' = Result(u)
  BY <1>5, <1>8, <1>9, ResultSame
<1>11. Result(t)' = << >> /\ r \in Requests
  BY <1>4, <1>8, HeldFacts DEF Result
<1>12. CASE EnqueueRefuse(t) /\ f = "refused"
  <2>1. pc[t] = "enq_body" /\ closed
    BY <1>12 DEF EnqueueRefuse
  <2>2. Result(t) = << >> /\ fate[r] = "calling"
    BY <2>1 DEF Result, FatesKept, Enqueuing
  <2>3. \A u \in Threads : Result(u)' = Result(u)
    BY <1>10, <1>11, <2>2
  <2> QED
    BY <1>1, <1>3, <1>7, <1>11, <1>12, <2>1, <2>2, <2>3, FifoRefuse
<1>13. CASE DequeueReturn(t) /\ f = "delivered"
  <2>1. pc[t] = "deq_free"
    BY <1>13 DEF DequeueReturn
  <2>2. Result(t) = <<r>> /\ fate[r] = "queued"
    BY <2>1 DEF Result, FatesKept, Enqueuing, Holding
  <2> QED
    BY <1>1, <1>3, <1>7, <1>10, <1>11, <1>13, <2>2, FifoReturn
<1> QED
  BY <1>1, <1>12, <1>13

\* The link step of queue_enqueue is the Put of FifoQueue.
LEMMA LinkFifo ==
    ASSUME CoreInv, FatesKept, NEW t \in Threads, EnqueueLink(t)
    PROVE  FifoStep
<1>1. /\ pc[t] = "enq_body" /\ list' = Append(list, node[t]) /\ UNCHANGED <<data, closed>>
      /\ ~closed /\ fate' = [fate EXCEPT ![data[node[t]]] = "queued"]
      /\ node' = [node EXCEPT ![t] = NULL] /\ Signal(t, "unlock")
  BY DEF EnqueueLink, LinkNode, HandOver
<1>2. node[t] \in Nodes /\ data[node[t]] \in Requests
  BY <1>1, HeldFacts DEF Holding
<1>3. Buf' = Append(Buf, data[node[t]])
  BY <1>1, <1>2, BufAppend
<1>4. /\ pc'[t] = "unlock"
      /\ \A u \in Threads \ {t} : pc'[u] = pc[u] \/ (pc[u] = "waiting" /\ pc'[u] = "woken")
  BY <1>1, SignalEffect DEF CoreInv
<1>5. \A u \in Threads \ {t} : node'[u] = node[u]
  BY <1>1 DEF CoreInv, TypeOK
<1>6. \A u \in Threads : Result(u)' = Result(u)
  BY <1>1, <1>4, <1>5, ResultSame
<1>7. fate[data[node[t]]] = "calling"
  BY <1>1 DEF FatesKept, Enqueuing
<1> QED
  BY <1>1, <1>2, <1>3, <1>6, <1>7, FifoPut

\* The unlink step of queue_dequeue is the Take of FifoQueue.
LEMMA UnlinkFifo ==
    ASSUME CoreInv, NEW t \in Threads, DequeueUnlink(t)
    PROVE  FifoStep
<1>1. /\ pc[t] = "deq_check" /\ front # NULL /\ list' = Tail(list) /\ UNCHANGED <<data, fate, closed>>
      /\ node' = [node EXCEPT ![t] = front] /\ pc' = [pc EXCEPT ![t] = "deq_unlock"]
  BY DEF DequeueUnlink, heapVars
<1>2. Buf # << >> /\ Head(Buf) = data[front] /\ Buf' = Tail(Buf)
  BY <1>1, BufTail
<1>3. /\ pc'[t] = "deq_unlock" /\ node'[t] = front
      /\ \A u \in Threads \ {t} : pc'[u] = pc[u] /\ node'[u] = node[u]
  BY <1>1 DEF CoreInv, TypeOK
<1>4. Result(t) = << >> /\ Result(t)' = <<Head(Buf)>>
  BY <1>1, <1>2, <1>3 DEF Result
<1>5. \A u \in Threads \ {t} : Result(u)' = Result(u)
  BY <1>1, <1>3, ResultSame
<1> QED
  BY <1>1, <1>2, <1>4, <1>5, FifoTake

\* queue_destroy frees every linked node: FifoQueue drops their requests.
LEMMA DestroyFifo ==
    ASSUME CoreInv, FatesKept, DestroyFreeFront
    PROVE  FifoStep
<1>1. /\ phase = "destroying" /\ front # NULL /\ list' = Tail(list) /\ UNCHANGED <<pc, closed>>
      /\ fate' = [fate EXCEPT ![data[front]] = "freed"]
  BY DEF DestroyFreeFront
<1>2. Buf # << >> /\ Head(Buf) = data[front] /\ Buf' = Tail(Buf)
  BY <1>1, DestroyFates, BufTail
<1>3. fate[data[front]] = "queued"
  BY <1>1, FrontFacts DEF FatesKept
<1>4. \A u \in Threads : pc[u] = "idle" /\ pc'[u] = "idle"
  BY <1>1 DEF CoreInv, QuietDestroy
<1>5. \A u \in Threads : Result(u) = << >> /\ Result(u)' = << >>
  BY <1>4 DEF Result
<1> QED
  BY <1>1, <1>2, <1>3, <1>5, FifoDrop

\* Every step of queue.c is a step of FifoQueue or leaves it alone.
LEMMA NextFifo == QueueInv /\ [Next]_vars => FifoStep
<1> SUFFICES ASSUME CoreInv, FatesKept, [Next]_vars PROVE FifoStep
  BY DEF QueueInv
<1>1. CASE UNCHANGED vars \/ DestroyCall \/ DestroyFreeQueue
  BY <1>1, PhaseFifo
<1>2. CASE DestroyFreeFront
  BY <1>2, DestroyFifo
<1>3. ASSUME NEW t \in Threads, Walk(t) PROVE FifoStep
  BY <1>3, WalkFifo
<1>4. ASSUME NEW t \in Threads, DequeueNull(t) \/ Unlock(t, "null_unlock", "idle") \/ CloseMark(t)
      PROVE  FifoStep
  BY <1>4, NullFifo, CloseFifo
<1>5. ASSUME NEW t \in Threads, NEW r \in Requests, NEW n \in Nodes, EnqueueAlloc(t, r, n)
      PROVE  FifoStep
  BY <1>5, AllocFifo
<1>6. ASSUME NEW t \in Threads, EnqueueRefuse(t) \/ DequeueReturn(t) PROVE FifoStep
  BY <1>6, FreeFifo
<1>7. ASSUME NEW t \in Threads, EnqueueLink(t) \/ DequeueUnlink(t) PROVE FifoStep
  BY <1>7, LinkFifo, UnlinkFifo
<1> QED
  BY <1>1, <1>2, <1>3, <1>4, <1>5, <1>6, <1>7, NextSplit, Zenon

\* src/queue.c implements FifoQueue: whatever the threads do, requests leave in the
\* order they came, each goes to one caller, and NULL means closed and empty.
THEOREM QueueImplementsFifo == Spec => ImplementsFifo
<1>1. Init => Fifo!Init
  <2> SUFFICES ASSUME Init PROVE Fifo!Init
    OBVIOUS
  <2>1. Buf = << >>
    BY DEF Init, Buf
  <2>2. \A t \in Threads : Result(t) = << >>
    BY DEF Init, Result
  <2> QED
    BY <2>1, <2>2 DEF Init, Fifo!Init, Buf, Result
<1>2. QueueInv /\ [Next]_vars => [Fifo!Next]_(Fifo!fifoVars)
  BY NextFifo, Zenon DEF FifoStep
<1> QED
  BY <1>1, <1>2, QueueInvariant, PTL DEF Spec, ImplementsFifo, Fifo!Spec

=============================================================================
