------------------------- MODULE ThreadPoolProofs -------------------------
(***************************************************************************)
(* Proofs about src/main.c, src/thread_pool.c, src/worker_thread.c and     *)
(* src/tasks.c, for any number of workers and of tasks.                    *)
(***************************************************************************)
EXTENDS ThreadPool, SequenceTheorems, TLAPS

----------------------------------------------------------------------------
(* Constants and sequences *)

LEMMA Consts ==
    /\ num_threads \in Nat /\ num_threads > 0 /\ NUM_TASKS \in Nat
    /\ Workers \subseteq Nat /\ 0 \in Workers /\ \A n \in Nat : n < num_threads <=> n \in Workers
    /\ Tasks \subseteq Nat /\ NULL \notin Tasks /\ \A n \in Nat : n < NUM_TASKS <=> n \in Tasks
<1>1. num_threads \in Nat /\ num_threads > 0 /\ NUM_TASKS \in Nat /\ NULL \notin Int
  BY PoolAssumption DEF PoolAssumption
<1>2. Workers \subseteq Nat /\ 0 \in Workers /\ \A n \in Nat : n < num_threads <=> n \in Workers
  BY <1>1 DEF Workers
<1>3. Tasks \subseteq Int /\ Tasks \subseteq Nat /\ \A n \in Nat : n < NUM_TASKS <=> n \in Tasks
  BY <1>1 DEF Tasks
<1> QED
  BY <1>1, <1>2, <1>3

\* What a sequence holds, and its order, after Append.
LEMMA AppendFacts ==
    ASSUME NEW s \in Seq(Tasks), NEW e \in Tasks
    PROVE  /\ Append(s, e) \in Seq(Tasks)
           /\ \A k : (\E j \in 1..Len(Append(s, e)) : Append(s, e)[j] = k)
                        <=> (\E j \in 1..Len(s) : s[j] = k) \/ k = e
           /\ (/\ \A j, k \in 1..Len(s) : j < k => s[j] < s[k]
               /\ \A j \in 1..Len(s) : s[j] < e)
              => \A j, k \in 1..Len(Append(s, e)) : j < k => Append(s, e)[j] < Append(s, e)[k]
<1> DEFINE t == Append(s, e)
<1>1. /\ t \in Seq(Tasks) /\ Len(t) = Len(s) + 1 /\ Len(s) \in Nat
      /\ \A j \in 1..Len(s) : t[j] = s[j]
      /\ t[Len(s) + 1] = e
  BY AppendProperties, LenProperties
<1> HIDE DEF t
<1>2. \A k : (\E j \in 1..Len(t) : t[j] = k) <=> (\E j \in 1..Len(s) : s[j] = k) \/ k = e
  <2> TAKE k
  <2>1. ASSUME NEW j \in 1..Len(t), t[j] = k
        PROVE  (\E m \in 1..Len(s) : s[m] = k) \/ k = e
    <3>1. CASE j \in 1..Len(s)
      BY <1>1, <2>1, <3>1
    <3>2. CASE j = Len(s) + 1
      BY <1>1, <2>1, <3>2
    <3> QED
      BY <1>1, <3>1, <3>2
  <2>2. ASSUME NEW j \in 1..Len(s), s[j] = k
        PROVE  \E m \in 1..Len(t) : t[m] = k
    <3>1. j \in 1..Len(t) /\ t[j] = k
      BY <1>1, <2>2
    <3> QED
      BY <3>1
  <2>3. ASSUME k = e PROVE \E m \in 1..Len(t) : t[m] = k
    <3>1. Len(t) \in 1..Len(t) /\ t[Len(t)] = k
      BY <1>1, <2>3
    <3> QED
      BY <3>1
  <2> QED
    BY <2>1, <2>2, <2>3
<1>3. ASSUME \A j, k \in 1..Len(s) : j < k => s[j] < s[k], \A j \in 1..Len(s) : s[j] < e
      PROVE  \A j, k \in 1..Len(t) : j < k => t[j] < t[k]
  <2> SUFFICES ASSUME NEW j \in 1..Len(t), NEW k \in 1..Len(t), j < k
               PROVE  t[j] < t[k]
    OBVIOUS
  <2>1. j \in 1..Len(s) /\ t[j] = s[j]
    BY <1>1
  <2>2. CASE k \in 1..Len(s)
    BY <1>1, <1>3, <2>1, <2>2
  <2>3. CASE k = Len(s) + 1
    BY <1>1, <1>3, <2>1, <2>3
  <2> QED
    BY <1>1, <2>2, <2>3
<1> QED
  BY <1>1, <1>2, <1>3 DEF t

\* The same after the first element is taken away.
LEMMA TailFacts ==
    ASSUME NEW s \in Seq(Tasks), s # << >>
    PROVE  /\ Head(s) \in Tasks /\ Tail(s) \in Seq(Tasks)
           /\ \A k : (\E j \in 1..Len(s) : s[j] = k)
                        <=> (\E j \in 1..Len(Tail(s)) : Tail(s)[j] = k) \/ k = Head(s)
           /\ (\A j, k \in 1..Len(s) : j < k => s[j] < s[k])
              => /\ \A j, k \in 1..Len(Tail(s)) : j < k => Tail(s)[j] < Tail(s)[k]
                 /\ \A j \in 1..Len(Tail(s)) : Head(s) < Tail(s)[j]
<1> DEFINE t == Tail(s)
           h == Head(s)
<1>1. /\ h \in Tasks /\ t \in Seq(Tasks) /\ Len(t) = Len(s) - 1
      /\ \A j \in 1..Len(t) : t[j] = s[j + 1]
      /\ Len(s) \in Nat /\ Len(s) > 0
  BY HeadTailProperties, LenProperties, EmptySeq
<1>2. h = s[1]
  OBVIOUS
<1> HIDE DEF t, h
<1>3. \A k : (\E j \in 1..Len(s) : s[j] = k) <=> (\E j \in 1..Len(t) : t[j] = k) \/ k = h
  <2> TAKE k
  <2>1. ASSUME NEW j \in 1..Len(s), s[j] = k
        PROVE  (\E m \in 1..Len(t) : t[m] = k) \/ k = h
    <3>1. CASE j = 1
      BY <1>2, <2>1, <3>1
    <3>2. CASE j # 1
      <4>1. j - 1 \in 1..Len(t) /\ (j - 1) + 1 = j
        BY <1>1, <3>2
      <4>2. t[j - 1] = k
        BY <1>1, <2>1, <4>1
      <4> QED
        BY <4>1, <4>2
    <3> QED
      BY <3>1, <3>2
  <2>2. ASSUME NEW j \in 1..Len(t), t[j] = k
        PROVE  \E m \in 1..Len(s) : s[m] = k
    <3>1. j + 1 \in 1..Len(s) /\ s[j + 1] = k
      BY <1>1, <2>2
    <3> QED
      BY <3>1
  <2>3. ASSUME k = h PROVE \E m \in 1..Len(s) : s[m] = k
    <3>1. 1 \in 1..Len(s)
      BY <1>1
    <3> QED
      BY <1>2, <2>3, <3>1
  <2> QED
    BY <2>1, <2>2, <2>3
<1>4. ASSUME \A j, k \in 1..Len(s) : j < k => s[j] < s[k]
      PROVE  /\ \A j, k \in 1..Len(t) : j < k => t[j] < t[k]
             /\ \A j \in 1..Len(t) : h < t[j]
  <2>1. \A j, k \in 1..Len(t) : j < k => t[j] < t[k]
    <3> SUFFICES ASSUME NEW j \in 1..Len(t), NEW k \in 1..Len(t), j < k
                 PROVE  t[j] < t[k]
      OBVIOUS
    <3>1. j + 1 \in 1..Len(s) /\ k + 1 \in 1..Len(s) /\ j + 1 < k + 1
      BY <1>1
    <3>2. s[j + 1] < s[k + 1]
      BY <1>4, <3>1
    <3> QED
      BY <1>1, <3>2
  <2>2. \A j \in 1..Len(t) : h < t[j]
    <3> TAKE j \in 1..Len(t)
    <3>1. 1 \in 1..Len(s) /\ j + 1 \in 1..Len(s) /\ 1 < j + 1
      BY <1>1
    <3>2. s[1] < s[j + 1]
      BY <1>4, <3>1
    <3> QED
      BY <1>1, <1>2, <3>2
  <2> QED
    BY <2>1, <2>2
<1> QED
  BY <1>1, <1>3, <1>4 DEF t, h

----------------------------------------------------------------------------
(* Types *)

LEMMA NextSplit ==
    Next => \/ PoolAlloc \/ create_worker_thread \/ PoolReady \/ AddAlloc \/ AddEnqueue
            \/ SleepOver \/ CloseQueue \/ AllClosed \/ join_worker_thread \/ AllJoined
            \/ PoolFree \/ ExitFailure
            \/ (\E w \in Workers : worker_func(w))
            \/ UNCHANGED vars
BY DEF Next, MainStep, thread_pool_init, thread_pool_add, thread_pool_destroy, Terminated

LEMMA TaskObjectsTyped == \A k \in Tasks : TaskObjects(k) \subseteq Objects
BY Zenon DEF Objects

LEMMA TypeStep ==
    ASSUME TypeOK, TasksKept, LoopsKept, Next
    PROVE  TypeOK'
<1> USE Consts DEF TypeOK, mainVars, workerVars
<1>1. CASE PoolAlloc
  BY <1>1 DEF PoolAlloc, MainLabels, WorkerLabels, Objects
<1>2. CASE create_worker_thread
  <2>1. i \in Workers /\ i' \in Nat /\ UNCHANGED <<main, index, req, local_id, processed_count, runs,
                                                     que, closed, thread_counter, log>>
    BY <1>2 DEF create_worker_thread
  <2>2. wpc' \in [Workers -> WorkerLabels]
    BY <1>2, <2>1 DEF create_worker_thread, WorkerLabels
  <2>3. heap' \subseteq Objects
    BY <1>2, <2>1, Zenon DEF create_worker_thread, Objects
  <2> QED
    BY <2>1, <2>2, <2>3, Zenon
<1>3. CASE PoolReady
  BY <1>3 DEF PoolReady, MainLabels, WorkerLabels, Objects
<1>4. CASE AddAlloc
  <2>1. i \in Tasks /\ index' \in Workers /\ main' \in MainLabels
        /\ UNCHANGED <<i, workerVars, que, closed, thread_counter, log>>
    BY <1>4 DEF AddAlloc, MainLabels
  <2>2. heap' \subseteq Objects
    <3>1. TaskObjects(i) \subseteq Objects
      BY <2>1, TaskObjectsTyped, Zenon
    <3>2. heap' = heap \cup TaskObjects(i)
      BY <1>4, Zenon DEF AddAlloc
    <3> QED
      BY <3>1, <3>2, Zenon
  <2> QED
    BY <2>1, <2>2, Zenon
<1>5. CASE AddEnqueue
  <2>1. i \in Tasks /\ i' \in Nat /\ main' \in MainLabels
        /\ UNCHANGED <<index, workerVars, closed, thread_counter, heap, log>>
    BY <1>5 DEF AddEnqueue, MainLabels, LoopsKept
  <2>2. Append(que[index], i) \in Seq(Tasks)
    BY <2>1, AppendFacts
  <2>3. que' \in [Workers -> Seq(Tasks)]
    BY <1>5, <2>2 DEF AddEnqueue
  <2> QED
    BY <2>1, <2>3, Zenon
<1>6. CASE SleepOver
  BY <1>6 DEF SleepOver, MainLabels, WorkerLabels, Objects
<1>7. CASE CloseQueue
  <2>1. i' \in Nat /\ UNCHANGED <<main, index, workerVars, que, thread_counter, heap, log>>
    BY <1>7 DEF CloseQueue
  <2>2. closed' \in [Workers -> BOOLEAN]
    BY <1>7, Zenon DEF CloseQueue
  <2> QED
    BY <2>1, <2>2, Zenon
<1>8. CASE AllClosed
  BY <1>8 DEF AllClosed, MainLabels, WorkerLabels, Objects
<1>9. CASE join_worker_thread
  <2>1. i \in Workers /\ i' \in Nat /\ UNCHANGED <<main, index, req, local_id, processed_count, runs,
                                                     closed, thread_counter, log>>
    <3>1. i \in Nat /\ i < num_threads /\ i' = i + 1
      BY <1>9 DEF join_worker_thread
    <3>2. i \in Workers /\ i' \in Nat
      BY <3>1
    <3> QED
      BY <1>9, <3>2, Zenon DEF join_worker_thread
  <2>2. wpc' \in [Workers -> WorkerLabels]
    BY <1>9, <2>1 DEF join_worker_thread, WorkerLabels
  <2>3. heap' \subseteq Objects
    BY <1>9, Zenon DEF join_worker_thread
  <2>4. << >> \in Seq(Tasks)
    BY EmptySeq
  <2>5. que' \in [Workers -> Seq(Tasks)]
    BY <1>9, <2>4, Zenon DEF join_worker_thread
  <2> QED
    BY <2>1, <2>2, <2>3, <2>5, Zenon
<1>10. CASE AllJoined
  BY <1>10 DEF AllJoined, MainLabels, WorkerLabels, Objects
<1>11. CASE PoolFree
  BY <1>11 DEF PoolFree, MainLabels, WorkerLabels, Objects
<1>12. CASE ExitFailure
  BY <1>12 DEF ExitFailure, MainLabels, WorkerLabels, Objects
<1>13. ASSUME NEW w \in Workers, worker_func(w) PROVE TypeOK'
  <2> USE DEF Goto, WorkerLabels
  <2>1. CASE TakeId(w)
    <3>1. thread_counter' \in Nat /\ local_id' \in [Workers -> Nat] /\ wpc' \in [Workers -> WorkerLabels]
      <4>1. thread_counter' = thread_counter + 1
        BY <2>1, Zenon DEF TakeId
      <4>2. local_id' = [local_id EXCEPT ![w] = thread_counter]
        BY <2>1, Zenon DEF TakeId
      <4>3. wpc' = [wpc EXCEPT ![w] = "dequeue"]
        BY <2>1, Zenon DEF TakeId
      <4>4. thread_counter \in Nat
        OBVIOUS
      <4>5. local_id' \in [Workers -> Nat]
        BY <4>2, <4>4, Zenon
      <4>6. wpc' \in [Workers -> WorkerLabels]
        BY <4>3, Zenon
      <4>7. thread_counter' \in Nat
        <5>1. ASSUME NEW n \in Nat PROVE n + 1 \in Nat
          OBVIOUS
        <5> QED
          BY <4>1, <4>4, <5>1, Zenon
      <4> QED
        BY <4>5, <4>6, <4>7, Zenon
    <3>2. UNCHANGED <<mainVars, req, processed_count, runs, que, closed, heap, log>>
      BY <2>1 DEF TakeId
    <3> QED
      BY <3>1, <3>2, Zenon
  <2>2. CASE DequeueTake(w)
    <3>1. Head(que[w]) \in Tasks /\ Tail(que[w]) \in Seq(Tasks)
      BY <2>2, TailFacts DEF DequeueTake
    <3>2. req' \in [Workers -> Tasks \cup {NULL}] /\ que' \in [Workers -> Seq(Tasks)]
      BY <2>2, <3>1, Zenon DEF DequeueTake
    <3>3. wpc' \in [Workers -> WorkerLabels]
      BY <2>2 DEF DequeueTake
    <3>4. UNCHANGED <<mainVars, local_id, processed_count, runs, closed, thread_counter, heap, log>>
      BY <2>2 DEF DequeueTake
    <3> QED
      BY <3>2, <3>3, <3>4, Zenon
  <2>3. CASE DequeueNull(w)
    BY <2>3 DEF DequeueNull
  <2>4. CASE CallTask(w)
    <3>1. req[w] \in Tasks /\ runs[w] \in Seq(Tasks)
      BY <2>4 DEF CallTask, TasksKept
    <3>2. Append(runs[w], req[w]) \in Seq(Tasks)
      BY <3>1, AppendFacts
    <3>3. runs' \in [Workers -> Seq(Tasks)]
      BY <2>4, <3>2, Zenon DEF CallTask
    <3>4. wpc' \in [Workers -> WorkerLabels]
      BY <2>4 DEF CallTask
    <3>5. UNCHANGED <<mainVars, req, local_id, processed_count, que, closed, thread_counter, heap, log>>
      BY <2>4 DEF CallTask
    <3> QED
      BY <3>3, <3>4, <3>5, Zenon
  <2>5. CASE TaskNoFile(w)
    BY <2>5 DEF TaskNoFile
  <2>6. CASE TaskOpen(w)
    BY <2>6 DEF TaskOpen
  <2>7. CASE TaskLog(w)
    <3>1. req[w] \in Tasks
      BY <2>7 DEF TaskLog, TasksKept
    <3>2. log' \in Seq(Tasks)
      BY <2>7, <3>1, AppendFacts DEF TaskLog
    <3>4. wpc' \in [Workers -> WorkerLabels]
      BY <2>7 DEF TaskLog
    <3>5. UNCHANGED <<mainVars, req, local_id, processed_count, runs, que, closed, thread_counter, heap>>
      BY <2>7 DEF TaskLog
    <3> QED
      BY <3>2, <3>4, <3>5, Zenon
  <2>8. CASE FreeRequest(w)
    <3>1. req' \in [Workers -> Tasks \cup {NULL}]
      BY <2>8, Zenon DEF FreeRequest
    <3>2. wpc' \in [Workers -> WorkerLabels] /\ processed_count' \in [Workers -> Nat]
      <4>1. wpc' \in [Workers -> WorkerLabels]
        BY <2>8, Zenon DEF FreeRequest
      <4>2. processed_count[w] + 1 \in Nat
        OBVIOUS
      <4>3. processed_count' \in [Workers -> Nat]
        BY <2>8, <4>2, Zenon DEF FreeRequest
      <4> QED
        BY <4>1, <4>3
    <3>3. heap' \subseteq Objects
      BY <2>8, Zenon DEF FreeRequest
    <3>4. UNCHANGED <<mainVars, local_id, runs, que, closed, thread_counter, log>>
      BY <2>8 DEF FreeRequest
    <3> QED
      BY <3>1, <3>2, <3>3, <3>4, Zenon
  <2>9. CASE WorkerExit(w)
    BY <2>9 DEF WorkerExit
  <2> QED
    BY <1>13, <2>1, <2>2, <2>3, <2>4, <2>5, <2>6, <2>7, <2>8, <2>9 DEF worker_func, example_task
<1>14. CASE UNCHANGED vars
  BY <1>14 DEF vars
<1> QED
  BY <1>1, <1>2, <1>3, <1>4, <1>5, <1>6, <1>7, <1>8, <1>9, <1>10, <1>11, <1>12, <1>13, <1>14, NextSplit

----------------------------------------------------------------------------
(* The loops of main and the life of a worker *)

LEMMA LoopsStep ==
    ASSUME TypeOK, LoopsKept, Next
    PROVE  LoopsKept'
<1> USE DEF LoopsKept, mainVars, workerVars
<1>0. /\ main \in MainLabels /\ i \in Nat /\ index \in Workers
      /\ wpc \in [Workers -> WorkerLabels] /\ closed \in [Workers -> BOOLEAN]
      /\ que \in [Workers -> Seq(Tasks)]
  BY DEF TypeOK
<1>c. /\ num_threads \in Nat /\ NUM_TASKS \in Nat /\ Workers \subseteq Nat
      /\ \A n \in Nat : n < num_threads <=> n \in Workers
  BY Consts
<1>1. CASE PoolAlloc
  BY <1>0, <1>c, <1>1 DEF PoolAlloc
<1>2. CASE create_worker_thread
  BY <1>0, <1>c, <1>2 DEF create_worker_thread
<1>3. CASE PoolReady
  BY <1>0, <1>c, <1>3 DEF PoolReady
<1>4. CASE AddAlloc
  BY <1>0, <1>c, <1>4 DEF AddAlloc
<1>5. CASE AddEnqueue
  BY <1>0, <1>c, <1>5 DEF AddEnqueue
<1>6. CASE SleepOver
  BY <1>0, <1>c, <1>6 DEF SleepOver
<1>7. CASE CloseQueue
  BY <1>0, <1>c, <1>7 DEF CloseQueue
<1>8. CASE AllClosed
  BY <1>0, <1>c, <1>8 DEF AllClosed
<1>9. CASE join_worker_thread
  BY <1>0, <1>c, <1>9 DEF join_worker_thread
<1>10. CASE AllJoined
  BY <1>0, <1>c, <1>10 DEF AllJoined
<1>11. CASE PoolFree
  BY <1>0, <1>c, <1>11 DEF PoolFree
<1>12. CASE ExitFailure
  BY <1>0, <1>c, <1>12 DEF ExitFailure
<1>13. ASSUME NEW w \in Workers, worker_func(w) PROVE LoopsKept'
  <2> USE DEF Goto, Running
  <2>1. CASE TakeId(w)
    BY <1>0, <1>c, <2>1 DEF TakeId
  <2>2. CASE DequeueTake(w)
    BY <1>0, <1>c, <2>2 DEF DequeueTake
  <2>3. CASE DequeueNull(w)
    BY <1>0, <1>c, <2>3 DEF DequeueNull
  <2>4. CASE CallTask(w)
    BY <1>0, <1>c, <2>4 DEF CallTask
  <2>5. CASE TaskNoFile(w)
    BY <1>0, <1>c, <2>5 DEF TaskNoFile
  <2>6. CASE TaskOpen(w)
    BY <1>0, <1>c, <2>6 DEF TaskOpen
  <2>7. CASE TaskLog(w)
    BY <1>0, <1>c, <2>7 DEF TaskLog
  <2>8. CASE FreeRequest(w)
    BY <1>0, <1>c, <2>8 DEF FreeRequest
  <2>9. CASE WorkerExit(w)
    BY <1>0, <1>c, <2>9 DEF WorkerExit
  <2> QED
    BY <1>13, <2>1, <2>2, <2>3, <2>4, <2>5, <2>6, <2>7, <2>8, <2>9 DEF worker_func, example_task
<1>14. CASE UNCHANGED vars
  BY <1>14 DEF vars
<1> QED
  BY <1>1, <1>2, <1>3, <1>4, <1>5, <1>6, <1>7, <1>8, <1>9, <1>10, <1>11, <1>12, <1>13, <1>14, NextSplit

----------------------------------------------------------------------------
(* Where each task is *)

Busy == {"taken", "run", "logging", "free_req"}

\* A step that moves no task keeps every task where it is.
LEMMA TasksUntouched ==
    ASSUME TasksKept, UNCHANGED <<que, runs, req>>,
           \A w \in Workers : \/ wpc'[w] = wpc[w]
                              \/ wpc'[w] \notin Busy /\ wpc[w] \notin Busy
                              \/ wpc'[w] \in Busy \ {"taken"} /\ wpc[w] \in Busy \ {"taken"},
           main' # "exited" => main # "exited" /\ Added' = Added
    PROVE  TasksKept'
<1>1. /\ \A w \in Workers : \A k : Queued(w, k)' <=> Queued(w, k)
      /\ \A w \in Workers : \A k : RanBy(w, k)' <=> RanBy(w, k)
  BY Zenon DEF Queued, RanBy
<1>2. \A w \in Workers : wpc'[w] = "taken" <=> wpc[w] = "taken"
  BY DEF Busy
<1>3. \A w \in Workers : /\ wpc'[w] \in Busy <=> wpc[w] \in Busy
                         /\ wpc'[w] \in Busy \ {"taken"} <=> wpc[w] \in Busy \ {"taken"}
  BY DEF Busy
<1>4. \A w \in Workers : \A k : Has(w, k)' <=> Has(w, k)
  BY <1>1, <1>2, Zenon DEF Has
<1>5. /\ \A w \in Workers : \A j, k \in 1..Len(runs'[w]) : j < k => runs'[w][j] < runs'[w][k]
      /\ \A w \in Workers : \A j, k \in 1..Len(que'[w]) : j < k => que'[w][j] < que'[w][k]
  BY Zenon DEF TasksKept
<1>6. \A w \in Workers : \A k, m \in Tasks : RanBy(w, k)' /\ Queued(w, m)' => k < m
  BY <1>1, Zenon DEF TasksKept
<1>7. \A w \in Workers : wpc'[w] = "taken" => \A k \in Tasks :
         (RanBy(w, k)' => k < req'[w]) /\ (Queued(w, k)' => req'[w] < k)
  BY <1>1, <1>2, Zenon DEF TasksKept
<1>8. \A w \in Workers : wpc'[w] \in {"run", "logging", "free_req"} => RanBy(w, req[w])'
  <2> TAKE w \in Workers
  <2>1. ASSUME wpc'[w] \in {"run", "logging", "free_req"} PROVE RanBy(w, req[w])
    <3>1. wpc[w] \in {"run", "logging", "free_req"}
      BY <1>3, <2>1 DEF Busy
    <3> QED
      BY <3>1 DEF TasksKept
  <2> QED
    BY <2>1, Zenon DEF RanBy
<1>9. \A w \in Workers : req'[w] # NULL <=> wpc'[w] \in {"taken", "run", "logging", "free_req"}
  BY <1>3, Zenon DEF TasksKept, Busy
<1>10. \A v, w \in Workers : \A k \in Tasks : Has(v, k)' /\ Has(w, k)' => v = w
  BY <1>4, Zenon DEF TasksKept
<1>11. main' # "exited" => \A k \in Tasks : k < Added' <=> \E w \in Workers : Has(w, k)'
  BY <1>4, Zenon DEF TasksKept
<1> QED
  BY <1>5, <1>6, <1>7, <1>8, <1>9, <1>10, <1>11, Zenon DEF TasksKept

LEMMA TasksTyped ==
    ASSUME TypeOK, NEW w \in Workers
    PROVE  /\ que[w] \in Seq(Tasks) /\ runs[w] \in Seq(Tasks)
           /\ \A k : Queued(w, k) \/ RanBy(w, k) => k \in Tasks
<1>1. que[w] \in Seq(Tasks) /\ runs[w] \in Seq(Tasks)
  BY DEF TypeOK
<1>2. /\ \A j \in 1..Len(que[w]) : que[w][j] \in Tasks
      /\ \A j \in 1..Len(runs[w]) : runs[w][j] \in Tasks
  BY <1>1, ElementOfSeq
<1> QED
  BY <1>1, <1>2, Zenon DEF Queued, RanBy

\* thread_pool_add: the new task is larger than every task added before.
LEMMA EnqueueTasks ==
    ASSUME TypeOK, TasksKept, LoopsKept, AddEnqueue
    PROVE  TasksKept'
<1>1. i \in Tasks /\ i \in Nat /\ index \in Workers /\ Tasks \subseteq Nat /\ main # "exited" /\ Added = i
  BY Consts DEF TypeOK, LoopsKept, AddEnqueue, Added
<1>2. /\ UNCHANGED <<wpc, req, runs>> /\ main' = "add" /\ Added' = i + 1
      /\ que' = [que EXCEPT ![index] = Append(que[index], i)]
  BY DEF AddEnqueue, workerVars, Added
<1>3. \A w \in Workers : \A k \in Tasks : Has(w, k) => k < i
  BY <1>1, Zenon DEF TasksKept
<1>4. \A w \in Workers : que'[w] = IF w = index THEN Append(que[index], i) ELSE que[w]
  BY <1>1, <1>2 DEF TypeOK
<1>5. que[index] \in Seq(Tasks)
  BY <1>1, TasksTyped
<1>6. \A w \in Workers : \A k : Queued(w, k)' <=> Queued(w, k) \/ (w = index /\ k = i)
  <2> TAKE w \in Workers
  <2>1. CASE w # index
    BY <1>4, <2>1, Zenon DEF Queued
  <2>2. CASE w = index
    <3>1. \A k : (\E j \in 1..Len(Append(que[index], i)) : Append(que[index], i)[j] = k)
                    <=> (\E j \in 1..Len(que[index]) : que[index][j] = k) \/ k = i
      BY <1>1, <1>5, AppendFacts
    <3>2. que'[w] = Append(que[w], i)
      BY <1>4, <2>2
    <3> TAKE k
    <3>3. (\E j \in 1..Len(Append(que[w], i)) : Append(que[w], i)[j] = k)
             <=> (\E j \in 1..Len(que[w]) : que[w][j] = k) \/ k = i
      BY <2>2, <3>1
    <3>4. Queued(w, k)' <=> Queued(w, k) \/ k = i
      BY <3>2, <3>3, Zenon DEF Queued
    <3> QED
      BY <2>2, <3>4, Zenon
  <2> QED
    BY <2>1, <2>2
<1>7. \A w \in Workers : \A k : RanBy(w, k)' <=> RanBy(w, k)
  BY <1>2, Zenon DEF RanBy
<1>8. \A w \in Workers : \A k : Has(w, k)' <=> Has(w, k) \/ (w = index /\ k = i)
  BY <1>2, <1>6, <1>7, Zenon DEF Has
<1>9. ASSUME NEW w \in Workers
      PROVE  \A j, k \in 1..Len(que'[w]) : j < k => que'[w][j] < que'[w][k]
  <2>1. \A j, k \in 1..Len(que[w]) : j < k => que[w][j] < que[w][k]
    BY Zenon DEF TasksKept
  <2>2. CASE w # index
    BY <1>4, <2>1, <2>2, Zenon
  <2>3. CASE w = index
    <3>1. \A j \in 1..Len(que[index]) : que[index][j] < i
      <4> TAKE j \in 1..Len(que[index])
      <4>1. que[index][j] \in Tasks
        BY <1>5, ElementOfSeq
      <4>2. Has(index, que[index][j])
        BY Zenon DEF Has, Queued
      <4> QED
        BY <1>1, <1>3, <4>1, <4>2
    <3>2. \A j, k \in 1..Len(Append(que[index], i)) :
             j < k => Append(que[index], i)[j] < Append(que[index], i)[k]
      BY <1>1, <1>5, <2>1, <2>3, <3>1, AppendFacts
    <3> QED
      BY <1>4, <2>3, <3>2, Zenon
  <2> QED
    BY <2>2, <2>3
<1>10. \A w \in Workers : \A k, m \in Tasks : RanBy(w, k)' /\ Queued(w, m)' => k < m
  <2> SUFFICES ASSUME NEW w \in Workers, NEW k \in Tasks, NEW m \in Tasks, RanBy(w, k), Queued(w, m)'
               PROVE  k < m
    BY <1>7
  <2>1. CASE Queued(w, m)
    BY <2>1, Zenon DEF TasksKept
  <2>2. CASE m = i
    BY <1>3, <2>2, Zenon DEF Has
  <2> QED
    BY <1>6, <2>1, <2>2
<1>11. \A w \in Workers : wpc'[w] = "taken" => \A k \in Tasks :
          (RanBy(w, k)' => k < req'[w]) /\ (Queued(w, k)' => req'[w] < k)
  <2> SUFFICES ASSUME NEW w \in Workers, wpc[w] = "taken", NEW k \in Tasks
               PROVE  (RanBy(w, k) => k < req[w]) /\ (Queued(w, k)' => req[w] < k)
    BY <1>2, <1>7, Zenon
  <2>1. (RanBy(w, k) => k < req[w]) /\ (Queued(w, k) => req[w] < k)
    BY Zenon DEF TasksKept
  <2>2. req[w] \in Tasks
    BY DEF TypeOK, TasksKept
  <2>3. req[w] < i
    BY <1>3, <2>2, Zenon DEF Has
  <2> QED
    BY <1>6, <2>1, <2>3, Zenon
<1>12. \A w \in Workers : wpc'[w] \in {"run", "logging", "free_req"} => RanBy(w, req[w])'
  BY <1>2, Zenon DEF TasksKept, RanBy
<1>13. \A v, w \in Workers : \A k \in Tasks : Has(v, k)' /\ Has(w, k)' => v = w
  <2> SUFFICES ASSUME NEW v \in Workers, NEW w \in Workers, NEW k \in Tasks, Has(v, k)', Has(w, k)'
               PROVE  v = w
    BY Zenon
  <2>1. CASE k = i
    <3>1. ~Has(v, k) /\ ~Has(w, k)
      BY <1>1, <1>3, <2>1
    <3> QED
      BY <1>8, <3>1, Zenon
  <2>2. CASE k # i
    BY <1>8, <2>2, Zenon DEF TasksKept
  <2> QED
    BY <2>1, <2>2
<1>14. \A k \in Tasks : k < Added' <=> \E w \in Workers : Has(w, k)'
  <2> TAKE k \in Tasks
  <2>1. k < Added <=> \E w \in Workers : Has(w, k)
    BY <1>1, Zenon DEF TasksKept
  <2>2. k < Added' <=> k < Added \/ k = i
    BY <1>1, <1>2
  <2> QED
    BY <1>1, <1>8, <2>1, <2>2, Zenon
<1>15. /\ \A w \in Workers : \A j, k \in 1..Len(runs'[w]) : j < k => runs'[w][j] < runs'[w][k]
       /\ \A w \in Workers : req'[w] # NULL <=> wpc'[w] \in {"taken", "run", "logging", "free_req"}
  BY <1>2, Zenon DEF TasksKept
<1> QED
  BY <1>9, <1>10, <1>11, <1>12, <1>13, <1>14, <1>15, Zenon DEF TasksKept

\* queue_dequeue takes the oldest task, which is smaller than the rest.
LEMMA TakeTasks ==
    ASSUME TypeOK, TasksKept, NEW u \in Workers, DequeueTake(u)
    PROVE  TasksKept'
<1>1. /\ que[u] # << >> /\ wpc[u] = "dequeue" /\ UNCHANGED runs /\ UNCHANGED main /\ UNCHANGED i
      /\ wpc' = [wpc EXCEPT ![u] = "taken"]
      /\ req' = [req EXCEPT ![u] = Head(que[u])]
      /\ que' = [que EXCEPT ![u] = Tail(que[u])]
  BY Zenon DEF DequeueTake, Goto, mainVars
<1>2. \A w \in Workers :
         /\ wpc'[w] = IF w = u THEN "taken" ELSE wpc[w]
         /\ req'[w] = IF w = u THEN Head(que[u]) ELSE req[w]
         /\ que'[w] = IF w = u THEN Tail(que[u]) ELSE que[w]
  BY <1>1 DEF TypeOK
<1> DEFINE h == Head(que[u])
<1>3. que[u] \in Seq(Tasks) /\ \A j, k \in 1..Len(que[u]) : j < k => que[u][j] < que[u][k]
  BY TasksTyped, Zenon DEF TasksKept
<1>4. /\ h \in Tasks /\ Tail(que[u]) \in Seq(Tasks)
      /\ \A k : (\E j \in 1..Len(que[u]) : que[u][j] = k)
                   <=> (\E j \in 1..Len(Tail(que[u])) : Tail(que[u])[j] = k) \/ k = h
      /\ \A j, k \in 1..Len(Tail(que[u])) : j < k => Tail(que[u])[j] < Tail(que[u])[k]
      /\ \A j \in 1..Len(Tail(que[u])) : h < Tail(que[u])[j]
  BY <1>1, <1>3, TailFacts
<1> HIDE DEF h
<1>5. \A w \in Workers : \A k : Queued(w, k) <=> Queued(w, k)' \/ (w = u /\ k = h)
  <2> TAKE w \in Workers
  <2>1. CASE w # u
    BY <1>2, <2>1, Zenon DEF Queued
  <2>2. CASE w = u
    <3>1. que'[w] = Tail(que[u])
      BY <1>2, <2>2
    <3>2. \A k : (\E j \in 1..Len(que[u]) : que[u][j] = k)
                    <=> (\E j \in 1..Len(Tail(que[u])) : Tail(que[u])[j] = k) \/ k = h
      BY <1>4
    <3> TAKE k
    <3>3. Queued(w, k) <=> \E j \in 1..Len(que[u]) : que[u][j] = k
      BY <2>2, Zenon DEF Queued
    <3>4. Queued(w, k)' <=> \E j \in 1..Len(Tail(que[u])) : Tail(que[u])[j] = k
      BY <3>1, Zenon DEF Queued
    <3> QED
      BY <2>2, <3>2, <3>3, <3>4, Zenon
  <2> QED
    BY <2>1, <2>2
<1>6. \A k : Queued(u, k)' => h < k
  <2>1. que'[u] = Tail(que[u])
    BY <1>2
  <2> QED
    BY <1>4, <2>1, Zenon DEF Queued
<1>7. \A w \in Workers : \A k : RanBy(w, k)' <=> RanBy(w, k)
  BY <1>1, Zenon DEF RanBy
<1>8. \A w \in Workers : \A k : Has(w, k)' <=> Has(w, k)
  <2> TAKE w \in Workers
  <2> TAKE k
  <2>1. CASE w # u
    <3>1. wpc'[w] = wpc[w] /\ req'[w] = req[w] /\ (Queued(w, k)' <=> Queued(w, k)) /\ (RanBy(w, k)' <=> RanBy(w, k))
      BY <1>2, <1>5, <1>7, <2>1
    <3> QED
      BY <3>1, Zenon DEF Has
  <2>2. CASE w = u
    <3>1. wpc'[u] = "taken" /\ req'[u] = h /\ wpc[u] # "taken"
      BY <1>1, <1>2 DEF h
    <3>2. /\ Queued(u, k) <=> Queued(u, k)' \/ k = h
          /\ RanBy(u, k)' <=> RanBy(u, k)
      BY <1>5, <1>7
    <3> QED
      BY <2>2, <3>1, <3>2, Zenon DEF Has
  <2> QED
    BY <2>1, <2>2
<1>9. ASSUME NEW w \in Workers
      PROVE  \A j, k \in 1..Len(que'[w]) : j < k => que'[w][j] < que'[w][k]
  <2>1. CASE w # u
    BY <1>2, <2>1, Zenon DEF TasksKept
  <2>2. CASE w = u
    BY <1>2, <1>4, <2>2, Zenon
  <2> QED
    BY <2>1, <2>2
<1>10. \A w \in Workers : \A k, m \in Tasks : RanBy(w, k)' /\ Queued(w, m)' => k < m
  BY <1>5, <1>7, Zenon DEF TasksKept
<1>11. \A w \in Workers : wpc'[w] = "taken" => \A k \in Tasks :
          (RanBy(w, k)' => k < req'[w]) /\ (Queued(w, k)' => req'[w] < k)
  <2> SUFFICES ASSUME NEW w \in Workers, wpc'[w] = "taken", NEW k \in Tasks
               PROVE  (RanBy(w, k) => k < req'[w]) /\ (Queued(w, k)' => req'[w] < k)
    BY <1>7, Zenon
  <2>1. CASE w # u
    <3>1. wpc[w] = "taken" /\ req'[w] = req[w] /\ (Queued(w, k)' => Queued(w, k))
      BY <1>2, <1>5, <2>1
    <3> QED
      BY <3>1, Zenon DEF TasksKept
  <2>2. CASE w = u
    <3>1. req'[u] = h /\ Queued(u, h)
      BY <1>2, <1>5 DEF h
    <3>2. RanBy(u, k) => k < h
      BY <1>4, <3>1, Zenon DEF TasksKept
    <3> QED
      BY <1>6, <2>2, <3>1, <3>2, Zenon
  <2> QED
    BY <2>1, <2>2
<1>12. \A w \in Workers : wpc'[w] \in {"run", "logging", "free_req"} => RanBy(w, req[w])'
  <2> SUFFICES ASSUME NEW w \in Workers, wpc'[w] \in {"run", "logging", "free_req"}
               PROVE  RanBy(w, req[w])'
    BY Zenon
  <2>1. w # u /\ wpc'[w] = wpc[w] /\ req'[w] = req[w]
    BY <1>2
  <2>2. RanBy(w, req[w])
    BY <2>1, Zenon DEF TasksKept
  <2> QED
    BY <1>1, <2>1, <2>2, Zenon DEF RanBy
<1>13. \A w \in Workers : req'[w] # NULL <=> wpc'[w] \in {"taken", "run", "logging", "free_req"}
  <2> TAKE w \in Workers
  <2>1. CASE w # u
    BY <1>2, <2>1, Zenon DEF TasksKept
  <2>2. CASE w = u
    <3>1. wpc'[u] = "taken" /\ req'[u] = h /\ h # NULL
      BY <1>2, <1>4, Consts DEF h
    <3> QED
      BY <2>2, <3>1
  <2> QED
    BY <2>1, <2>2
<1>14. \A v, w \in Workers : \A k \in Tasks : Has(v, k)' /\ Has(w, k)' => v = w
  BY <1>8, Zenon DEF TasksKept
<1>15. main' # "exited" => \A k \in Tasks : k < Added' <=> \E w \in Workers : Has(w, k)'
  <2>1. Added' = Added /\ main' = main
    BY <1>1, Zenon DEF Added
  <2> QED
    BY <1>8, <2>1, Zenon DEF TasksKept
<1>16. \A w \in Workers : \A j, k \in 1..Len(runs'[w]) : j < k => runs'[w][j] < runs'[w][k]
  BY <1>1, Zenon DEF TasksKept
<1> QED
  BY <1>9, <1>10, <1>11, <1>12, <1>13, <1>14, <1>15, <1>16, Zenon DEF TasksKept

\* work_fn is called: the task goes from the worker's hands to those it ran.
LEMMA CallTasks ==
    ASSUME TypeOK, TasksKept, NEW u \in Workers, CallTask(u)
    PROVE  TasksKept'
<1>1. /\ wpc[u] = "taken" /\ UNCHANGED <<que, req, main, i>>
      /\ wpc' = [wpc EXCEPT ![u] = "run"]
      /\ runs' = [runs EXCEPT ![u] = Append(runs[u], req[u])]
  BY Zenon DEF CallTask, Goto, mainVars
<1>2. \A w \in Workers :
         /\ wpc'[w] = IF w = u THEN "run" ELSE wpc[w]
         /\ runs'[w] = IF w = u THEN Append(runs[u], req[u]) ELSE runs[w]
  BY <1>1 DEF TypeOK
<1>3. runs[u] \in Seq(Tasks) /\ \A j, k \in 1..Len(runs[u]) : j < k => runs[u][j] < runs[u][k]
  BY TasksTyped, Zenon DEF TasksKept
<1>4. req[u] \in Tasks
  BY <1>1 DEF TypeOK, TasksKept
<1>5. \A j \in 1..Len(runs[u]) : runs[u][j] < req[u]
  <2> TAKE j \in 1..Len(runs[u])
  <2>1. runs[u][j] \in Tasks
    BY <1>3, ElementOfSeq
  <2>2. RanBy(u, runs[u][j])
    BY Zenon DEF RanBy
  <2> QED
    BY <1>1, <2>1, <2>2, Zenon DEF TasksKept
<1>6. /\ \A k : (\E j \in 1..Len(Append(runs[u], req[u])) : Append(runs[u], req[u])[j] = k)
                   <=> (\E j \in 1..Len(runs[u]) : runs[u][j] = k) \/ k = req[u]
      /\ \A j, k \in 1..Len(Append(runs[u], req[u])) :
            j < k => Append(runs[u], req[u])[j] < Append(runs[u], req[u])[k]
  BY <1>3, <1>4, <1>5, AppendFacts
<1>7. \A w \in Workers : \A k : RanBy(w, k)' <=> RanBy(w, k) \/ (w = u /\ k = req[u])
  <2> TAKE w \in Workers
  <2>1. CASE w # u
    BY <1>2, <2>1, Zenon DEF RanBy
  <2>2. CASE w = u
    <3>1. runs'[w] = Append(runs[w], req[w])
      BY <1>2, <2>2
    <3> TAKE k
    <3>2. (\E j \in 1..Len(Append(runs[w], req[w])) : Append(runs[w], req[w])[j] = k)
             <=> (\E j \in 1..Len(runs[w]) : runs[w][j] = k) \/ k = req[w]
      BY <1>6, <2>2
    <3>3. RanBy(w, k)' <=> RanBy(w, k) \/ k = req[w]
      BY <3>1, <3>2, Zenon DEF RanBy
    <3> QED
      BY <2>2, <3>3, Zenon
  <2> QED
    BY <2>1, <2>2
<1>8. \A w \in Workers : \A k : Queued(w, k)' <=> Queued(w, k)
  BY <1>1, Zenon DEF Queued
<1>9. \A w \in Workers : \A k : Has(w, k)' <=> Has(w, k)
  <2> TAKE w \in Workers
  <2> TAKE k
  <2>1. CASE w # u
    <3>1. wpc'[w] = wpc[w] /\ req'[w] = req[w] /\ (Queued(w, k)' <=> Queued(w, k)) /\ (RanBy(w, k)' <=> RanBy(w, k))
      BY <1>1, <1>2, <1>7, <1>8, <2>1
    <3> QED
      BY <3>1, Zenon DEF Has
  <2>2. CASE w = u
    <3>1. wpc'[u] # "taken" /\ (Queued(u, k)' <=> Queued(u, k))
          /\ (RanBy(u, k)' <=> RanBy(u, k) \/ k = req[u])
      BY <1>2, <1>7, <1>8
    <3> QED
      BY <1>1, <2>2, <3>1, Zenon DEF Has
  <2> QED
    BY <2>1, <2>2
<1>10. ASSUME NEW w \in Workers
       PROVE  \A j, k \in 1..Len(runs'[w]) : j < k => runs'[w][j] < runs'[w][k]
  <2>1. CASE w # u
    BY <1>2, <2>1, Zenon DEF TasksKept
  <2>2. CASE w = u
    BY <1>2, <1>6, <2>2, Zenon
  <2> QED
    BY <2>1, <2>2
<1>11. \A w \in Workers : \A k, m \in Tasks : RanBy(w, k)' /\ Queued(w, m)' => k < m
  <2> SUFFICES ASSUME NEW w \in Workers, NEW k \in Tasks, NEW m \in Tasks, RanBy(w, k)', Queued(w, m)
               PROVE  k < m
    BY <1>8, Zenon
  <2>1. CASE RanBy(w, k)
    BY <2>1, Zenon DEF TasksKept
  <2>2. CASE w = u /\ k = req[u]
    BY <1>1, <2>2, Zenon DEF TasksKept
  <2> QED
    BY <1>7, <2>1, <2>2
<1>12. \A w \in Workers : wpc'[w] = "taken" => \A k \in Tasks :
          (RanBy(w, k)' => k < req'[w]) /\ (Queued(w, k)' => req'[w] < k)
  <2> SUFFICES ASSUME NEW w \in Workers, wpc'[w] = "taken", NEW k \in Tasks
               PROVE  (RanBy(w, k)' => k < req[w]) /\ (Queued(w, k) => req[w] < k)
    BY <1>1, <1>8, Zenon
  <2>1. w # u /\ wpc[w] = "taken"
    BY <1>2
  <2>2. RanBy(w, k)' => RanBy(w, k)
    BY <1>7, <2>1
  <2> QED
    BY <2>1, <2>2, Zenon DEF TasksKept
<1>13. \A w \in Workers : wpc'[w] \in {"run", "logging", "free_req"} => RanBy(w, req[w])'
  <2> SUFFICES ASSUME NEW w \in Workers, wpc'[w] \in {"run", "logging", "free_req"}
               PROVE  RanBy(w, req[w])'
    BY Zenon
  <2>1. CASE w # u
    <3>1. wpc[w] \in {"run", "logging", "free_req"} /\ runs'[w] = runs[w]
      BY <1>2, <2>1
    <3>2. RanBy(w, req[w])
      BY <3>1, Zenon DEF TasksKept
    <3> QED
      BY <1>1, <3>1, <3>2, Zenon DEF RanBy
  <2>2. CASE w = u
    <3>1. \E j \in 1..Len(runs'[u]) : runs'[u][j] = req[u]
      <4>1. runs'[u] = Append(runs[u], req[u])
        BY <1>2
      <4> QED
        BY <1>6, <4>1, Zenon
    <3> QED
      BY <1>1, <2>2, <3>1, Zenon DEF RanBy
  <2> QED
    BY <2>1, <2>2
<1>14. \A w \in Workers : req'[w] # NULL <=> wpc'[w] \in {"taken", "run", "logging", "free_req"}
  <2> TAKE w \in Workers
  <2>1. req[w] # NULL <=> wpc[w] \in {"taken", "run", "logging", "free_req"}
    BY Zenon DEF TasksKept
  <2> QED
    BY <1>1, <1>2, <2>1
<1>15. \A v, w \in Workers : \A k \in Tasks : Has(v, k)' /\ Has(w, k)' => v = w
  BY <1>9, Zenon DEF TasksKept
<1>16. main' # "exited" => \A k \in Tasks : k < Added' <=> \E w \in Workers : Has(w, k)'
  <2>1. Added' = Added /\ main' = main
    BY <1>1, Zenon DEF Added
  <2> QED
    BY <1>9, <2>1, Zenon DEF TasksKept
<1>17. \A w \in Workers : \A j, k \in 1..Len(que'[w]) : j < k => que'[w][j] < que'[w][k]
  BY <1>1, Zenon DEF TasksKept
<1> QED
  BY <1>10, <1>11, <1>12, <1>13, <1>14, <1>15, <1>16, <1>17, Zenon DEF TasksKept

\* The worker frees its request: it has no task in its hands.
LEMMA FreeTasks ==
    ASSUME TypeOK, TasksKept, NEW u \in Workers, FreeRequest(u)
    PROVE  TasksKept'
<1>1. /\ wpc[u] = "free_req" /\ UNCHANGED <<que, runs, main, i>>
      /\ wpc' = [wpc EXCEPT ![u] = "dequeue"]
      /\ req' = [req EXCEPT ![u] = NULL]
  BY Zenon DEF FreeRequest, Goto, mainVars
<1>2. \A w \in Workers :
         /\ wpc'[w] = IF w = u THEN "dequeue" ELSE wpc[w]
         /\ req'[w] = IF w = u THEN NULL ELSE req[w]
  BY <1>1 DEF TypeOK
<1>3. /\ \A w \in Workers : \A k : Queued(w, k)' <=> Queued(w, k)
      /\ \A w \in Workers : \A k : RanBy(w, k)' <=> RanBy(w, k)
  BY <1>1, Zenon DEF Queued, RanBy
<1>4. \A w \in Workers : \A k : Has(w, k)' <=> Has(w, k)
  <2> TAKE w \in Workers
  <2> TAKE k
  <2>1. (wpc'[w] = "taken" /\ req'[w] = k) <=> (wpc[w] = "taken" /\ req[w] = k)
    BY <1>1, <1>2
  <2> QED
    BY <1>3, <2>1, Zenon DEF Has
<1>5. \A w \in Workers : wpc'[w] = "taken" => \A k \in Tasks :
          (RanBy(w, k)' => k < req'[w]) /\ (Queued(w, k)' => req'[w] < k)
  <2> SUFFICES ASSUME NEW w \in Workers, wpc'[w] = "taken", NEW k \in Tasks
               PROVE  (RanBy(w, k) => k < req'[w]) /\ (Queued(w, k) => req'[w] < k)
    BY <1>3, Zenon
  <2>1. wpc[w] = "taken" /\ req'[w] = req[w]
    BY <1>2
  <2> QED
    BY <2>1, Zenon DEF TasksKept
<1>6. \A w \in Workers : wpc'[w] \in {"run", "logging", "free_req"} => RanBy(w, req[w])'
  <2> SUFFICES ASSUME NEW w \in Workers, wpc'[w] \in {"run", "logging", "free_req"}
               PROVE  RanBy(w, req[w])'
    BY Zenon
  <2>1. wpc[w] \in {"run", "logging", "free_req"} /\ req'[w] = req[w]
    BY <1>2
  <2>2. RanBy(w, req[w])
    BY <2>1, Zenon DEF TasksKept
  <2> QED
    BY <1>1, <2>1, <2>2, Zenon DEF RanBy
<1>7. \A w \in Workers : req'[w] # NULL <=> wpc'[w] \in {"taken", "run", "logging", "free_req"}
  <2> TAKE w \in Workers
  <2>1. req[w] # NULL <=> wpc[w] \in {"taken", "run", "logging", "free_req"}
    BY Zenon DEF TasksKept
  <2> QED
    BY <1>2, <2>1
<1>8. \A v, w \in Workers : \A k \in Tasks : Has(v, k)' /\ Has(w, k)' => v = w
  BY <1>4, Zenon DEF TasksKept
<1>9. main' # "exited" => \A k \in Tasks : k < Added' <=> \E w \in Workers : Has(w, k)'
  <2>1. Added' = Added /\ main' = main
    BY <1>1, Zenon DEF Added
  <2> QED
    BY <1>4, <2>1, Zenon DEF TasksKept
<1>10. /\ \A w \in Workers : \A j, k \in 1..Len(que'[w]) : j < k => que'[w][j] < que'[w][k]
       /\ \A w \in Workers : \A j, k \in 1..Len(runs'[w]) : j < k => runs'[w][j] < runs'[w][k]
  BY <1>1, Zenon DEF TasksKept
<1>11. \A w \in Workers : \A k, m \in Tasks : RanBy(w, k)' /\ Queued(w, m)' => k < m
  BY <1>3, Zenon DEF TasksKept
<1> QED
  BY <1>5, <1>6, <1>7, <1>8, <1>9, <1>10, <1>11, Zenon DEF TasksKept

\* Joining a worker throws no request away: its queue is empty.
LEMMA JoinFindsEmpty ==
    ASSUME TypeOK, LoopsKept, join_worker_thread
    PROVE  /\ i \in Workers /\ wpc[i] = "finished" /\ que[i] = << >> /\ UNCHANGED que
           /\ heap' = heap \ {<<"queue", i>>, <<"worker", i>>}
<1>1. i \in Workers /\ wpc[i] = "finished" /\ que[i] = << >>
  BY Consts DEF TypeOK, LoopsKept, join_worker_thread
<1>2. que' = [que EXCEPT ![i] = << >>]
  BY DEF join_worker_thread
<1>3. UNCHANGED que
  BY <1>1, <1>2 DEF TypeOK
<1>4. \A j \in 1..Len(que[i]) : FALSE
  <2>1. Len(que[i]) = 0
    BY <1>1, EmptySeq
  <2> QED
    BY <2>1
<1>5. heap' = heap \ {<<"queue", i>>, <<"worker", i>>}
  BY <1>4, Zenon DEF join_worker_thread
<1> QED
  BY <1>1, <1>3, <1>5

LEMMA TasksStep ==
    ASSUME TypeOK, TasksKept, LoopsKept, Next
    PROVE  TasksKept'
<1> USE DEF mainVars, workerVars
<1>1. CASE PoolAlloc \/ PoolReady \/ AddAlloc \/ SleepOver \/ CloseQueue \/ AllClosed
           \/ AllJoined \/ PoolFree \/ ExitFailure
  <2>1. UNCHANGED <<que, runs, req, wpc>>
    BY <1>1, Zenon DEF PoolAlloc, PoolReady, AddAlloc, SleepOver, CloseQueue, AllClosed,
                       AllJoined, PoolFree, ExitFailure
  <2>2. main' # "exited" => main # "exited" /\ Added' = Added
    BY <1>1 DEF PoolAlloc, PoolReady, AddAlloc, SleepOver, CloseQueue, AllClosed,
                AllJoined, PoolFree, ExitFailure, Added
  <2> QED
    BY <2>1, <2>2, TasksUntouched
<1>2. CASE create_worker_thread
  <2>1. UNCHANGED <<que, runs, req, main>> /\ main = "create" /\ i \in Workers
        /\ wpc' = [wpc EXCEPT ![i] = "starting"] /\ wpc[i] = "unborn"
    BY <1>2, Consts DEF create_worker_thread, LoopsKept, TypeOK
  <2>2. \A w \in Workers : wpc'[w] = wpc[w] \/ (wpc'[w] \notin Busy /\ wpc[w] \notin Busy)
    BY <2>1 DEF TypeOK, Busy
  <2>3. main' # "exited" /\ main # "exited" /\ Added' = Added
    BY <2>1 DEF Added
  <2> QED
    BY <2>1, <2>2, <2>3, TasksUntouched
<1>3. CASE AddEnqueue
  BY <1>3, EnqueueTasks
<1>4. CASE join_worker_thread
  <2>1. /\ UNCHANGED <<que, runs, req, main>> /\ main = "join" /\ i \in Workers
        /\ wpc' = [wpc EXCEPT ![i] = "joined"] /\ wpc[i] = "finished"
    BY <1>4, JoinFindsEmpty DEF join_worker_thread
  <2>2. \A w \in Workers : wpc'[w] = wpc[w] \/ (wpc'[w] \notin Busy /\ wpc[w] \notin Busy)
    BY <2>1 DEF TypeOK, Busy
  <2>3. main' # "exited" /\ main # "exited" /\ Added' = Added
    BY <2>1 DEF Added
  <2> QED
    BY <2>1, <2>2, <2>3, TasksUntouched
<1>5. ASSUME NEW w \in Workers, worker_func(w) PROVE TasksKept'
  <2>1. CASE TakeId(w) \/ DequeueNull(w) \/ TaskNoFile(w) \/ TaskOpen(w) \/ TaskLog(w) \/ WorkerExit(w)
    <3>1. UNCHANGED <<que, runs, req, main, i>>
      BY <2>1, Zenon DEF TakeId, DequeueNull, TaskNoFile, TaskOpen, TaskLog, WorkerExit
    <3>2. \A v \in Workers : \/ wpc'[v] = wpc[v]
                             \/ wpc'[v] \notin Busy /\ wpc[v] \notin Busy
                             \/ wpc'[v] \in Busy \ {"taken"} /\ wpc[v] \in Busy \ {"taken"}
      BY <2>1 DEF TypeOK, Goto, Busy, TakeId, DequeueNull, TaskNoFile, TaskOpen, TaskLog, WorkerExit
    <3>3. Added' = Added
      BY <3>1, Zenon DEF Added
    <3> QED
      BY <3>1, <3>2, <3>3, TasksUntouched
  <2> QED
    BY <1>5, <2>1, TakeTasks, CallTasks, FreeTasks DEF worker_func, example_task
<1>6. CASE UNCHANGED vars
  <2>1. UNCHANGED <<que, runs, req, wpc, main, i>>
    BY <1>6 DEF vars
  <2>2. Added' = Added
    BY <2>1, Zenon DEF Added
  <2> QED
    BY <2>1, <2>2, TasksUntouched
<1> QED
  BY <1>1, <1>2, <1>3, <1>4, <1>5, <1>6, NextSplit

----------------------------------------------------------------------------
(* The heap, object by object *)

\* Object by object, what is allocated as long as the program has not given up:
\* what makes PoolInv inductive.
HeapKept ==
    main # "exited" =>
        /\ \A x \in PoolObjects : x \in heap <=> main \notin {"start", "done"}
        /\ \A w \in Workers :
              /\ <<"worker", w>> \in heap <=> wpc[w] \notin {"unborn", "joined"}
              /\ <<"queue", w>> \in heap <=> wpc[w] \notin {"unborn", "joined"}
              /\ <<"mutex", w>> \in heap <=> wpc[w] # "unborn"
              /\ <<"cond", w>> \in heap <=> wpc[w] # "unborn"
        /\ \A k \in Tasks :
              /\ <<"req", k>> \in heap <=>
                    \/ \E w \in Workers : Queued(w, k) \/ req[w] = k
                    \/ main = "enqueue" /\ k = i
              /\ <<"val", k>> \in heap <=> k < Added \/ (main = "enqueue" /\ k = i)

Pending(k) == \E w \in Workers : Queued(w, k) \/ req[w] = k

PoolPart == \A x \in PoolObjects : x \in heap <=> main \notin {"start", "done"}
WorkerPart(w) ==
    /\ <<"worker", w>> \in heap <=> wpc[w] \notin {"unborn", "joined"}
    /\ <<"queue", w>> \in heap <=> wpc[w] \notin {"unborn", "joined"}
    /\ <<"mutex", w>> \in heap <=> wpc[w] # "unborn"
    /\ <<"cond", w>> \in heap <=> wpc[w] # "unborn"
TaskPart(k) ==
    /\ <<"req", k>> \in heap <=> Pending(k) \/ (main = "enqueue" /\ k = i)
    /\ <<"val", k>> \in heap <=> k < Added \/ (main = "enqueue" /\ k = i)

LEMMA HeapParts ==
    HeapKept <=> (main # "exited" => /\ PoolPart
                                     /\ \A w \in Workers : WorkerPart(w)
                                     /\ \A k \in Tasks : TaskPart(k))
BY Zenon DEF HeapKept, PoolPart, WorkerPart, TaskPart, Pending

LEMMA HeapPartsNext ==
    ASSUME main' # "exited" => /\ PoolPart'
                               /\ \A w \in Workers : WorkerPart(w)'
                               /\ \A k \in Tasks : TaskPart(k)'
    PROVE  HeapKept'
BY Zenon DEF HeapKept, PoolPart, WorkerPart, TaskPart, Pending

\* The tasks queued or in a worker's hands are the same, if the queues and the
\* workers' hands are.
LEMMA PendingSame ==
    ASSUME UNCHANGED <<que, req>>
    PROVE  \A k : Pending(k)' <=> Pending(k)
BY Zenon DEF Pending, Queued

\* Steps that leave the heap alone.
LEMMA HeapUntouched ==
    ASSUME HeapKept, main # "exited", UNCHANGED heap,
           main' \notin {"start", "done"} <=> main \notin {"start", "done"},
           \A w \in Workers : /\ wpc'[w] = "unborn" <=> wpc[w] = "unborn"
                              /\ wpc'[w] = "joined" <=> wpc[w] = "joined",
           \A k \in Tasks : Pending(k)' \/ (main' = "enqueue" /\ k = i')
                              <=> Pending(k) \/ (main = "enqueue" /\ k = i),
           \A k \in Tasks : k < Added' \/ (main' = "enqueue" /\ k = i')
                              <=> k < Added \/ (main = "enqueue" /\ k = i)
    PROVE  HeapKept'
<1>1. PoolPart /\ (\A w \in Workers : WorkerPart(w)) /\ (\A k \in Tasks : TaskPart(k))
  BY HeapParts
<1>2. PoolPart'
  BY <1>1, Zenon DEF PoolPart, PoolObjects
<1>3. \A w \in Workers : WorkerPart(w)'
  <2> TAKE w \in Workers
  <2>1. WorkerPart(w)
    BY <1>1
  <2>2. wpc'[w] \notin {"unborn", "joined"} <=> wpc[w] \notin {"unborn", "joined"}
    OBVIOUS
  <2> QED
    BY <2>1, <2>2, Zenon DEF WorkerPart
<1>4. \A k \in Tasks : TaskPart(k)'
  BY <1>1, Zenon DEF TaskPart
<1> QED
  BY <1>2, <1>3, <1>4, HeapPartsNext

\* Who is pending after a dequeue, an enqueue and the free of a request.
LEMMA PendingTake ==
    ASSUME TypeOK, TasksKept, NEW u \in Workers, DequeueTake(u)
    PROVE  \A k \in Tasks : Pending(k)' <=> Pending(k)
<1>1. /\ que[u] # << >> /\ wpc[u] = "dequeue"
      /\ req' = [req EXCEPT ![u] = Head(que[u])]
      /\ que' = [que EXCEPT ![u] = Tail(que[u])]
  BY Zenon DEF DequeueTake, Goto
<1>2. \A w \in Workers :
         /\ req'[w] = IF w = u THEN Head(que[u]) ELSE req[w]
         /\ que'[w] = IF w = u THEN Tail(que[u]) ELSE que[w]
  BY <1>1 DEF TypeOK
<1>3. req[u] = NULL
  BY <1>1 DEF TasksKept
<1>4. \A k : (\E j \in 1..Len(que[u]) : que[u][j] = k)
                <=> (\E j \in 1..Len(Tail(que[u])) : Tail(que[u])[j] = k) \/ k = Head(que[u])
  BY <1>1, TasksTyped, TailFacts
<1> TAKE k \in Tasks
<1>5. \A w \in Workers : (Queued(w, k) \/ req[w] = k) <=> (Queued(w, k)' \/ req'[w] = k)
  <2> TAKE w \in Workers
  <2>1. CASE w # u
    BY <1>2, <2>1, Zenon DEF Queued
  <2>2. CASE w = u
    <3>1. Queued(u, k) <=> \E j \in 1..Len(que[u]) : que[u][j] = k
      BY Zenon DEF Queued
    <3>2. que'[u] = Tail(que[u]) /\ req'[u] = Head(que[u])
      BY <1>2
    <3>3. Queued(u, k)' <=> \E j \in 1..Len(Tail(que[u])) : Tail(que[u])[j] = k
      BY <3>2, Zenon DEF Queued
    <3>4. req[u] # k
      BY <1>3, Consts
    <3> QED
      BY <1>4, <2>2, <3>1, <3>2, <3>3, <3>4, Zenon
  <2> QED
    BY <2>1, <2>2
<1> QED
  BY <1>5, Zenon DEF Pending

LEMMA PendingEnqueue ==
    ASSUME TypeOK, LoopsKept, AddEnqueue
    PROVE  \A k \in Tasks : Pending(k)' <=> Pending(k) \/ k = i
<1>1. /\ index \in Workers /\ i \in Tasks /\ UNCHANGED req
      /\ que' = [que EXCEPT ![index] = Append(que[index], i)]
  BY Consts DEF AddEnqueue, workerVars, TypeOK, LoopsKept
<1>2. \A w \in Workers : que'[w] = IF w = index THEN Append(que[index], i) ELSE que[w]
  BY <1>1 DEF TypeOK
<1>3. \A k : (\E j \in 1..Len(Append(que[index], i)) : Append(que[index], i)[j] = k)
                <=> (\E j \in 1..Len(que[index]) : que[index][j] = k) \/ k = i
  BY <1>1, TasksTyped, AppendFacts
<1> TAKE k \in Tasks
<1>4. \A w \in Workers : w # index => (Queued(w, k)' <=> Queued(w, k))
  BY <1>2, Zenon DEF Queued
<1>5. Queued(index, k) <=> \E j \in 1..Len(que[index]) : que[index][j] = k
  BY Zenon DEF Queued
<1>6. (\E j \in 1..Len(que'[index]) : que'[index][j] = k) <=> Queued(index, k) \/ k = i
  <2>1. que'[index] = Append(que[index], i)
    BY <1>1, <1>2
  <2> QED
    BY <1>3, <1>5, <2>1, Zenon
<1>7. \A w \in Workers : (Queued(w, k)' <=> Queued(w, k) \/ (w = index /\ k = i))
  <2> TAKE w \in Workers
  <2>1. CASE w # index
    BY <1>4, <2>1
  <2>2. CASE w = index
    BY <1>6, <2>2, Zenon DEF Queued
  <2> QED
    BY <2>1, <2>2
<1> QED
  BY <1>1, <1>7, Zenon DEF Pending

LEMMA PendingFree ==
    ASSUME TypeOK, TasksKept, NEW u \in Workers, FreeRequest(u)
    PROVE  /\ req[u] \in Tasks /\ RanBy(u, req[u])
           /\ \A k \in Tasks : Pending(k)' <=> Pending(k) /\ k # req[u]
<1>1. wpc[u] = "free_req" /\ UNCHANGED que /\ req' = [req EXCEPT ![u] = NULL]
  BY Zenon DEF FreeRequest, Goto
<1>2. \A w \in Workers : req'[w] = IF w = u THEN NULL ELSE req[w]
  BY <1>1 DEF TypeOK
<1>3. req[u] \in Tasks /\ RanBy(u, req[u])
  BY <1>1 DEF TypeOK, TasksKept
<1>4. Has(u, req[u])
  BY <1>3, Zenon DEF Has
<1>5. \A w \in Workers : ~Queued(w, req[u])
  <2> SUFFICES ASSUME NEW w \in Workers, Queued(w, req[u]) PROVE FALSE
    BY Zenon
  <2>1. w = u
    BY <1>3, <1>4, Zenon DEF TasksKept, Has
  <2>2. req[u] < req[u]
    BY <1>3, <2>1, Zenon DEF TasksKept
  <2>3. req[u] \in Nat
    BY <1>3, Consts
  <2>4. \A n \in Nat : ~(n < n)
    OBVIOUS
  <2> QED
    BY <2>2, <2>3, <2>4, Zenon
<1>6. \A w \in Workers : w # u => req[w] # req[u]
  <2> SUFFICES ASSUME NEW w \in Workers, w # u, req[w] = req[u] PROVE FALSE
    BY Zenon
  <2>1. wpc[w] \in {"taken", "run", "logging", "free_req"}
    BY <1>3, Consts DEF TasksKept
  <2>2. Has(w, req[u])
    <3>1. CASE wpc[w] = "taken"
      BY <3>1, Zenon DEF Has
    <3>2. CASE wpc[w] \in {"run", "logging", "free_req"}
      <4>1. RanBy(w, req[w])
        BY <3>2, Zenon DEF TasksKept
      <4> QED
        BY <4>1, Zenon DEF Has
    <3> QED
      BY <2>1, <3>1, <3>2
  <2> QED
    BY <1>3, <1>4, <2>2, Zenon DEF TasksKept
<1>7. ASSUME NEW k \in Tasks PROVE Pending(k)' <=> Pending(k) /\ k # req[u]
  <2>1. NULL # k
    BY Consts
  <2>2. \A w \in Workers : (Queued(w, k)' \/ req'[w] = k) <=> (Queued(w, k) \/ req[w] = k) /\ k # req[u]
    <3> TAKE w \in Workers
    <3>1. Queued(w, k)' <=> Queued(w, k)
      BY <1>1, Zenon DEF Queued
    <3>2. Queued(w, k) => k # req[u]
      BY <1>5, Zenon
    <3>3. CASE w = u
      BY <1>2, <2>1, <3>1, <3>2, <3>3
    <3>4. CASE w # u
      BY <1>2, <1>6, <3>1, <3>2, <3>4
    <3> QED
      BY <3>3, <3>4
  <2> QED
    BY <2>2, Zenon DEF Pending
<1> QED
  BY <1>3, <1>7

LEMMA HeapStep ==
    ASSUME TypeOK, TasksKept, LoopsKept, HeapKept, Next
    PROVE  HeapKept'
<1> USE DEF mainVars, workerVars
<1>0. main # "exited" =>
        PoolPart /\ (\A w \in Workers : WorkerPart(w)) /\ (\A k \in Tasks : TaskPart(k))
  BY HeapParts
<1>t. i \in Nat /\ index \in Workers /\ wpc \in [Workers -> WorkerLabels]
  BY DEF TypeOK
<1>c. /\ num_threads \in Nat /\ NUM_TASKS \in Nat /\ Workers \subseteq Nat /\ Tasks \subseteq Nat
      /\ \A n \in Nat : n < num_threads <=> n \in Workers
      /\ \A n \in Nat : n < NUM_TASKS <=> n \in Tasks
  BY Consts
<1>1. CASE PoolAlloc
  <2>1. main = "start" /\ main' = "create" /\ heap' = heap \cup PoolObjects /\ UNCHANGED <<que, req, wpc>>
    BY <1>1 DEF PoolAlloc
  <2>2. PoolPart'
    BY <2>1 DEF PoolPart, PoolObjects
  <2>3. ASSUME NEW w \in Workers PROVE WorkerPart(w)'
    <3>1. WorkerPart(w)
      BY <1>0, <2>1
    <3> QED
      BY <2>1, <3>1 DEF WorkerPart, PoolObjects
  <2>4. ASSUME NEW k \in Tasks PROVE TaskPart(k)'
    <3>1. TaskPart(k) /\ (Pending(k)' <=> Pending(k))
      BY <1>0, <2>1, PendingSame
    <3>2. Added = 0 /\ Added' = 0
      BY <2>1 DEF Added
    <3> QED
      BY <2>1, <3>1, <3>2 DEF TaskPart, PoolObjects
  <2> QED
    BY <2>2, <2>3, <2>4, HeapPartsNext
<1>2. CASE create_worker_thread
  <2>1. /\ main = "create" /\ main' = "create" /\ heap' = heap \cup WorkerObjects(i)
        /\ UNCHANGED <<que, req>> /\ wpc' = [wpc EXCEPT ![i] = "starting"]
        /\ i \in Workers /\ wpc[i] = "unborn"
    BY <1>t, <1>c, <1>2 DEF create_worker_thread, LoopsKept
  <2>2. PoolPart'
    BY <1>0, <2>1 DEF PoolPart, PoolObjects, WorkerObjects
  <2>3. ASSUME NEW w \in Workers PROVE WorkerPart(w)'
    <3>1. WorkerPart(w)
      BY <1>0, <2>1
    <3>2. wpc'[w] = IF w = i THEN "starting" ELSE wpc[w]
      BY <1>t, <2>1
    <3> QED
      BY <2>1, <3>1, <3>2 DEF WorkerPart, WorkerObjects
  <2>4. ASSUME NEW k \in Tasks PROVE TaskPart(k)'
    <3>1. TaskPart(k) /\ (Pending(k)' <=> Pending(k))
      BY <1>0, <2>1, PendingSame
    <3>2. Added = 0 /\ Added' = 0
      BY <2>1 DEF Added
    <3> QED
      BY <2>1, <3>1, <3>2 DEF TaskPart, WorkerObjects
  <2> QED
    BY <2>2, <2>3, <2>4, HeapPartsNext
<1>3. CASE PoolReady \/ SleepOver \/ CloseQueue \/ AllClosed \/ AllJoined
  <2>1. /\ main \in {"create", "add", "close", "join"}
        /\ main' \in {"add", "close", "join", "free"} /\ UNCHANGED <<heap, wpc, que, req>>
    BY <1>3 DEF PoolReady, SleepOver, CloseQueue, AllClosed, AllJoined
  <2>2. Added' = Added
    BY <1>3 DEF PoolReady, SleepOver, CloseQueue, AllClosed, AllJoined, Added
  <2>3. \A k \in Tasks : Pending(k)' <=> Pending(k)
    BY <2>1, PendingSame
  <2> QED
    BY <2>1, <2>2, <2>3, HeapUntouched
<1>4. CASE AddAlloc
  <2>1. /\ main = "add" /\ main' = "enqueue" /\ heap' = heap \cup TaskObjects(i)
        /\ UNCHANGED <<que, req, wpc, i>>
    BY <1>4 DEF AddAlloc
  <2>2. PoolPart'
    BY <1>0, <2>1 DEF PoolPart, PoolObjects, TaskObjects
  <2>3. ASSUME NEW w \in Workers PROVE WorkerPart(w)'
    <3>1. WorkerPart(w)
      BY <1>0, <2>1
    <3> QED
      BY <2>1, <3>1 DEF WorkerPart, TaskObjects
  <2>4. ASSUME NEW k \in Tasks PROVE TaskPart(k)'
    <3>1. TaskPart(k) /\ (Pending(k)' <=> Pending(k))
      BY <1>0, <2>1, PendingSame
    <3>2. Added = i /\ Added' = i
      BY <2>1 DEF Added
    <3> QED
      BY <2>1, <3>1, <3>2 DEF TaskPart, TaskObjects
  <2> QED
    BY <2>2, <2>3, <2>4, HeapPartsNext
<1>5. CASE AddEnqueue
  <2>1. main = "enqueue" /\ main' = "add" /\ UNCHANGED <<heap, wpc>> /\ i' = i + 1
    BY <1>5 DEF AddEnqueue
  <2>2. Added = i /\ Added' = i + 1
    BY <2>1 DEF Added
  <2>3. \A k \in Tasks : Pending(k)' <=> Pending(k) \/ k = i
    BY <1>5, PendingEnqueue
  <2>4. \A k \in Tasks : k < Added' <=> k < Added \/ k = i
    BY <1>t, <1>c, <2>2
  <2> QED
    BY <2>1, <2>3, <2>4, HeapUntouched
<1>6. CASE join_worker_thread
  <2>1. /\ main = "join" /\ main' = "join" /\ heap' = heap \ {<<"queue", i>>, <<"worker", i>>}
        /\ UNCHANGED <<que, req>> /\ wpc' = [wpc EXCEPT ![i] = "joined"]
        /\ i \in Workers /\ wpc[i] = "finished"
    BY <1>6, JoinFindsEmpty DEF join_worker_thread
  <2>2. PoolPart'
    BY <1>0, <2>1 DEF PoolPart, PoolObjects
  <2>3. ASSUME NEW w \in Workers PROVE WorkerPart(w)'
    <3>1. WorkerPart(w)
      BY <1>0, <2>1
    <3>2. wpc'[w] = IF w = i THEN "joined" ELSE wpc[w]
      BY <1>t, <2>1
    <3> QED
      BY <2>1, <3>1, <3>2 DEF WorkerPart
  <2>4. ASSUME NEW k \in Tasks PROVE TaskPart(k)'
    <3>1. TaskPart(k) /\ (Pending(k)' <=> Pending(k))
      BY <1>0, <2>1, PendingSame
    <3>2. Added = NUM_TASKS /\ Added' = NUM_TASKS
      BY <2>1 DEF Added
    <3> QED
      BY <2>1, <3>1, <3>2 DEF TaskPart
  <2> QED
    BY <2>2, <2>3, <2>4, HeapPartsNext
<1>7. CASE PoolFree
  <2>1. main = "free" /\ main' = "done" /\ heap' = heap \ PoolObjects /\ UNCHANGED <<que, req, wpc>>
    BY <1>7 DEF PoolFree
  <2>2. PoolPart'
    BY <2>1 DEF PoolPart, PoolObjects
  <2>3. ASSUME NEW w \in Workers PROVE WorkerPart(w)'
    <3>1. WorkerPart(w)
      BY <1>0, <2>1
    <3> QED
      BY <2>1, <3>1 DEF WorkerPart, PoolObjects
  <2>4. ASSUME NEW k \in Tasks PROVE TaskPart(k)'
    <3>1. TaskPart(k) /\ (Pending(k)' <=> Pending(k))
      BY <1>0, <2>1, PendingSame
    <3>2. Added = NUM_TASKS /\ Added' = NUM_TASKS
      BY <2>1 DEF Added
    <3> QED
      BY <2>1, <3>1, <3>2 DEF TaskPart, PoolObjects
  <2> QED
    BY <2>2, <2>3, <2>4, HeapPartsNext
<1>8. CASE ExitFailure
  <2>1. main' = "exited"
    BY <1>8 DEF ExitFailure
  <2> QED
    BY <2>1 DEF HeapKept
<1>9. ASSUME NEW u \in Workers, worker_func(u) PROVE HeapKept'
  <2>1. main # "exited" /\ UNCHANGED <<main, i>>
    BY <1>9, Zenon DEF worker_func, example_task, TakeId, DequeueTake, DequeueNull, CallTask, TaskNoFile,
                TaskOpen, TaskLog, FreeRequest, WorkerExit, Goto, Running
  <2>2. Added' = Added
    BY <2>1, Zenon DEF Added
  <2>3. \A w \in Workers : /\ wpc'[w] = "unborn" <=> wpc[w] = "unborn"
                           /\ wpc'[w] = "joined" <=> wpc[w] = "joined"
    BY <1>9, <1>t DEF worker_func, example_task, TakeId, DequeueTake, DequeueNull, CallTask, TaskNoFile,
                TaskOpen, TaskLog, FreeRequest, WorkerExit, Goto
  <2>4. CASE FreeRequest(u)
    <3>1. heap' = heap \ {<<"req", req[u]>>}
      BY <2>4 DEF FreeRequest
    <3>2. req[u] \in Tasks /\ RanBy(u, req[u])
          /\ \A k \in Tasks : Pending(k)' <=> Pending(k) /\ k # req[u]
      BY <2>4, PendingFree
    <3>3. PoolPart'
      BY <1>0, <2>1, <3>1 DEF PoolPart, PoolObjects
    <3>4. ASSUME NEW w \in Workers PROVE WorkerPart(w)'
      <4>1. WorkerPart(w)
        BY <1>0, <2>1
      <4> QED
        BY <2>3, <3>1, <4>1 DEF WorkerPart
    <3>5. main = "enqueue" => req[u] # i
      <4>1. Has(u, req[u])
        BY <3>2, Zenon DEF Has
      <4>2. req[u] < Added
        BY <2>1, <3>2, <4>1, Zenon DEF TasksKept
      <4> QED
        BY <1>t, <4>2 DEF Added
    <3>6. ASSUME NEW k \in Tasks PROVE TaskPart(k)'
      <4>1. TaskPart(k) /\ (Pending(k)' <=> Pending(k) /\ k # req[u])
        BY <1>0, <2>1, <3>2
      <4> QED
        BY <2>1, <2>2, <3>1, <3>5, <4>1 DEF TaskPart
    <3> QED
      BY <3>3, <3>4, <3>6, HeapPartsNext
  <2>5. CASE DequeueTake(u)
    <3>1. UNCHANGED heap
      BY <2>5 DEF DequeueTake
    <3>2. \A k \in Tasks : Pending(k)' <=> Pending(k)
      BY <2>5, PendingTake
    <3> QED
      BY <2>1, <2>2, <2>3, <3>1, <3>2, HeapUntouched
  <2>6. CASE ~FreeRequest(u) /\ ~DequeueTake(u)
    <3>1. UNCHANGED <<heap, que, req>>
      BY <1>9, <2>6, Zenon DEF worker_func, example_task, TakeId, DequeueNull, CallTask, TaskNoFile,
                TaskOpen, TaskLog, WorkerExit
    <3>2. \A k \in Tasks : Pending(k)' <=> Pending(k)
      BY <3>1, PendingSame
    <3> QED
      BY <2>1, <2>2, <2>3, <3>1, <3>2, HeapUntouched
  <2> QED
    BY <2>4, <2>5, <2>6
<1>10. CASE UNCHANGED vars
  BY <1>10, Zenon DEF vars, HeapKept, Queued, Added
<1> QED
  BY <1>1, <1>2, <1>3, <1>4, <1>5, <1>6, <1>7, <1>8, <1>9, <1>10, NextSplit

----------------------------------------------------------------------------
(* What is in use, and what the program is to free *)

\* The members of InUse, without sets of sets.
LEMMA InUseMembers ==
    \A x : x \in InUse <=>
        \/ \E w \in Workers : wpc[w] \notin {"unborn", "finished", "joined"} /\ x \in WorkerObjects(w)
        \/ \E w \in Workers : \E j \in 1..Len(que[w]) : x \in TaskObjects(que[w][j])
        \/ \E w \in Workers : req[w] # NULL /\ x \in TaskObjects(req[w])
        \/ main = "enqueue" /\ x \in TaskObjects(i)
        \/ main \notin {"start", "done", "exited"} /\ x \in PoolObjects
        \/ \E w \in Workers : wpc[w] = "finished" /\ x \in {<<"worker", w>>, <<"queue", w>>}
<1> TAKE x
<1>1. x \in (UNION {WorkerObjects(w) : w \in Alive})
        <=> \E w \in Workers : wpc[w] \notin {"unborn", "finished", "joined"} /\ x \in WorkerObjects(w)
  BY Zenon DEF Alive
<1>2. x \in (UNION {UNION {TaskObjects(que[w][j]) : j \in 1..Len(que[w])} : w \in Workers})
        <=> \E w \in Workers : \E j \in 1..Len(que[w]) : x \in TaskObjects(que[w][j])
  <2> DEFINE S(w) == UNION {TaskObjects(que[w][j]) : j \in 1..Len(que[w])}
  <2>1. \A w : x \in S(w) <=> \E j \in 1..Len(que[w]) : x \in TaskObjects(que[w][j])
    BY Zenon
  <2> HIDE DEF S
  <2>2. x \in UNION {S(w) : w \in Workers} <=> \E w \in Workers : x \in S(w)
    BY Zenon
  <2>3. x \in UNION {S(w) : w \in Workers} <=> \E w \in Workers :
           \E j \in 1..Len(que[w]) : x \in TaskObjects(que[w][j])
    BY <2>1, <2>2, Zenon
  <2> QED
    BY <2>3, Zenon DEF S
<1>3. x \in (UNION {TaskObjects(req[w]) : w \in {v \in Workers : req[v] # NULL}})
        <=> \E w \in Workers : req[w] # NULL /\ x \in TaskObjects(req[w])
  BY Zenon
<1>4. x \in (UNION {{<<"worker", w>>, <<"queue", w>>} : w \in {v \in Workers : wpc[v] = "finished"}})
        <=> \E w \in Workers : wpc[w] = "finished" /\ x \in {<<"worker", w>>, <<"queue", w>>}
  BY Zenon
<1>5. x \in (IF main = "enqueue" THEN TaskObjects(i) ELSE {}) <=> main = "enqueue" /\ x \in TaskObjects(i)
  BY Zenon
<1>6. x \in (IF main \in {"start", "done", "exited"} THEN {} ELSE PoolObjects)
        <=> main \notin {"start", "done", "exited"} /\ x \in PoolObjects
  BY Zenon
<1> QED
  BY <1>1, <1>2, <1>3, <1>4, <1>5, <1>6, Zenon DEF InUse

LEMMA RanMembers ==
    \A k : k \in Ran <=> \E w \in Workers : \E j \in 1..Len(runs[w]) : runs[w][j] = k
<1> TAKE k
<1> DEFINE S(w) == {runs[w][j] : j \in 1..Len(runs[w])}
<1>1. \A w : k \in S(w) <=> \E j \in 1..Len(runs[w]) : runs[w][j] = k
  BY Zenon
<1>2. k \in Ran <=> k \in UNION {S(w) : w \in Workers}
  BY Zenon DEF Ran
<1> HIDE DEF S
<1>3. k \in UNION {S(w) : w \in Workers} <=> \E w \in Workers : k \in S(w)
  BY Zenon
<1> QED
  BY <1>1, <1>2, <1>3, Zenon

\* A worker that has a task in its hands was given it.
LEMMA HandsHold ==
    ASSUME TypeOK, TasksKept, NEW w \in Workers, req[w] # NULL
    PROVE  req[w] \in Tasks /\ Has(w, req[w])
<1>1. req[w] \in Tasks /\ wpc[w] \in {"taken", "run", "logging", "free_req"}
  BY DEF TypeOK, TasksKept
<1>2. CASE wpc[w] = "taken"
  BY <1>1, <1>2, Zenon DEF Has
<1>3. CASE wpc[w] # "taken"
  <2>1. RanBy(w, req[w])
    BY <1>1, <1>3 DEF TasksKept
  <2> QED
    BY <1>1, <2>1, Zenon DEF Has
<1> QED
  BY <1>2, <1>3

LEMMA UsedIsAllocated ==
    ASSUME TypeOK, TasksKept, LoopsKept, HeapKept, main # "exited"
    PROVE  MemorySafe
<1>0. PoolPart /\ (\A w \in Workers : WorkerPart(w)) /\ (\A k \in Tasks : TaskPart(k))
  BY HeapParts
<1>1. ASSUME NEW k \in Tasks, Pending(k), \E w \in Workers : Has(w, k) PROVE TaskObjects(k) \subseteq heap
  <2>1. k < Added
    BY <1>1, Zenon DEF TasksKept
  <2> QED
    BY <1>0, <1>1, <2>1 DEF TaskPart, TaskObjects
<1> SUFFICES ASSUME NEW x, x \in InUse PROVE x \in heap
  BY Zenon DEF MemorySafe
<1>2. ASSUME NEW w \in Workers, wpc[w] \notin {"unborn", "finished", "joined"}, x \in WorkerObjects(w)
      PROVE  x \in heap
  BY <1>0, <1>2 DEF WorkerPart, WorkerObjects
<1>3. ASSUME NEW w \in Workers, NEW j \in 1..Len(que[w]), x \in TaskObjects(que[w][j])
      PROVE  x \in heap
  <2>1. Queued(w, que[w][j])
    BY Zenon DEF Queued
  <2>2. que[w][j] \in Tasks
    BY <2>1, TasksTyped
  <2>3. Pending(que[w][j]) /\ Has(w, que[w][j])
    BY <2>1, Zenon DEF Pending, Has
  <2>4. TaskObjects(que[w][j]) \subseteq heap
    BY <1>1, <2>2, <2>3, Zenon
  <2> QED
    BY <1>3, <2>4, Zenon
<1>4. ASSUME NEW w \in Workers, req[w] # NULL, x \in TaskObjects(req[w]) PROVE x \in heap
  <2>1. req[w] \in Tasks /\ Has(w, req[w])
    BY <1>4, HandsHold
  <2>2. Pending(req[w])
    BY Zenon DEF Pending
  <2>3. TaskObjects(req[w]) \subseteq heap
    BY <1>1, <2>1, <2>2, Zenon
  <2> QED
    BY <1>4, <2>3, Zenon
<1>5. ASSUME main = "enqueue", x \in TaskObjects(i) PROVE x \in heap
  <2>1. i \in Tasks
    BY <1>5, Consts DEF TypeOK, LoopsKept
  <2>2. TaskPart(i)
    BY <1>0, <2>1
  <2> QED
    BY <1>5, <2>2 DEF TaskPart, TaskObjects
<1>6. ASSUME main \notin {"start", "done", "exited"}, x \in PoolObjects PROVE x \in heap
  BY <1>0, <1>6 DEF PoolPart
<1>7. ASSUME NEW w \in Workers, wpc[w] = "finished", x \in {<<"worker", w>>, <<"queue", w>>}
      PROVE  x \in heap
  BY <1>0, <1>7 DEF WorkerPart
<1> QED
  BY <1>2, <1>3, <1>4, <1>5, <1>6, <1>7, InUseMembers, Zenon

\* The members of Owned, without sets of sets.
LEMMA OwnedMembers ==
    \A x : x \in Owned <=>
        \/ x \in PoolObjects
        \/ \E w \in Workers : x \in {<<"worker", w>>, <<"queue", w>>}
        \/ \E k \in Tasks : x = <<"req", k>>
BY Zenon DEF Owned

\* What the program is to free is in use as long as it is allocated.
LEMMA OwnedIsUsed ==
    ASSUME TypeOK, TasksKept, LoopsKept, HeapKept, main # "exited"
    PROVE  NothingLost
<1>0. PoolPart /\ (\A w \in Workers : WorkerPart(w)) /\ (\A k \in Tasks : TaskPart(k))
  BY HeapParts
<1> SUFFICES ASSUME NEW x, x \in heap, x \in Owned PROVE x \in InUse
  BY Zenon DEF NothingLost
<1>1. ASSUME x \in PoolObjects PROVE x \in InUse
  <2>1. main \notin {"start", "done", "exited"}
    BY <1>0, <1>1 DEF PoolPart
  <2> QED
    BY <1>1, <2>1, InUseMembers, Zenon
<1>2. ASSUME NEW w \in Workers, x \in {<<"worker", w>>, <<"queue", w>>} PROVE x \in InUse
  <2>1. wpc[w] \notin {"unborn", "joined"}
    BY <1>0, <1>2 DEF WorkerPart
  <2>2. CASE wpc[w] = "finished"
    BY <1>2, <2>2, InUseMembers, Zenon
  <2>3. CASE wpc[w] # "finished"
    <3>1. x \in WorkerObjects(w) /\ wpc[w] \notin {"unborn", "finished", "joined"}
      BY <1>2, <2>1, <2>3 DEF WorkerObjects
    <3> QED
      BY <3>1, InUseMembers, Zenon
  <2> QED
    BY <2>2, <2>3
<1>3. ASSUME NEW k \in Tasks, x = <<"req", k>> PROVE x \in InUse
  <2>1. Pending(k) \/ (main = "enqueue" /\ k = i)
    BY <1>0, <1>3 DEF TaskPart
  <2>2. x \in TaskObjects(k) /\ k # NULL
    BY <1>3, Consts DEF TaskObjects
  <2>3. ASSUME NEW w \in Workers, Queued(w, k) PROVE x \in InUse
    BY <2>2, <2>3, InUseMembers, Zenon DEF Queued
  <2>4. ASSUME NEW w \in Workers, req[w] = k PROVE x \in InUse
    BY <2>2, <2>4, InUseMembers, Zenon
  <2>5. ASSUME main = "enqueue", k = i PROVE x \in InUse
    BY <2>2, <2>5, InUseMembers, Zenon
  <2> QED
    BY <2>1, <2>3, <2>4, <2>5, Zenon DEF Pending
<1> QED
  BY <1>1, <1>2, <1>3, OwnedMembers, Zenon

----------------------------------------------------------------------------
(* The theorems *)

\* The inductive invariant.
PoolIndInv == PoolInv /\ HeapKept

LEMMA InitPool == Init => PoolIndInv
<1> SUFFICES ASSUME Init PROVE PoolIndInv
  OBVIOUS
<1>1. << >> \in Seq(Tasks) /\ Len(<< >>) = 0
  BY EmptySeq
<1>2. TypeOK
  BY <1>1, Consts DEF Init, TypeOK, MainLabels, WorkerLabels
<1>3. /\ main = "start" /\ i = 0 /\ heap = {}
      /\ \A w \in Workers : wpc[w] = "unborn" /\ req[w] = NULL /\ que[w] = << >> /\ runs[w] = << >>
  BY Zenon DEF Init
<1>4. \A w \in Workers : ~closed[w]
  BY Zenon DEF Init
<1>5. /\ \A w \in Workers : \A j \in 1..Len(que[w]) : FALSE
      /\ \A w \in Workers : \A j \in 1..Len(runs[w]) : FALSE
  <2> SUFFICES ASSUME NEW w \in Workers
               PROVE  (\A j \in 1..Len(que[w]) : FALSE) /\ (\A j \in 1..Len(runs[w]) : FALSE)
    BY Zenon
  <2>1. Len(que[w]) = 0 /\ Len(runs[w]) = 0
    BY <1>1, <1>3
  <2> QED
    BY <2>1
<1>6. /\ \A w \in Workers : \A k : ~Queued(w, k)
      /\ \A w \in Workers : \A k : ~RanBy(w, k)
  BY <1>5, Zenon DEF Queued, RanBy
<1>7. \A w \in Workers : \A k : ~Has(w, k)
  BY <1>3, <1>6 DEF Has
<1>8. \A k \in Tasks : ~(k < Added)
  <2>1. Added = 0
    BY <1>3 DEF Added
  <2> QED
    BY <2>1, Consts
<1>9. TasksKept
  <2>1. \A w \in Workers : wpc[w] \notin {"taken", "run", "logging", "free_req"} /\ req[w] = NULL
    BY <1>3
  <2> QED
    BY <1>5, <1>6, <1>7, <1>8, <2>1, Zenon DEF TasksKept
<1>10. LoopsKept
  BY <1>3, <1>4, Consts DEF LoopsKept
<1>11. HeapKept
  <2>1. PoolPart
    BY <1>3 DEF PoolPart, PoolObjects
  <2>2. \A w \in Workers : WorkerPart(w)
    BY <1>3 DEF WorkerPart
  <2>3. \A k \in Tasks : TaskPart(k)
    <3> TAKE k \in Tasks
    <3>1. ~Pending(k)
      BY <1>3, <1>6, Consts DEF Pending
    <3> QED
      BY <1>3, <1>8, <3>1 DEF TaskPart
  <2> QED
    BY <2>1, <2>2, <2>3, HeapParts
<1>12. MemorySafe /\ NothingLost
  BY <1>2, <1>3, <1>9, <1>10, <1>11, UsedIsAllocated, OwnedIsUsed
<1> QED
  BY <1>2, <1>9, <1>10, <1>11, <1>12 DEF PoolInv, PoolIndInv

\* A program that gave up takes no further step, and giving up puts nothing
\* into use.
LEMMA ExitIsLast ==
    ASSUME Next, main = "exited"
    PROVE  UNCHANGED vars
BY Zenon DEF Next, MainStep, thread_pool_init, thread_pool_add, thread_pool_destroy, SleepOver,
       PoolAlloc, create_worker_thread, PoolReady, AddAlloc, AddEnqueue, CloseQueue, AllClosed,
       join_worker_thread, AllJoined, PoolFree, ExitFailure, worker_func, example_task, TakeId,
       DequeueTake, DequeueNull, CallTask, TaskNoFile, TaskOpen, TaskLog, FreeRequest,
       WorkerExit, Goto, Running, Terminated

AliveObjects  == UNION {WorkerObjects(w) : w \in Alive}
QueuedObjects == UNION {UNION {TaskObjects(que[w][j]) : j \in 1..Len(que[w])} : w \in Workers}
HeldObjects   == UNION {TaskObjects(req[w]) : w \in {v \in Workers : req[v] # NULL}}
EndedObjects  == UNION {{<<"worker", w>>, <<"queue", w>>} : w \in {v \in Workers : wpc[v] = "finished"}}

LEMMA UseSame ==
    ASSUME UNCHANGED <<wpc, que, req>>
    PROVE  UNCHANGED AliveObjects /\ UNCHANGED QueuedObjects
           /\ UNCHANGED HeldObjects /\ UNCHANGED EndedObjects
<1>1. UNCHANGED AliveObjects
  BY DEF AliveObjects, Alive
<1>2. UNCHANGED QueuedObjects
  BY DEF QueuedObjects
<1>3. UNCHANGED HeldObjects
  BY DEF HeldObjects
<1>4. UNCHANGED EndedObjects
  BY DEF EndedObjects
<1> QED
  BY <1>1, <1>2, <1>3, <1>4

LEMMA MemorySame ==
    ASSUME PoolInv, UNCHANGED vars
    PROVE  MemorySafe' /\ NothingLost'
<1>1. UNCHANGED <<main, i, wpc, que, req, runs, heap>>
  BY Zenon DEF vars, mainVars, workerVars
<1>2. UNCHANGED InUse
  BY <1>1, UseSame, Zenon DEF InUse, AliveObjects, QueuedObjects, HeldObjects, EndedObjects
<1>3. UNCHANGED Owned
  BY DEF Owned
<1> QED
  BY <1>1, <1>2, <1>3, Zenon DEF PoolInv, MemorySafe, NothingLost

LEMMA MemoryAtExit ==
    ASSUME PoolInv, ExitFailure
    PROVE  MemorySafe' /\ NothingLost'
<1>1. main' = "exited" /\ UNCHANGED <<heap, wpc, que, req, i>>
  BY Zenon DEF ExitFailure, workerVars
<1>2. /\ AliveObjects \subseteq InUse /\ QueuedObjects \subseteq InUse
      /\ HeldObjects \subseteq InUse /\ EndedObjects \subseteq InUse
  BY Zenon DEF InUse, AliveObjects, QueuedObjects, HeldObjects, EndedObjects
<1>3. InUse' \subseteq (AliveObjects' \cup QueuedObjects' \cup HeldObjects' \cup EndedObjects')
  <2>1. ~(main' = "enqueue") /\ main' \in {"start", "done", "exited"}
    BY <1>1
  <2> QED
    BY <2>1, Zenon DEF InUse, AliveObjects, QueuedObjects, HeldObjects, EndedObjects
<1>4. InUse' \subseteq InUse
  BY <1>1, <1>2, <1>3, UseSame, Zenon
<1> QED
  BY <1>1, <1>4, Zenon DEF PoolInv, MemorySafe, NothingLost

LEMMA MemoryFromHeap ==
    TypeOK /\ TasksKept /\ LoopsKept /\ HeapKept /\ main # "exited" => MemorySafe /\ NothingLost
BY UsedIsAllocated, OwnedIsUsed

\* Every reachable state satisfies the inductive invariant.
LEMMA PoolInductive == Spec => []PoolIndInv
<1>1. Init => PoolIndInv
  BY InitPool
<1>2. PoolIndInv /\ [Next]_vars => PoolIndInv'
  <2> SUFFICES ASSUME PoolIndInv, [Next]_vars PROVE PoolIndInv'
    OBVIOUS
  <2>1. CASE Next /\ ~UNCHANGED vars
    <3>0. TypeOK /\ TasksKept /\ LoopsKept /\ HeapKept
      BY DEF PoolInv, PoolIndInv
    <3>1. TypeOK' /\ TasksKept' /\ LoopsKept' /\ HeapKept'
      BY <2>1, <3>0, TypeStep, TasksStep, LoopsStep, HeapStep
    <3>2. MemorySafe' /\ NothingLost'
      <4>1. CASE main' # "exited"
        <5>1. (TypeOK /\ TasksKept /\ LoopsKept /\ HeapKept /\ main # "exited")'
                => (MemorySafe /\ NothingLost)'
          BY MemoryFromHeap, PTL
        <5> QED
          BY <3>1, <4>1, <5>1
      <4>2. CASE ExitFailure
        BY <4>2, MemoryAtExit DEF PoolIndInv
      <4>3. CASE main' = "exited" /\ ~ExitFailure
        <5>1. main # "exited"
          BY <2>1, ExitIsLast
        <5>2. main' # "exited"
          BY <2>1, <4>3, <5>1, Zenon DEF Next, MainStep, thread_pool_init, thread_pool_add,
             thread_pool_destroy, SleepOver, PoolAlloc, create_worker_thread, PoolReady, AddAlloc,
             AddEnqueue, CloseQueue, AllClosed, join_worker_thread, AllJoined, PoolFree,
             worker_func, example_task, TakeId, DequeueTake, DequeueNull, CallTask,
             TaskNoFile, TaskOpen, TaskLog, FreeRequest, WorkerExit, mainVars, Terminated, vars
        <5> QED
          BY <4>3, <5>2
      <4> QED
        BY <4>1, <4>2, <4>3
    <3> QED
      BY <3>1, <3>2 DEF PoolInv, PoolIndInv
  <2>2. CASE UNCHANGED vars
    <3>1. TypeOK' /\ LoopsKept'
      BY <2>2, Zenon DEF vars, mainVars, workerVars, PoolInv, PoolIndInv, TypeOK, LoopsKept
    <3>2. TasksKept'
      <4>1. UNCHANGED <<que, runs, req, wpc, main, i>>
        BY <2>2 DEF vars, mainVars, workerVars
      <4>2. Added' = Added
        BY <4>1, Zenon DEF Added
      <4>3. TasksKept
        BY DEF PoolInv, PoolIndInv
      <4> QED
        BY <4>1, <4>2, <4>3, TasksUntouched
    <3>3. HeapKept'
      BY <2>2, Zenon DEF vars, mainVars, workerVars, PoolInv, PoolIndInv, HeapKept, Queued, Added
    <3> QED
      BY <2>2, <3>1, <3>2, <3>3, MemorySame DEF PoolInv, PoolIndInv
  <2> QED
    BY <2>1, <2>2
<1> QED
  BY <1>1, <1>2, PTL DEF Spec

\* No thread of the request server uses an object after its free, and what the
\* program is to free does not outlive its use, for any number of workers and tasks.
THEOREM PoolInvariant == Spec => []PoolInv
BY PoolInductive, PTL DEF PoolIndInv

\* Every task that thread_pool_add was given runs at most once, in the order of
\* its worker's queue, and when main returns each of them has run.
THEOREM TasksRun == Spec => []TasksRunOnce
<1>1. PoolInv => TasksRunOnce
  <2> SUFFICES ASSUME PoolInv PROVE TasksRunOnce
    OBVIOUS
  <2>0. TypeOK /\ TasksKept /\ LoopsKept
    BY DEF PoolInv
  <2>1. \A w \in Workers : \A j, k \in 1..Len(runs[w]) : j < k => runs[w][j] < runs[w][k]
    BY <2>0, Zenon DEF TasksKept
  <2>2. \A v, w \in Workers : \A j \in 1..Len(runs[v]), k \in 1..Len(runs[w]) :
           runs[v][j] = runs[w][k] => v = w
    <3> SUFFICES ASSUME NEW v \in Workers, NEW w \in Workers, NEW j \in 1..Len(runs[v]),
                        NEW k \in 1..Len(runs[w]), runs[v][j] = runs[w][k]
                 PROVE  v = w
      BY Zenon
    <3>1. RanBy(v, runs[v][j]) /\ RanBy(w, runs[v][j])
      BY Zenon DEF RanBy
    <3>2. runs[v][j] \in Tasks
      BY <2>0, <3>1, TasksTyped
    <3> QED
      BY <2>0, <3>1, <3>2, Zenon DEF TasksKept, Has
  <2>3. \A w \in Workers : wpc[w] \in {"null", "finished", "joined"} => que[w] = << >>
    BY <2>0 DEF LoopsKept
  <2>4. ASSUME main = "done" PROVE Ran = Tasks
    <3>1. \A w \in Workers : wpc[w] = "joined" /\ que[w] = << >>
      BY <2>0, <2>3, <2>4 DEF LoopsKept
    <3>2. \A k \in Tasks : k < Added
      <4>1. Added = NUM_TASKS
        BY <2>4 DEF Added
      <4> QED
        BY <4>1, Consts
    <3>3. ASSUME NEW k \in Tasks PROVE \E w \in Workers : RanBy(w, k)
      <4>1. PICK w \in Workers : Has(w, k)
        BY <2>0, <2>4, <3>2, Zenon DEF TasksKept
      <4>2. Len(que[w]) = 0
        BY <3>1, EmptySeq
      <4>3. ~Queued(w, k)
        BY <4>2 DEF Queued
      <4>4. wpc[w] # "taken"
        BY <3>1
      <4> QED
        BY <4>1, <4>3, <4>4, Zenon DEF Has
    <3>4. \A k : k \in Ran <=> \E w \in Workers : RanBy(w, k)
      BY RanMembers, Zenon DEF RanBy
    <3>5. \A k : k \in Ran => k \in Tasks
      BY <2>0, <3>4, TasksTyped, Zenon
    <3> QED
      BY <3>3, <3>4, <3>5, Zenon
  <2> QED
    BY <2>1, <2>2, <2>3, <2>4, Zenon DEF TasksRunOnce, RunOnceInOrder, DrainedOnDestroy
<1> QED
  BY <1>1, PoolInvariant, PTL

----------------------------------------------------------------------------
(* The pool uses its queues as FifoQueue allows *)

\* How worker w's queue_dequeue stands, and whether main is about to give w the
\* task k: WorkerFifo's result and the "calling" of FateIn.
Result(w) == IF wpc[w] = "taken" THEN <<req[w]>>
             ELSE IF wpc[w] = "null" THEN <<NULL>>
             ELSE << >>
Holds(w, k) == wpc[w] = "taken" /\ req[w] = k
Calling(w, k) == /\ main \in {"enqueue", "exited"}
                 /\ i = k /\ index = w /\ <<"req", k>> \in heap

\* Where a task is for the queue of worker w.
LEMMA Fates ==
    ASSUME NEW w, NEW k
    PROVE  FateIn(w, k) = IF Queued(w, k) \/ Holds(w, k) THEN "queued"
                          ELSE IF RanBy(w, k) THEN "delivered"
                          ELSE IF Calling(w, k) THEN "calling"
                          ELSE "fresh"
BY Zenon DEF FateIn, Queued, RanBy, Holds, Calling

\* The same after a step.
LEMMA FatesNext ==
    ASSUME NEW w \in Workers, NEW k \in Tasks
    PROVE  FateIn(w, k)' = IF Queued(w, k)' \/ Holds(w, k)' THEN "queued"
                          ELSE IF RanBy(w, k)' THEN "delivered"
                          ELSE IF Calling(w, k)' THEN "calling"
                          ELSE "fresh"
BY Zenon DEF FateIn, Queued, RanBy, Holds, Calling

\* What a step leaves alone when it is none of FifoQueue, and what each operation
\* of FifoQueue changes, in terms of the pool: nothing;
LEMMA FifoIdle ==
    ASSUME NEW w \in Workers,
           que'[w] = que[w], closed'[w] = closed[w], Result(w)' = Result(w),
           \A k \in Tasks : FateIn(w, k)' = FateIn(w, k)
    PROVE  UNCHANGED WorkerFifo(w)!fifoVars
BY Zenon DEF WorkerFifo!fifoVars, Result

\* thread_pool_add offers a request;
LEMMA FifoOffer ==
    ASSUME NEW w \in Workers, NEW k \in Tasks,
           FateIn(w, k) = "fresh", FateIn(w, k)' = "calling",
           que'[w] = que[w], closed'[w] = closed[w], Result(w)' = Result(w),
           \A m \in Tasks \ {k} : FateIn(w, m)' = FateIn(w, m)
    PROVE  WorkerFifo(w)!Next
<1>1. WorkerFifo(w)!Offer(k)
  BY DEF WorkerFifo!Offer, Result
<1> QED
  BY <1>1 DEF WorkerFifo!Next

\* the queue accepts it;
LEMMA FifoPut ==
    ASSUME NEW w \in Workers, NEW k \in Tasks,
           FateIn(w, k) = "calling", FateIn(w, k)' = "queued", ~closed[w],
           que'[w] = Append(que[w], k), closed'[w] = closed[w], Result(w)' = Result(w),
           \A m \in Tasks \ {k} : FateIn(w, m)' = FateIn(w, m)
    PROVE  WorkerFifo(w)!Next
<1>1. WorkerFifo(w)!Put(k)
  BY DEF WorkerFifo!Put, Result
<1> QED
  BY <1>1 DEF WorkerFifo!Next

\* the queue is closed;
LEMMA FifoClose ==
    ASSUME NEW w \in Workers,
           que'[w] = que[w], closed'[w] = TRUE, Result(w)' = Result(w),
           \A k \in Tasks : FateIn(w, k)' = FateIn(w, k)
    PROVE  WorkerFifo(w)!Next
<1>1. WorkerFifo(w)!Close
  BY DEF WorkerFifo!Close, Result
<1> QED
  BY <1>1 DEF WorkerFifo!Next

\* queue_dequeue unlinks the oldest request;
LEMMA FifoTake ==
    ASSUME NEW w \in Workers, que[w] # << >>, Result(w) = << >>,
           Result(w)' = <<Head(que[w])>>, que'[w] = Tail(que[w]), closed'[w] = closed[w],
           \A k \in Tasks : FateIn(w, k)' = FateIn(w, k)
    PROVE  WorkerFifo(w)!Next
<1>1. WorkerFifo(w)!Take(w)
  BY DEF WorkerFifo!Take, Result
<1> QED
  BY <1>1 DEF WorkerFifo!Next

\* or finds the queue closed and empty;
LEMMA FifoTakeNull ==
    ASSUME NEW w \in Workers, que[w] = << >>, closed[w], Result(w) = << >>,
           Result(w)' = <<NULL>>, que'[w] = que[w], closed'[w] = closed[w],
           \A k \in Tasks : FateIn(w, k)' = FateIn(w, k)
    PROVE  WorkerFifo(w)!Next
<1>1. WorkerFifo(w)!TakeNull(w)
  BY DEF WorkerFifo!TakeNull, Result
<1> QED
  BY <1>1 DEF WorkerFifo!Next

\* queue_dequeue returns the request,
LEMMA FifoReturn ==
    ASSUME NEW w \in Workers, NEW k \in Tasks, Result(w) = <<k>>, Result(w)' = << >>,
           FateIn(w, k) = "queued", FateIn(w, k)' = "delivered",
           que'[w] = que[w], closed'[w] = closed[w],
           \A m \in Tasks \ {k} : FateIn(w, m)' = FateIn(w, m)
    PROVE  WorkerFifo(w)!Next
<1>1. k # NULL
  BY Consts
<1>2. WorkerFifo(w)!Return(w)
  BY <1>1 DEF WorkerFifo!Return, Result
<1> QED
  BY <1>2 DEF WorkerFifo!Next

\* or NULL.
LEMMA FifoReturnNull ==
    ASSUME NEW w \in Workers, Result(w) = <<NULL>>, Result(w)' = << >>,
           que'[w] = que[w], closed'[w] = closed[w],
           \A m \in Tasks : FateIn(w, m)' = FateIn(w, m)
    PROVE  WorkerFifo(w)!Next
<1>2. WorkerFifo(w)!Return(w)
  BY DEF WorkerFifo!Return, Result
<1> QED
  BY <1>2 DEF WorkerFifo!Next

\* The fate of a task depends on these four facts only.
LEMMA FateSame ==
    ASSUME NEW w \in Workers, NEW k \in Tasks,
           Queued(w, k)' \/ Holds(w, k)' <=> Queued(w, k) \/ Holds(w, k),
           RanBy(w, k)' <=> RanBy(w, k), Calling(w, k)' <=> Calling(w, k)
    PROVE  FateIn(w, k)' = FateIn(w, k)
<1>1. FateIn(w, k) = IF Queued(w, k) \/ Holds(w, k) THEN "queued"
                          ELSE IF RanBy(w, k) THEN "delivered"
                          ELSE IF Calling(w, k) THEN "calling"
                          ELSE "fresh"
  BY Fates
<1>2. FateIn(w, k)' = IF Queued(w, k)' \/ Holds(w, k)' THEN "queued"
                          ELSE IF RanBy(w, k)' THEN "delivered"
                          ELSE IF Calling(w, k)' THEN "calling"
                          ELSE "fresh"
  BY FatesNext
<1>3. CASE Queued(w, k) \/ Holds(w, k)
  BY <1>1, <1>2, <1>3, Zenon
<1>4. CASE ~(Queued(w, k) \/ Holds(w, k)) /\ RanBy(w, k)
  BY <1>1, <1>2, <1>4, Zenon
<1>5. CASE ~(Queued(w, k) \/ Holds(w, k)) /\ ~RanBy(w, k) /\ Calling(w, k)
  BY <1>1, <1>2, <1>5, Zenon
<1>6. CASE ~(Queued(w, k) \/ Holds(w, k)) /\ ~RanBy(w, k) /\ ~Calling(w, k)
  BY <1>1, <1>2, <1>6, Zenon
<1> QED
  BY <1>3, <1>4, <1>5, <1>6

\* A step that leaves the queue, the hands and the runs of w alone.
LEMMA HandsSame ==
    ASSUME NEW w \in Workers, que'[w] = que[w], runs'[w] = runs[w],
           \/ wpc'[w] = wpc[w] /\ req'[w] = req[w]
           \/ wpc'[w] \notin {"taken", "null"} /\ wpc[w] \notin {"taken", "null"}
    PROVE  /\ Result(w)' = Result(w)
           /\ \A k \in Tasks : /\ Queued(w, k)' <=> Queued(w, k)
                               /\ Holds(w, k)' <=> Holds(w, k)
                               /\ RanBy(w, k)' <=> RanBy(w, k)
<1>1. Result(w)' = Result(w)
  BY DEF Result
<1>2. \A k \in Tasks : Holds(w, k)' <=> Holds(w, k)
  BY Zenon DEF Holds
<1>3. \A k \in Tasks : Queued(w, k)' <=> Queued(w, k)
  BY Zenon DEF Queued
<1>4. \A k \in Tasks : RanBy(w, k)' <=> RanBy(w, k)
  BY Zenon DEF RanBy
<1> QED
  BY <1>1, <1>2, <1>3, <1>4

\* Such a step is none of w's FifoQueue, if main is not about to add to it.
LEMMA FifoUntouched ==
    ASSUME NEW w \in Workers, que'[w] = que[w], runs'[w] = runs[w],
           \/ wpc'[w] = wpc[w] /\ req'[w] = req[w]
           \/ wpc'[w] \notin {"taken", "null"} /\ wpc[w] \notin {"taken", "null"},
           \A k \in Tasks : Calling(w, k)' <=> Calling(w, k)
    PROVE  /\ Result(w)' = Result(w)
           /\ \A k \in Tasks : FateIn(w, k)' = FateIn(w, k)
<1>1. /\ Result(w)' = Result(w)
      /\ \A k \in Tasks : /\ Queued(w, k)' <=> Queued(w, k)
                          /\ Holds(w, k)' <=> Holds(w, k)
                          /\ RanBy(w, k)' <=> RanBy(w, k)
  BY HandsSame
<1>2. \A k \in Tasks : FateIn(w, k)' = FateIn(w, k)
  <2> TAKE k \in Tasks
  <2>1. /\ Queued(w, k)' \/ Holds(w, k)' <=> Queued(w, k) \/ Holds(w, k)
        /\ RanBy(w, k)' <=> RanBy(w, k)
        /\ Calling(w, k)' <=> Calling(w, k)
    BY <1>1, Zenon
  <2> QED
    BY <2>1, FateSame
<1> QED
  BY <1>1, <1>2

\* A step of the pool is one of w's FifoQueue, or none of its.
FifoStep(w) == WorkerFifo(w)!Next \/ UNCHANGED WorkerFifo(w)!fifoVars

\* The steps of main that leave the queues alone: it calls no queue_enqueue before
\* and none after them.
LEMMA MainIdle ==
    ASSUME TypeOK, LoopsKept, NEW w \in Workers,
           PoolAlloc \/ create_worker_thread \/ PoolReady \/ SleepOver \/ AllClosed
           \/ join_worker_thread \/ AllJoined \/ PoolFree
    PROVE  FifoStep(w)
<1>1. \A k \in Tasks : ~Calling(w, k) /\ ~Calling(w, k)'
  BY DEF Calling, PoolAlloc, create_worker_thread, PoolReady, SleepOver, AllClosed,
         join_worker_thread, AllJoined, PoolFree
<1>2. UNCHANGED <<runs, req, closed, que>>
  <2>1. join_worker_thread => UNCHANGED que
    BY JoinFindsEmpty
  <2> QED
    BY <2>1, Zenon DEF PoolAlloc, create_worker_thread, PoolReady, SleepOver, AllClosed,
         join_worker_thread, AllJoined, PoolFree, workerVars
<1>3. \/ wpc'[w] = wpc[w]
      \/ wpc'[w] \notin {"taken", "null"} /\ wpc[w] \notin {"taken", "null"}
  <2>1. CASE create_worker_thread
    <3>1. /\ main = "create" /\ i \in Nat /\ i < num_threads
          /\ wpc' = [wpc EXCEPT ![i] = "starting"]
      BY <2>1, Zenon DEF create_worker_thread, TypeOK
    <3>2. i \in Workers
      BY <3>1, Consts
    <3>3. wpc[i] = "unborn"
      <4>1. ~(i < i)
        BY <3>1
      <4> QED
        BY <3>1, <3>2, <4>1, Zenon DEF LoopsKept
    <3> QED
      BY <3>1, <3>2, <3>3 DEF TypeOK
  <2>2. CASE join_worker_thread
    BY <2>2 DEF join_worker_thread, TypeOK
  <2>3. CASE ~create_worker_thread /\ ~join_worker_thread
    BY <2>3 DEF PoolAlloc, PoolReady, SleepOver, AllClosed, AllJoined, PoolFree, workerVars
  <2> QED
    BY <2>1, <2>2, <2>3
<1>4. /\ Result(w)' = Result(w)
      /\ \A k \in Tasks : FateIn(w, k)' = FateIn(w, k)
  BY <1>1, <1>2, <1>3, FifoUntouched
<1> QED
  BY <1>2, <1>4, FifoIdle DEF FifoStep

\* thread_pool_add allocates the request: the task is new to every queue.
LEMMA AllocOffers ==
    ASSUME TypeOK, TasksKept, LoopsKept, NEW w \in Workers, AddAlloc
    PROVE  FifoStep(w)
<1>1. /\ main = "add" /\ main' = "enqueue" /\ UNCHANGED <<i, wpc, runs, req, closed, que>>
      /\ heap' = heap \cup TaskObjects(i) /\ i < NUM_TASKS
  BY Zenon DEF AddAlloc, workerVars
<1>2. PICK n \in Tasks : n = i
  BY <1>1, Consts DEF TypeOK
<1>3. \A k \in Tasks : ~Calling(w, k)
  BY <1>1 DEF Calling
<1>4. CASE index' # w
  <2>1. \A k \in Tasks : ~Calling(w, k)'
    BY <1>4 DEF Calling
  <2>2. /\ Result(w)' = Result(w)
        /\ \A k \in Tasks : FateIn(w, k)' = FateIn(w, k)
    BY <1>1, <1>3, <2>1, FifoUntouched
  <2> QED
    BY <1>1, <2>2, FifoIdle DEF FifoStep
<1>5. CASE index' = w
  <2>1. \A k \in Tasks : Calling(w, k)' <=> k = n
    BY <1>1, <1>2, <1>5 DEF Calling, TaskObjects
  <2>2. /\ Result(w)' = Result(w)
        /\ \A k \in Tasks : /\ Queued(w, k)' <=> Queued(w, k)
                            /\ Holds(w, k)' <=> Holds(w, k)
                            /\ RanBy(w, k)' <=> RanBy(w, k)
    BY <1>1, HandsSame
  <2>3. ~Queued(w, n) /\ ~Holds(w, n) /\ ~RanBy(w, n)
    <3>1. ~(n < Added)
      BY <1>1, <1>2 DEF Added, TypeOK
    <3>2. ~Has(w, n)
      BY <3>1, <1>1, <1>2, Zenon DEF TasksKept
    <3> QED
      BY <3>2, Zenon DEF Has, Holds
  <2>4. FateIn(w, n) = "fresh"
    BY <1>2, <1>3, <2>3, Fates, Zenon
  <2>5. FateIn(w, n)' = "calling"
    <3>1. ~Queued(w, n)' /\ ~Holds(w, n)' /\ ~RanBy(w, n)' /\ Calling(w, n)'
      BY <1>2, <2>1, <2>2, <2>3, Zenon
    <3> QED
      BY <1>2, <3>1, FatesNext, Zenon
  <2>6. \A m \in Tasks \ {n} : FateIn(w, m)' = FateIn(w, m)
    <3> TAKE m \in Tasks \ {n}
    <3>1. /\ Queued(w, m)' \/ Holds(w, m)' <=> Queued(w, m) \/ Holds(w, m)
          /\ RanBy(w, m)' <=> RanBy(w, m)
          /\ Calling(w, m)' <=> Calling(w, m)
      BY <1>3, <2>1, <2>2, Zenon
    <3> QED
      BY <3>1, FateSame
  <2> QED
    BY <1>1, <1>2, <2>2, <2>4, <2>5, <2>6, FifoOffer DEF FifoStep
<1> QED
  BY <1>4, <1>5

\* thread_pool_add's queue_enqueue: the queue is open, and the task goes to its back.
LEMMA EnqueuePuts ==
    ASSUME TypeOK, TasksKept, LoopsKept, HeapKept, NEW w \in Workers, AddEnqueue
    PROVE  FifoStep(w)
<1>1. /\ main = "enqueue" /\ main' = "add" /\ UNCHANGED <<wpc, runs, req, closed>>
      /\ que' = [que EXCEPT ![index] = Append(que[index], i)]
  BY Zenon DEF AddEnqueue, workerVars
<1>2. PICK n \in Tasks : n = i
  BY <1>1, Consts DEF TypeOK, LoopsKept
<1>3. \A k \in Tasks : ~Calling(w, k)'
  BY <1>1 DEF Calling
<1>4. CASE index # w
  <2>1. \A k \in Tasks : ~Calling(w, k)
    BY <1>4 DEF Calling
  <2>2. que'[w] = que[w]
    BY <1>1, <1>4 DEF TypeOK
  <2>3. /\ Result(w)' = Result(w)
        /\ \A k \in Tasks : FateIn(w, k)' = FateIn(w, k)
    BY <1>1, <1>3, <2>1, <2>2, FifoUntouched
  <2> QED
    BY <1>1, <2>2, <2>3, FifoIdle DEF FifoStep
<1>5. CASE index = w
  <2>1. que'[w] = Append(que[w], n) /\ que[w] \in Seq(Tasks)
    BY <1>1, <1>2, <1>5 DEF TypeOK
  <2>2. \A k \in Tasks : Queued(w, k)' <=> Queued(w, k) \/ k = n
    <3>1. \A k : (\E j \in 1..Len(Append(que[w], n)) : Append(que[w], n)[j] = k)
                    <=> (\E j \in 1..Len(que[w]) : que[w][j] = k) \/ k = n
      BY <1>2, <2>1, AppendFacts
    <3> QED
      BY <2>1, <3>1, Zenon DEF Queued
  <2>3. \A k \in Tasks : /\ Holds(w, k)' <=> Holds(w, k)
                         /\ RanBy(w, k)' <=> RanBy(w, k)
    BY <1>1, Zenon DEF Holds, RanBy
  <2>4. Result(w)' = Result(w)
    BY <1>1 DEF Result
  <2>5. \A k \in Tasks : Calling(w, k) <=> k = n
    <3>1. <<"req", n>> \in heap
      BY <1>1, <1>2, Zenon DEF HeapKept
    <3> QED
      BY <1>1, <1>2, <1>5, <3>1 DEF Calling
  <2>6. ~Queued(w, n) /\ ~Holds(w, n) /\ ~RanBy(w, n)
    <3>1. ~(n < Added)
      BY <1>1, <1>2 DEF Added, TypeOK
    <3>2. ~Has(w, n)
      BY <3>1, <1>1, <1>2, Zenon DEF TasksKept
    <3> QED
      BY <3>2, Zenon DEF Has, Holds
  <2>7. FateIn(w, n) = "calling"
    BY <1>2, <2>5, <2>6, Fates, Zenon
  <2>8. FateIn(w, n)' = "queued"
    BY <1>2, <2>2, FatesNext, Zenon
  <2>9. \A m \in Tasks \ {n} : FateIn(w, m)' = FateIn(w, m)
    <3> TAKE m \in Tasks \ {n}
    <3>1. /\ Queued(w, m)' \/ Holds(w, m)' <=> Queued(w, m) \/ Holds(w, m)
          /\ RanBy(w, m)' <=> RanBy(w, m)
          /\ Calling(w, m)' <=> Calling(w, m)
      BY <1>3, <2>2, <2>3, <2>5, Zenon
    <3> QED
      BY <3>1, FateSame
  <2>10. ~closed[w] /\ closed'[w] = closed[w]
    BY <1>1 DEF LoopsKept
  <2> QED
    BY <1>2, <2>1, <2>4, <2>7, <2>8, <2>9, <2>10, FifoPut DEF FifoStep
<1> QED
  BY <1>4, <1>5

\* The exit of the process changes no queue: a request that was being added stays so.
LEMMA ExitIdle ==
    ASSUME TypeOK, TasksKept, LoopsKept, HeapKept, NEW w \in Workers, ExitFailure
    PROVE  FifoStep(w)
<1>1. /\ main' = "exited" /\ UNCHANGED <<i, index, wpc, runs, req, closed, que, heap>>
      /\ main \in {"start", "create", "add", "enqueue"}
  BY Zenon DEF ExitFailure, workerVars
<1>2. \A k \in Tasks : Calling(w, k)' <=> Calling(w, k)
  <2>1. CASE main = "enqueue"
    BY <1>1, <2>1 DEF Calling
  <2>2. CASE main # "enqueue"
    <3>1. Added <= i
      BY <1>1, <2>2 DEF Added, TypeOK
    <3>2. SUFFICES ASSUME NEW k \in Tasks, i = k PROVE <<"req", k>> \notin heap
      BY <1>1, <2>2 DEF Calling
    <3>3. ~(k < Added)
      BY <3>1, <3>2, Consts DEF TypeOK, Added
    <3>4. \A v \in Workers : ~Has(v, k)
      BY <1>1, <3>3, Zenon DEF TasksKept
    <3>5. \A v \in Workers : ~Queued(v, k)
      BY <3>4, Zenon DEF Has
    <3>6. \A v \in Workers : req[v] # k
      <4>1. k # NULL
        BY Consts
      <4> QED
        BY <4>1, <3>4, HandsHold
    <3> QED
      BY <1>1, <2>2, <3>5, <3>6, Zenon DEF HeapKept
  <2> QED
    BY <2>1, <2>2
<1>3. /\ Result(w)' = Result(w)
      /\ \A k \in Tasks : FateIn(w, k)' = FateIn(w, k)
  BY <1>1, <1>2, FifoUntouched
<1> QED
  BY <1>1, <1>3, FifoIdle DEF FifoStep

\* thread_pool_destroy closes queue i, and touches no other.
LEMMA CloseCloses ==
    ASSUME TypeOK, NEW w \in Workers, CloseQueue
    PROVE  FifoStep(w)
<1>1. /\ main = "close" /\ UNCHANGED <<main, index, wpc, runs, req, que, heap>>
      /\ closed' = [closed EXCEPT ![i] = TRUE]
  BY Zenon DEF CloseQueue, workerVars
<1>2. \A k \in Tasks : ~Calling(w, k) /\ ~Calling(w, k)'
  BY <1>1 DEF Calling
<1>3. /\ Result(w)' = Result(w)
      /\ \A k \in Tasks : FateIn(w, k)' = FateIn(w, k)
  BY <1>1, <1>2, FifoUntouched
<1>4. closed'[w] = closed[w] \/ closed'[w] = TRUE
  BY <1>1 DEF TypeOK
<1>5. CASE closed'[w] = closed[w]
  BY <1>1, <1>3, <1>5, FifoIdle DEF FifoStep
<1>6. CASE closed'[w] = TRUE
  BY <1>1, <1>3, <1>6, FifoClose DEF FifoStep
<1> QED
  BY <1>4, <1>5, <1>6

\* No step of a worker changes what main is about to add.
LEMMA WorkerCalls ==
    ASSUME TypeOK, TasksKept, NEW u \in Workers, worker_func(u), NEW w \in Workers
    PROVE  \A k \in Tasks : Calling(w, k)' <=> Calling(w, k)
<1>1. UNCHANGED <<main, i, index>> /\ main # "exited"
  BY Zenon DEF worker_func, TakeId, DequeueTake, DequeueNull, CallTask, example_task, TaskNoFile,
               TaskOpen, TaskLog, FreeRequest, WorkerExit, Goto, Running, mainVars
<1>2. CASE ~FreeRequest(u)
  <2>1. UNCHANGED heap
    BY <1>2, Zenon DEF worker_func, TakeId, DequeueTake, DequeueNull, CallTask, example_task,
                       TaskNoFile, TaskOpen, TaskLog, WorkerExit
  <2> QED
    BY <1>1, <2>1, Zenon DEF Calling
<1>3. CASE FreeRequest(u)
  <2>1. SUFFICES ASSUME NEW k \in Tasks, main = "enqueue", i = k
                 PROVE  <<"req", k>> \in heap' <=> <<"req", k>> \in heap
    BY <1>1 DEF Calling
  <2>2. heap' = heap \ {<<"req", req[u]>>} /\ req[u] # NULL
    BY <1>3, Zenon DEF FreeRequest, Goto, TasksKept
  <2>3. req[u] \in Tasks /\ Has(u, req[u])
    BY <2>2, HandsHold
  <2>4. req[u] < Added
    BY <1>1, <2>3, Zenon DEF TasksKept
  <2>5. req[u] # k
    BY <2>1, <2>3, <2>4, Consts DEF Added
  <2> QED
    BY <2>2, <2>5
<1> QED
  BY <1>2, <1>3

\* The step of another worker, or one in which w is not in queue_dequeue.
LEMMA WorkerIdle ==
    ASSUME TypeOK, TasksKept, NEW u \in Workers, NEW w \in Workers, worker_func(u),
           u = w => TakeId(u) \/ example_task(u) \/ FreeRequest(u)
    PROVE  FifoStep(w)
<1>1. /\ UNCHANGED closed /\ que'[w] = que[w] /\ runs'[w] = runs[w]
      /\ \/ wpc'[w] = wpc[w] /\ req'[w] = req[w]
         \/ wpc'[w] \notin {"taken", "null"} /\ wpc[w] \notin {"taken", "null"}
  <2>1. CASE u = w
    BY <2>1 DEF TypeOK, TakeId, example_task, TaskNoFile, TaskOpen, TaskLog, FreeRequest, Goto
  <2>2. CASE u # w
    BY <2>2 DEF TypeOK, worker_func, TakeId, DequeueTake, DequeueNull, CallTask, example_task,
                TaskNoFile, TaskOpen, TaskLog, FreeRequest, WorkerExit, Goto
  <2> QED
    BY <2>1, <2>2
<1>2. \A k \in Tasks : Calling(w, k)' <=> Calling(w, k)
  BY WorkerCalls
<1>3. /\ Result(w)' = Result(w)
      /\ \A k \in Tasks : FateIn(w, k)' = FateIn(w, k)
  BY <1>1, <1>2, FifoUntouched
<1> QED
  BY <1>1, <1>3, FifoIdle DEF FifoStep

\* queue_dequeue unlinks the oldest request: it is in w's hands, and still the queue's.
LEMMA DequeueTakes ==
    ASSUME TypeOK, TasksKept, NEW w \in Workers, DequeueTake(w)
    PROVE  FifoStep(w)
<1>1. /\ que[w] # << >> /\ wpc[w] = "dequeue" /\ UNCHANGED <<runs, closed>>
      /\ wpc' = [wpc EXCEPT ![w] = "taken"]
      /\ req' = [req EXCEPT ![w] = Head(que[w])]
      /\ que' = [que EXCEPT ![w] = Tail(que[w])]
  BY Zenon DEF DequeueTake, Goto
<1>2. wpc'[w] = "taken" /\ req'[w] = Head(que[w]) /\ que'[w] = Tail(que[w])
  BY <1>1 DEF TypeOK
<1>3. Result(w) = << >> /\ Result(w)' = <<Head(que[w])>>
  BY <1>1, <1>2 DEF Result
<1>4. \A k \in Tasks : Calling(w, k)' <=> Calling(w, k)
  <2>1. worker_func(w)
    BY DEF worker_func
  <2> QED
    BY <2>1, WorkerCalls
<1>5. \A k : (\E j \in 1..Len(que[w]) : que[w][j] = k)
                <=> (\E j \in 1..Len(Tail(que[w])) : Tail(que[w])[j] = k) \/ k = Head(que[w])
  BY <1>1, TasksTyped, TailFacts
<1>6. \A k \in Tasks : /\ ~Holds(w, k)
                       /\ Holds(w, k)' <=> k = Head(que[w])
                       /\ Queued(w, k) <=> Queued(w, k)' \/ k = Head(que[w])
                       /\ RanBy(w, k)' <=> RanBy(w, k)
  <2>1. \A k \in Tasks : ~Holds(w, k) /\ (Holds(w, k)' <=> k = Head(que[w]))
    BY <1>1, <1>2 DEF Holds
  <2>2. \A k \in Tasks : Queued(w, k) <=> Queued(w, k)' \/ k = Head(que[w])
    BY <1>2, <1>5, Zenon DEF Queued
  <2>3. \A k \in Tasks : RanBy(w, k)' <=> RanBy(w, k)
    BY <1>1, Zenon DEF RanBy
  <2> QED
    BY <2>1, <2>2, <2>3
<1>7. \A k \in Tasks : FateIn(w, k)' = FateIn(w, k)
  <2> TAKE k \in Tasks
  <2>1. /\ Queued(w, k)' \/ Holds(w, k)' <=> Queued(w, k) \/ Holds(w, k)
        /\ RanBy(w, k)' <=> RanBy(w, k)
        /\ Calling(w, k)' <=> Calling(w, k)
    BY <1>4, <1>6, Zenon
  <2> QED
    BY <2>1, FateSame
<1> QED
  BY <1>1, <1>2, <1>3, <1>7, FifoTake DEF FifoStep

\* queue_dequeue returns the request: from now on it is w's alone.
LEMMA CallReturns ==
    ASSUME TypeOK, TasksKept, NEW w \in Workers, CallTask(w)
    PROVE  FifoStep(w)
<1>1. /\ wpc[w] = "taken" /\ UNCHANGED <<que, req, closed>>
      /\ wpc' = [wpc EXCEPT ![w] = "run"]
      /\ runs' = [runs EXCEPT ![w] = Append(runs[w], req[w])]
  BY Zenon DEF CallTask, Goto
<1>2. PICK n \in Tasks : n = req[w]
  BY <1>1 DEF TypeOK, TasksKept
<1>3. wpc'[w] = "run" /\ runs'[w] = Append(runs[w], n)
  BY <1>1, <1>2 DEF TypeOK
<1>4. Result(w) = <<n>> /\ Result(w)' = << >>
  BY <1>1, <1>2, <1>3 DEF Result
<1>5. \A k \in Tasks : Calling(w, k)' <=> Calling(w, k)
  <2>1. worker_func(w)
    BY DEF worker_func
  <2> QED
    BY <2>1, WorkerCalls
<1>6. \A k : (\E j \in 1..Len(Append(runs[w], n)) : Append(runs[w], n)[j] = k)
                <=> (\E j \in 1..Len(runs[w]) : runs[w][j] = k) \/ k = n
  BY <1>2, TasksTyped, AppendFacts
<1>7. \A k \in Tasks : RanBy(w, k)' <=> RanBy(w, k) \/ k = n
  BY <1>3, <1>6, Zenon DEF RanBy
<1>8. \A k \in Tasks : Queued(w, k)' <=> Queued(w, k)
  BY <1>1, Zenon DEF Queued
<1>9. \A k \in Tasks : ~Holds(w, k)' /\ (Holds(w, k) <=> k = n)
  BY <1>1, <1>2, <1>3 DEF Holds
<1>10. ~Queued(w, n)
  <2>1. Queued(w, n) => n < n
    BY <1>1, <1>2, Zenon DEF TasksKept
  <2> QED
    BY <2>1, <1>2, Consts
<1>11. FateIn(w, n) = "queued"
  BY <1>2, <1>9, Fates, Zenon
<1>12. FateIn(w, n)' = "delivered"
  <2>1. ~(Queued(w, n)' \/ Holds(w, n)') /\ RanBy(w, n)'
    BY <1>2, <1>7, <1>8, <1>9, <1>10, Zenon
  <2> QED
    BY <1>2, <2>1, FatesNext, Zenon
<1>13. \A m \in Tasks \ {n} : FateIn(w, m)' = FateIn(w, m)
  <2> TAKE m \in Tasks \ {n}
  <2>1. /\ Queued(w, m)' \/ Holds(w, m)' <=> Queued(w, m) \/ Holds(w, m)
        /\ RanBy(w, m)' <=> RanBy(w, m)
        /\ Calling(w, m)' <=> Calling(w, m)
    BY <1>5, <1>7, <1>8, <1>9, Zenon
  <2> QED
    BY <2>1, FateSame
<1> QED
  BY <1>1, <1>2, <1>4, <1>11, <1>12, <1>13, FifoReturn DEF FifoStep

\* queue_dequeue finds the queue closed and empty, and returns NULL.
LEMMA DequeuesNull ==
    ASSUME TypeOK, TasksKept, NEW w \in Workers, DequeueNull(w) \/ WorkerExit(w)
    PROVE  FifoStep(w)
<1>1. UNCHANGED <<que, req, closed, runs>>
  BY Zenon DEF DequeueNull, WorkerExit
<1>2. \A k \in Tasks : Calling(w, k)' <=> Calling(w, k)
  <2>1. worker_func(w)
    BY DEF worker_func
  <2> QED
    BY <2>1, WorkerCalls
<1>3. wpc[w] # "taken" /\ wpc'[w] # "taken"
  BY DEF DequeueNull, WorkerExit, Goto, TypeOK
<1>4. \A k \in Tasks : FateIn(w, k)' = FateIn(w, k)
  <2> TAKE k \in Tasks
  <2>1. /\ Queued(w, k)' \/ Holds(w, k)' <=> Queued(w, k) \/ Holds(w, k)
        /\ RanBy(w, k)' <=> RanBy(w, k)
    BY <1>1, <1>3, Zenon DEF Queued, Holds, RanBy
  <2> QED
    BY <1>2, <2>1, FateSame
<1>5. CASE DequeueNull(w)
  <2>1. /\ que[w] = << >> /\ closed[w] /\ wpc[w] = "dequeue" /\ wpc'[w] = "null"
    BY <1>5 DEF DequeueNull, Goto, TypeOK
  <2>2. Result(w) = << >> /\ Result(w)' = <<NULL>>
    BY <2>1 DEF Result
  <2> QED
    BY <1>1, <1>4, <2>1, <2>2, FifoTakeNull DEF FifoStep
<1>6. CASE WorkerExit(w)
  <2>1. wpc[w] = "null" /\ wpc'[w] = "finished"
    BY <1>6 DEF WorkerExit, Goto, TypeOK
  <2>2. Result(w) = <<NULL>> /\ Result(w)' = << >>
    BY <2>1 DEF Result
  <2> QED
    BY <1>1, <1>4, <2>2, FifoReturnNull DEF FifoStep
<1> QED
  BY <1>5, <1>6

\* Every step of the pool is allowed by every worker's FifoQueue.
LEMMA FifoSteps ==
    ASSUME PoolIndInv, Next, NEW w \in Workers
    PROVE  FifoStep(w)
<1>0. TypeOK /\ TasksKept /\ LoopsKept /\ HeapKept
  BY DEF PoolInv, PoolIndInv
<1>1. ASSUME NEW u \in Workers, worker_func(u)
      PROVE  FifoStep(w)
  <2>1. CASE u = w => TakeId(u) \/ example_task(u) \/ FreeRequest(u)
    BY <1>0, <1>1, <2>1, WorkerIdle
  <2>2. CASE ~(u = w => TakeId(u) \/ example_task(u) \/ FreeRequest(u))
    <3>1. DequeueTake(w) \/ DequeueNull(w) \/ CallTask(w) \/ WorkerExit(w)
      BY <1>1, <2>2, Zenon DEF worker_func
    <3> QED
      BY <1>0, <3>1, DequeueTakes, DequeuesNull, CallReturns
  <2> QED
    BY <2>1, <2>2
<1>2. CASE UNCHANGED vars
  <2>1. UNCHANGED <<que, runs, wpc, req, closed>> /\ \A k \in Tasks : Calling(w, k)' <=> Calling(w, k)
    BY <1>2, Zenon DEF vars, mainVars, workerVars, Calling
  <2>2. /\ Result(w)' = Result(w)
        /\ \A k \in Tasks : FateIn(w, k)' = FateIn(w, k)
    BY <2>1, FifoUntouched
  <2> QED
    BY <2>1, <2>2, FifoIdle DEF FifoStep
<1> QED
  BY <1>0, <1>1, <1>2, NextSplit, MainIdle, AllocOffers, EnqueuePuts, ExitIdle, CloseCloses

\* Initially every queue is an empty FifoQueue.
LEMMA FifoInit ==
    ASSUME Init, NEW w \in Workers
    PROVE  WorkerFifo(w)!Init
<1>1. que[w] = << >> /\ closed[w] = FALSE /\ wpc[w] = "unborn" /\ main = "start" /\ runs[w] = << >>
  BY DEF Init
<1>2. \A k \in Tasks : FateIn(w, k) = "fresh"
  BY <1>1 DEF FateIn
<1> QED
  BY <1>1, <1>2 DEF WorkerFifo!Init

\* The pool uses every worker's queue only as FifoQueue allows: it adds a request
\* once, never to a closed queue, and a worker gets what is oldest, or NULL only
\* from a closed and empty queue.
THEOREM QueueUse == Spec => UsesFifo
<1>1. Init => \A w \in Workers : WorkerFifo(w)!Init
  BY FifoInit
<1>2. PoolIndInv /\ [Next]_vars =>
        [\A w \in Workers : \/ WorkerFifo(w)!Next
                            \/ UNCHANGED WorkerFifo(w)!fifoVars]_vars
  BY FifoSteps, Zenon DEF FifoStep
<1> QED
  BY <1>1, <1>2, PoolInductive, PTL DEF Spec, UsesFifo
=============================================================================
