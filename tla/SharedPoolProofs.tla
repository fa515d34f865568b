-------------------------- MODULE SharedPoolProofs --------------------------
(***************************************************************************)
(* Proofs about src/M9, for as many workers as the pool's array holds and  *)
(* any number of requests: no request is lost, run twice or freed twice,   *)
(* and no line of the log carries the time of another task.                *)
(***************************************************************************)
EXTENDS SharedPool, SequenceTheorems, TLAPS

\* The part of SharedInv about requests, and the part about control.
RequestsInv == OneOwner /\ EachRunOnce
ControlInv  == LocksHeld /\ HoldersHaveRequest /\ MainLoops

\* Init establishes the inductive invariant.
LEMMA InitShared == Init => SharedInv /\ LogTimesOwn
<1> SUFFICES ASSUME Init PROVE SharedInv /\ LogTimesOwn
  OBVIOUS
<1> USE SharedAssumption DEF SharedAssumption, MAX_WORKER_THREADS
<1>0. \A w \in Workers : w # NULL /\ w # 0
  BY DEF Workers
<1>1. TypeOK
  <2>1. main \in MainLabels /\ wpc \in [Workers -> WorkerLabels]
    BY DEF Init, MainLabels, WorkerLabels
  <2>2. count \in 1..(num_requests + num_threads) /\ spurious \in 0..MaxSpurious
    BY DEF Init
  <2>3. que \in Seq(Requests) /\ log \in Seq(Workers \X (Workers \cup {NULL}))
    BY DEF Init
  <2>4. done \in [Requests -> 0..1] /\ req \in [Workers -> Requests \cup {NULL}]
    BY DEF Init
  <2> QED
    BY <2>1, <2>2, <2>3, <2>4 DEF Init, TypeOK
<1>2. Queued = {} /\ InHand = {} /\ Enqueued = {}
  BY DEF Init, Queued, InHand, Enqueued
<1>3. OneOwner
  BY <1>2 DEF Init, OneOwner
<1>4. EachRunOnce
  BY <1>2 DEF Init, EachRunOnce
<1>5. LocksHeld /\ HoldersHaveRequest /\ MainLoops
  BY <1>0 DEF Init, LocksHeld, HoldersHaveRequest, MainLoops, Idle, Workers
<1>6. LogTimesOwn
  BY DEF Init, LogTimesOwn
<1> QED
  BY <1>1, <1>3, <1>4, <1>5, <1>6 DEF SharedInv

\* A step that touches neither the requests nor the workers' progress with them.
LEMMA RequestsUntouched ==
    ASSUME RequestsInv, UNCHANGED <<que, req, reqs, args, done>>,
           \A r \in Requests : r \in Enqueued' <=> r \in Enqueued,
           main' \in {"lock", "link"} <=> main \in {"lock", "link"},
           main \in {"lock", "link"} => count' = count,
           \A w \in Workers : wpc'[w] = "free" <=> wpc[w] = "free",
           \A w \in Workers : wpc'[w] \in {"unlock", "run"} <=> wpc[w] \in {"unlock", "run"}
    PROVE  RequestsInv'
<1>1. Queued' = Queued /\ InHand' = InHand
  BY DEF Queued, InHand
<1>2. Enqueued' = Enqueued
  BY DEF Enqueued
<1>3. Unstarted' = Unstarted
  BY DEF Unstarted
<1>4. {req[w] : w \in {v \in Workers : wpc[v] = "free"}}'
        = {req[w] : w \in {v \in Workers : wpc[v] = "free"}}
  OBVIOUS
<1>5. OneOwner'
  BY <1>1, <1>4 DEF RequestsInv, OneOwner
<1>6. EachRunOnce'
  BY <1>1, <1>2, <1>3 DEF RequestsInv, EachRunOnce
<1> QED
  BY <1>5, <1>6 DEF RequestsInv

\* Facts about labels and workers that every step needs.
LEMMA Basics ==
    /\ \A w \in Workers : w \in Int /\ w >= 1 /\ w # NULL /\ w # 0
    /\ 0 # NULL
    /\ num_threads \in Nat \ {0} /\ num_requests \in Nat \ {0} /\ MaxSpurious \in Nat
    /\ \A r \in Requests : r \in Int /\ r # NULL
BY SharedAssumption DEF SharedAssumption, MAX_WORKER_THREADS, Workers, Requests

\* main's steps preserve the types ...
LEMMA MainTypes ==
    ASSUME TypeOK, MainLoops, MainStep, UNCHANGED exited
    PROVE  TypeOK'
<1> USE Basics DEF TypeOK
<1>1. CASE thread_pool_init
  <2>1. count \in Workers
    BY <1>1 DEF thread_pool_init, MainLoops, Workers
  <2>2. wpc' \in [Workers -> WorkerLabels]
    BY <1>1, <2>1 DEF thread_pool_init, WorkerLabels
  <2>3. count' \in 1..(num_requests + num_threads) /\ main' \in MainLabels
    BY <1>1, <2>1 DEF thread_pool_init, MainLabels, Workers
  <2> QED
    BY <1>1, <2>2, <2>3 DEF thread_pool_init, queueVars, taskVars
<1>2. CASE create_request
  <2>1. count \in Requests /\ main' \in MainLabels
    BY <1>2 DEF create_request, Requests, MainLabels
  <2> QED
    BY <1>2, <2>1 DEF create_request, queueVars
<1>3. CASE EnqueueLock
  BY <1>3 DEF EnqueueLock, MainLabels, taskVars
<1>4. CASE EnqueueLink
  <2>1. count \in Requests /\ main' \in MainLabels
    BY <1>4 DEF EnqueueLink, MainLoops, Requests, MainLabels
  <2>2. que' \in Seq(Requests)
    BY <1>4, <2>1, AppendProperties DEF EnqueueLink
  <2>3. wpc' \in [Workers -> WorkerLabels]
    BY <1>4 DEF EnqueueLink, WorkerLabels
  <2> QED
    BY <1>4, <2>1, <2>2, <2>3 DEF EnqueueLink, taskVars
<1>5. CASE EnqueueUnlock
  <2>1. count' \in 1..(num_requests + num_threads)
    BY <1>5 DEF EnqueueUnlock, MainLoops
  <2> QED
    BY <1>5, <2>1 DEF EnqueueUnlock, MainLabels, taskVars
<1>6. CASE queue_close
  BY <1>6 DEF queue_close, MainLabels, queueVars, taskVars
<1> QED
  BY <1>1, <1>2, <1>3, <1>4, <1>5, <1>6 DEF MainStep, queue_enqueue

\* ... and so do the workers'.
LEMMA WorkerTypes ==
    ASSUME TypeOK, HoldersHaveRequest, EachRunOnce, NEW w \in Workers, do_work(w),
           UNCHANGED exited
    PROVE  TypeOK'
<1> USE Basics DEF TypeOK
<1>w. \A l \in WorkerLabels : [wpc EXCEPT ![w] = l] \in [Workers -> WorkerLabels]
  OBVIOUS
<1>1. CASE DequeueLock(w)
  BY <1>1, <1>w DEF DequeueLock, WorkerLabels, taskVars
<1>2. CASE DequeueWait(w)
  BY <1>2, <1>w DEF DequeueWait, WorkerLabels, taskVars
<1>3. CASE SpuriousWakeup(w)
  BY <1>3, <1>w DEF SpuriousWakeup, WorkerLabels, queueVars, taskVars
<1>4. CASE DequeueUnlink(w)
  <2>1. Head(que) \in Requests /\ Tail(que) \in Seq(Requests)
    BY <1>4, HeadTailProperties DEF DequeueUnlink
  <2> QED
    BY <1>4, <1>w, <2>1 DEF DequeueUnlink, WorkerLabels, taskVars
<1>5. CASE DequeueUnlock(w)
  BY <1>5, <1>w DEF DequeueUnlock, WorkerLabels, taskVars
<1>6. CASE RunTask(w)
  <2>1. req[w] \in Requests
    BY <1>6 DEF RunTask, HoldersHaveRequest, Idle
  <2>2. req[w] \in Unstarted
    BY <1>6 DEF RunTask, Unstarted
  <2>3. done[req[w]] = 0
    BY <2>1, <2>2 DEF EachRunOnce
  <2>4. done' \in [Requests -> 0..1]
    BY <1>6, <2>1, <2>3 DEF RunTask
  <2> QED
    BY <1>6, <1>w, <2>4 DEF RunTask, WorkerLabels, queueVars
<1>7. CASE LogLock(w)
  BY <1>7, <1>w DEF LogLock, WorkerLabels, queueVars
<1>8. CASE LogNoFile(w)
  BY <1>8, <1>w DEF LogNoFile, WorkerLabels, queueVars, taskVars
<1>9. CASE LogTime(w)
  BY <1>9, <1>w DEF LogTime, WorkerLabels, queueVars
<1>10. CASE LogWrite(w)
  <2>1. log' \in Seq(Workers \X (Workers \cup {NULL}))
    <3>1. <<w, tm>> \in Workers \X (Workers \cup {NULL})
      OBVIOUS
    <3> HIDE DEF TypeOK
    <3>2. log \in Seq(Workers \X (Workers \cup {NULL}))
      BY DEF TypeOK
    <3> QED
      BY <1>10, <3>1, <3>2, AppendProperties DEF LogWrite
  <2> QED
    BY <1>10, <1>w, <2>1 DEF LogWrite, WorkerLabels, queueVars
<1>11. CASE LogUnlock(w)
  BY <1>11, <1>w DEF LogUnlock, WorkerLabels, queueVars
<1>12. CASE FreeRequest(w)
  BY <1>12, <1>w DEF FreeRequest, WorkerLabels, queueVars
<1> QED
  BY <1>1, <1>2, <1>3, <1>4, <1>5, <1>6, <1>7, <1>8, <1>9, <1>10, <1>11, <1>12
     DEF do_work, queue_dequeue, log_message

\* main's steps preserve the lock discipline and the bounds of its loops.
LEMMA MainControl ==
    ASSUME TypeOK, ControlInv, MainStep
    PROVE  ControlInv'
<1> USE Basics DEF TypeOK, ControlInv, LocksHeld, HoldersHaveRequest, MainLoops, Idle
<1>1. CASE thread_pool_init
  BY <1>1 DEF thread_pool_init, Workers, queueVars, taskVars
<1>2. CASE create_request
  BY <1>2 DEF create_request, queueVars
<1>3. CASE EnqueueLock
  BY <1>3 DEF EnqueueLock, taskVars
<1>4. CASE EnqueueLink
  <2>1. \A w \in Workers : wpc'[w] = wpc[w] \/ (wpc[w] = "waiting" /\ wpc'[w] = "woken")
    BY <1>4 DEF EnqueueLink
  <2>2. /\ main = "link" /\ main' = "unlock"
        /\ UNCHANGED <<count, mutex, req, log_mutex, tm>>
    BY <1>4 DEF EnqueueLink, taskVars
  <2>3. LocksHeld'
    BY <2>1, <2>2
  <2>4. HoldersHaveRequest' /\ MainLoops'
    BY <2>1, <2>2
  <2> QED
    BY <2>3, <2>4
<1>5. CASE EnqueueUnlock
  BY <1>5 DEF EnqueueUnlock, taskVars
<1>6. CASE queue_close
  BY <1>6 DEF queue_close, queueVars, taskVars
<1> QED
  BY <1>1, <1>2, <1>3, <1>4, <1>5, <1>6 DEF MainStep, queue_enqueue

\* The workers' steps preserve the lock discipline.
LEMMA WorkerControl ==
    ASSUME TypeOK, ControlInv, NEW w \in Workers, do_work(w)
    PROVE  ControlInv'
<1> USE Basics DEF TypeOK, ControlInv, LocksHeld, HoldersHaveRequest, MainLoops, Idle
<1>1. CASE DequeueLock(w)
  BY <1>1 DEF DequeueLock, taskVars
<1>2. CASE DequeueWait(w)
  BY <1>2 DEF DequeueWait, taskVars
<1>3. CASE SpuriousWakeup(w)
  BY <1>3 DEF SpuriousWakeup, queueVars, taskVars
<1>4. CASE DequeueUnlink(w)
  <2>1. Head(que) \in Requests
    BY <1>4, HeadTailProperties DEF DequeueUnlink
  <2> QED
    BY <1>4, <2>1 DEF DequeueUnlink, taskVars
<1>5. CASE DequeueUnlock(w)
  BY <1>5 DEF DequeueUnlock, taskVars
<1>6. CASE RunTask(w)
  BY <1>6 DEF RunTask, queueVars
<1>7. CASE LogLock(w)
  BY <1>7 DEF LogLock, queueVars
<1>8. CASE LogNoFile(w)
  BY <1>8 DEF LogNoFile, queueVars, taskVars
<1>9. CASE LogTime(w)
  BY <1>9 DEF LogTime, queueVars
<1>10. CASE LogWrite(w)
  BY <1>10 DEF LogWrite, queueVars
<1>11. CASE LogUnlock(w)
  BY <1>11 DEF LogUnlock, queueVars
<1>12. CASE FreeRequest(w)
  BY <1>12 DEF FreeRequest, queueVars
<1> QED
  BY <1>1, <1>2, <1>3, <1>4, <1>5, <1>6, <1>7, <1>8, <1>9, <1>10, <1>11, <1>12
     DEF do_work, queue_dequeue, log_message

\* Where the steps of main that leave the requests alone leave them.
LEMMA MainRequestsQuiet ==
    ASSUME TypeOK, ControlInv, RequestsInv,
           thread_pool_init \/ EnqueueLock \/ EnqueueUnlock \/ queue_close
    PROVE  RequestsInv'
<1> USE Basics
<1>t. count \in Int /\ \A r \in Requests : r \in 1..num_requests
  BY DEF TypeOK, Requests
<1>1. CASE thread_pool_init
  <2>1. wpc[count] = "unborn" /\ count \in Workers
    BY <1>1 DEF thread_pool_init, ControlInv, MainLoops, TypeOK, Workers
  <2>2. wpc' = [wpc EXCEPT ![count] = "lock"] /\ wpc \in [Workers -> WorkerLabels]
    BY <1>1 DEF thread_pool_init, TypeOK
  <2>3. \A r \in Requests : r \in Enqueued' <=> r \in Enqueued
    BY <1>1, <1>t DEF thread_pool_init, Enqueued
  <2>4. main \notin {"lock", "link"} /\ main' \notin {"lock", "link"}
    BY <1>1 DEF thread_pool_init
  <2>5. UNCHANGED <<que, req, reqs, args, done>>
    BY <1>1 DEF thread_pool_init, queueVars, taskVars
  <2> QED
    BY <2>1, <2>2, <2>3, <2>4, <2>5, RequestsUntouched
<1>2. CASE EnqueueLock
  <2>1. \A r \in Requests : r \in Enqueued' <=> r \in Enqueued
    BY <1>2 DEF EnqueueLock, Enqueued
  <2> QED
    BY <1>2, <2>1, RequestsUntouched DEF EnqueueLock, taskVars
<1>3. CASE EnqueueUnlock
  <2>1. \A r \in Requests : r \in Enqueued' <=> r \in Enqueued
    BY <1>3, <1>t DEF EnqueueUnlock, Enqueued
  <2> QED
    BY <1>3, <2>1, RequestsUntouched DEF EnqueueUnlock, taskVars
<1>4. CASE queue_close
  <2>1. \A r \in Requests : r \in Enqueued' <=> r \in Enqueued
    BY <1>4, <1>t DEF queue_close, Enqueued
  <2> QED
    BY <1>4, <2>1, RequestsUntouched DEF queue_close, queueVars, taskVars
<1> QED
  BY <1>1, <1>2, <1>3, <1>4

\* create_request puts a request into main's hands that nobody had before.
LEMMA CreateRequests ==
    ASSUME TypeOK, ControlInv, RequestsInv, create_request
    PROVE  RequestsInv'
<1> USE Basics
<1>t. count \in Int /\ \A r \in Requests : r \in 1..num_requests
  BY DEF TypeOK, Requests
<1>1. Queued' = Queued /\ InHand' = InHand /\ Unstarted' = Unstarted
  BY DEF create_request, queueVars, Queued, InHand, Unstarted
<1>2. Enqueued' = Enqueued /\ count \notin Enqueued
  BY <1>t DEF create_request, Enqueued
<1>3. EachRunOnce'
  BY <1>1, <1>2 DEF create_request, queueVars, RequestsInv, EachRunOnce
<1>4. reqs = Queued \cup InHand
  BY DEF create_request, RequestsInv, OneOwner
<1>5. reqs' = Queued' \cup InHand' \cup {count'} /\ main' = "lock"
  BY <1>1, <1>4 DEF create_request
<1>6. \A w \in Workers : wpc[w] = "free" => req[w] # count
  <2>1. \A w \in Workers : wpc[w] = "free" => req[w] # NULL
    BY DEF ControlInv, HoldersHaveRequest, Idle
  <2>2. \A w \in Workers : req[w] # NULL => req[w] \in Enqueued
    BY DEF RequestsInv, EachRunOnce, InHand
  <2> QED
    BY <2>1, <2>2, <1>2
<1>7. args' = reqs' \ {req[w] : w \in {v \in Workers : wpc[v] = "free"}}'
  BY <1>6 DEF create_request, RequestsInv, OneOwner
<1>8. OneOwner'
  BY <1>1, <1>5, <1>7 DEF create_request, RequestsInv, OneOwner
<1> QED
  BY <1>3, <1>8 DEF RequestsInv

\* Linking hands main's request over to the queue, which did not hold it.
LEMMA LinkRequests ==
    ASSUME TypeOK, ControlInv, RequestsInv, EnqueueLink
    PROVE  RequestsInv'
<1> USE Basics
<1>t. /\ count \in Requests /\ \A r \in Requests : r \in 1..num_requests
      /\ que \in Seq(Requests) /\ wpc \in [Workers -> WorkerLabels]
  BY DEF TypeOK, Requests, ControlInv, MainLoops, EnqueueLink
<1>1. /\ Len(que) \in Nat /\ Len(que') = Len(que) + 1
      /\ \A j \in 1..Len(que) : que'[j] = que[j]
      /\ que'[Len(que) + 1] = count
  BY <1>t, AppendProperties DEF EnqueueLink
<1>2. Queued' = Queued \cup {count}
  BY <1>1 DEF Queued
<1>3. InHand' = InHand
  BY DEF EnqueueLink, InHand
<1>4. \A w \in Workers : /\ wpc'[w] \in {"unlock", "run"} <=> wpc[w] \in {"unlock", "run"}
                         /\ wpc'[w] = "free" <=> wpc[w] = "free"
  BY <1>t DEF EnqueueLink
<1>5. Unstarted' = Unstarted
  BY <1>4 DEF Unstarted, EnqueueLink
<1>6. count \notin Enqueued /\ Enqueued' = Enqueued \cup {count}
  BY <1>t DEF EnqueueLink, Enqueued
<1>7. count \notin Queued /\ count \notin InHand
  BY <1>6 DEF RequestsInv, EachRunOnce
<1>8. OneOwner'
  <2>1. {req[w] : w \in {v \in Workers : wpc[v] = "free"}}'
          = {req[w] : w \in {v \in Workers : wpc[v] = "free"}}
    BY <1>4 DEF EnqueueLink
  <2>2. reqs' = Queued' \cup InHand' /\ main' = "unlock"
    BY <1>2, <1>3 DEF EnqueueLink, taskVars, RequestsInv, OneOwner
  <2>3. Queued' \cap InHand' = {}
    BY <1>2, <1>3, <1>7 DEF RequestsInv, OneOwner
  <2> QED
    BY <2>1, <2>2, <2>3 DEF EnqueueLink, taskVars, RequestsInv, OneOwner
<1>9. EachRunOnce'
  <2>1. \A i, j \in 1..Len(que') : que'[i] = que'[j] => i = j
    <3>1. \A i \in 1..Len(que) : que[i] # count
      BY <1>7 DEF Queued
    <3>2. \A i \in 1..Len(que') : i \in 1..Len(que) \/ i = Len(que) + 1
      BY <1>1
    <3> QED
      BY <1>1, <3>1, <3>2 DEF RequestsInv, EachRunOnce
  <2>2. (Queued \cup InHand)' \subseteq Enqueued'
    BY <1>2, <1>3, <1>6 DEF RequestsInv, EachRunOnce
  <2>3. Enqueued' \ (Queued' \cup Unstarted') = Enqueued \ (Queued \cup Unstarted)
    BY <1>2, <1>5, <1>6
  <2>4. done' = done
    BY DEF EnqueueLink, taskVars
  <2> QED
    BY <2>1, <2>2, <2>3, <2>4 DEF RequestsInv, EachRunOnce
<1> QED
  BY <1>8, <1>9 DEF RequestsInv

\* Taking the oldest request off the queue takes that one, and only it, out.
LEMMA HeadTail ==
    ASSUME NEW q \in Seq(Requests), q # << >>,
           \A i, j \in 1..Len(q) : q[i] = q[j] => i = j
    PROVE  /\ Head(q) \in Requests
           /\ \A i, j \in 1..Len(Tail(q)) : Tail(q)[i] = Tail(q)[j] => i = j
           /\ {Tail(q)[j] : j \in 1..Len(Tail(q))}
                 = {q[j] : j \in 1..Len(q)} \ {Head(q)}
           /\ Head(q) \in {q[j] : j \in 1..Len(q)}
<1>1. /\ Len(q) \in Nat \ {0} /\ Len(Tail(q)) = Len(q) - 1 /\ Head(q) = q[1]
      /\ Head(q) \in Requests
  BY HeadTailProperties, EmptySeq
<1>2. \A j \in 1..Len(Tail(q)) : Tail(q)[j] = q[j + 1] /\ j + 1 \in 1..Len(q)
  BY <1>1
<1>3. \A j \in 1..Len(q) : j # 1 => j - 1 \in 1..Len(Tail(q)) /\ q[j] = Tail(q)[j - 1]
  BY <1>1, <1>2
<1>4. 1 \in 1..Len(q)
  BY <1>1
<1>5. \A i, j \in 1..Len(Tail(q)) : Tail(q)[i] = Tail(q)[j] => i = j
  BY <1>1, <1>2
<1>6. \A j \in 1..Len(Tail(q)) : Tail(q)[j] # q[1]
  BY <1>1, <1>2, <1>4
<1>7. {Tail(q)[j] : j \in 1..Len(Tail(q))} \subseteq {q[j] : j \in 1..Len(q)} \ {q[1]}
  BY <1>2, <1>6
<1>8. {q[j] : j \in 1..Len(q)} \ {q[1]} \subseteq {Tail(q)[j] : j \in 1..Len(Tail(q))}
  BY <1>3
<1> QED
  BY <1>1, <1>4, <1>5, <1>7, <1>8

\* Unlinking hands a request over from the queue to the worker.
LEMMA UnlinkRequests ==
    ASSUME TypeOK, ControlInv, RequestsInv, NEW w \in Workers, DequeueUnlink(w)
    PROVE  RequestsInv'
<1> USE Basics
<1> DEFINE r == Head(que)
           Free == {req[u] : u \in {v \in Workers : wpc[v] = "free"}}
<1>t. /\ que \in Seq(Requests) /\ wpc \in [Workers -> WorkerLabels]
      /\ req \in [Workers -> Requests \cup {NULL}]
      /\ que # << >> /\ que' = Tail(que)
      /\ req' = [req EXCEPT ![w] = r] /\ wpc' = [wpc EXCEPT ![w] = "unlock"]
      /\ wpc[w] = "check" /\ UNCHANGED <<main, count, taskVars>>
  BY DEF TypeOK, DequeueUnlink
<1>u. req[w] = NULL
  BY <1>t DEF ControlInv, HoldersHaveRequest, Idle
<1>1. /\ r \in Requests /\ Queued' = Queued \ {r} /\ r \in Queued
      /\ \A i, j \in 1..Len(que') : que'[i] = que'[j] => i = j
  <2>1. \A i, j \in 1..Len(que) : que[i] = que[j] => i = j
    BY DEF RequestsInv, EachRunOnce
  <2>2. /\ Head(que) \in Requests
        /\ \A i, j \in 1..Len(Tail(que)) : Tail(que)[i] = Tail(que)[j] => i = j
        /\ {Tail(que)[j] : j \in 1..Len(Tail(que))}
              = {que[j] : j \in 1..Len(que)} \ {Head(que)}
        /\ Head(que) \in {que[j] : j \in 1..Len(que)}
    BY <1>t, <2>1, HeadTail
  <2>3. que' = Tail(que)
    BY <1>t
  <2>4. Queued' = Queued \ {r} /\ r \in Queued
    <3>1. Queued' = {Tail(que)[j] : j \in 1..Len(Tail(que))}
      BY <2>3, Zenon DEF Queued
    <3>2. Queued = {que[j] : j \in 1..Len(que)}
      BY Zenon DEF Queued
    <3>3. Queued' = Queued \ {Head(que)} /\ Head(que) \in Queued
      BY <2>2, <3>1, <3>2, Zenon
    <3> QED
      BY <3>3
  <2>5. \A i, j \in 1..Len(que') : que'[i] = que'[j] => i = j
    BY <2>2, <2>3
  <2> QED
    BY <2>2, <2>4, <2>5
<1> HIDE DEF r
<1>2. InHand' = InHand \cup {r}
  BY <1>t, <1>u, <1>1 DEF InHand
<1>3. Unstarted' = Unstarted \cup {r}
  <2>1. \A v \in Workers : v # w => req'[v] = req[v] /\ wpc'[v] = wpc[v]
    BY <1>t
  <2>2. req'[w] = r /\ wpc'[w] = "unlock"
    BY <1>t
  <2> QED
    BY <1>t, <2>1, <2>2 DEF Unstarted
<1>4. Free' = Free
  BY <1>t
<1>5. Enqueued' = Enqueued
  BY <1>t DEF Enqueued
<1>6. r \notin InHand
  BY <1>1 DEF RequestsInv, OneOwner
<1>7. OneOwner'
  <2>1. \A u, v \in Workers : req'[u] # NULL /\ req'[u] = req'[v] => u = v
    BY <1>t, <1>6 DEF RequestsInv, OneOwner, InHand
  <2>2. Queued' \cap InHand' = {} /\ Queued' \cup InHand' = Queued \cup InHand
    BY <1>1, <1>2, <1>6 DEF RequestsInv, OneOwner
  <2>3. UNCHANGED <<reqs, args, main, count>>
    BY <1>t DEF taskVars
  <2> QED
    BY <2>1, <2>2, <2>3, <1>4 DEF RequestsInv, OneOwner
<1>8. EachRunOnce'
  <2>1. (Queued \cup InHand)' \subseteq Enqueued'
    BY <1>1, <1>2, <1>5 DEF RequestsInv, EachRunOnce
  <2>2. Queued' \cup Unstarted' = Queued \cup Unstarted
    BY <1>1, <1>3
  <2>3. done' = done
    BY <1>t DEF taskVars
  <2> QED
    BY <1>1, <1>5, <2>1, <2>2, <2>3 DEF RequestsInv, EachRunOnce
<1> QED
  BY <1>7, <1>8 DEF RequestsInv

\* Running the task marks its request, which only this worker holds, as done.
LEMMA RunRequests ==
    ASSUME TypeOK, ControlInv, RequestsInv, NEW w \in Workers, RunTask(w)
    PROVE  RequestsInv'
<1> USE Basics
<1> DEFINE Free == {req[u] : u \in {v \in Workers : wpc[v] = "free"}}
<1>t. /\ wpc \in [Workers -> WorkerLabels] /\ done \in [Requests -> 0..1]
      /\ req \in [Workers -> Requests \cup {NULL}] /\ wpc[w] = "run"
      /\ wpc' = [wpc EXCEPT ![w] = "log_lock"]
      /\ done' = [done EXCEPT ![req[w]] = @ + 1]
      /\ UNCHANGED <<main, count, que, req, args, reqs>>
  BY DEF TypeOK, RunTask, queueVars
<1>1. req[w] \in Requests /\ req[w] \in InHand /\ req[w] \in Unstarted
  BY <1>t DEF ControlInv, HoldersHaveRequest, Idle, InHand, Unstarted
<1>2. Queued' = Queued /\ InHand' = InHand /\ Enqueued' = Enqueued
  BY <1>t DEF Queued, InHand, Enqueued
<1>3. Unstarted' = Unstarted \ {req[w]}
  <2>1. \A v \in Workers : v # w => wpc'[v] = wpc[v]
    BY <1>t
  <2>2. \A v \in Workers : v # w /\ wpc[v] \in {"unlock", "run"} => req[v] # req[w]
    BY <1>1 DEF RequestsInv, OneOwner, InHand
  <2> QED
    BY <1>t, <2>1, <2>2 DEF Unstarted
<1>4. Free' = Free
  BY <1>t
<1>5. OneOwner'
  BY <1>t, <1>2, <1>4 DEF RequestsInv, OneOwner
<1>6. req[w] \in Enqueued /\ req[w] \notin Queued
  BY <1>1 DEF RequestsInv, OneOwner, EachRunOnce
<1>7. \A r \in Requests :
         done'[r] = IF r \in Enqueued' \ (Queued' \cup Unstarted') THEN 1 ELSE 0
  BY <1>t, <1>1, <1>2, <1>3, <1>6 DEF RequestsInv, EachRunOnce
<1>8. EachRunOnce'
  BY <1>t, <1>2, <1>7 DEF RequestsInv, EachRunOnce
<1> QED
  BY <1>5, <1>8 DEF RequestsInv

\* The task frees its argument, do_work then the request: each only once.
LEMMA FreeRequests ==
    ASSUME TypeOK, ControlInv, RequestsInv, NEW w \in Workers,
           LogUnlock(w) \/ FreeRequest(w)
    PROVE  RequestsInv'
<1> USE Basics
<1> DEFINE Free == {req[u] : u \in {v \in Workers : wpc[v] = "free"}}
<1>t. /\ wpc \in [Workers -> WorkerLabels] /\ req \in [Workers -> Requests \cup {NULL}]
      /\ UNCHANGED <<main, count, que, done>>
      /\ wpc[w] \in {"log_unlock", "free"} /\ wpc'[w] \in {"free", "lock"}
      /\ \A v \in Workers : v # w => wpc'[v] = wpc[v] /\ req'[v] = req[v]
  BY DEF TypeOK, LogUnlock, FreeRequest, queueVars
<1>1. req[w] \in Requests /\ req[w] \in InHand
  BY <1>t DEF ControlInv, HoldersHaveRequest, Idle, InHand
<1>2. Queued' = Queued /\ Enqueued' = Enqueued /\ Unstarted' = Unstarted
  BY <1>t DEF Queued, Enqueued, Unstarted
<1>3. \A v \in Workers : v # w => req[v] # req[w]
  BY <1>1 DEF RequestsInv, OneOwner
<1>4. CASE LogUnlock(w)
  <2>1. InHand' = InHand
    BY <1>4 DEF LogUnlock, InHand
  <2>2. Free' = Free \cup {req[w]}
    BY <1>4, <1>t DEF LogUnlock
  <2>3. args' = args \ {req[w]} /\ UNCHANGED <<reqs, req>>
    BY <1>4 DEF LogUnlock
  <2>4. OneOwner'
    BY <1>t, <1>2, <2>1, <2>2, <2>3 DEF RequestsInv, OneOwner
  <2>5. EachRunOnce'
    BY <1>t, <1>2, <2>1 DEF RequestsInv, EachRunOnce
  <2> QED
    BY <2>4, <2>5 DEF RequestsInv
<1>5. CASE FreeRequest(w)
  <2>0. req'[w] = NULL /\ wpc'[w] = "lock" /\ wpc[w] = "free"
    BY <1>5, <1>t DEF FreeRequest
  <2>1. InHand' = InHand \ {req[w]}
    BY <1>t, <1>3, <2>0 DEF InHand
  <2>2. Free' = Free \ {req[w]}
    BY <1>t, <1>3, <2>0
  <2>3. reqs' = reqs \ {req[w]} /\ args' = args /\ req[w] \in Free
    BY <1>5, <2>0 DEF FreeRequest
  <2>4. main \in {"lock", "link"} => count # req[w]
    <3>1. req[w] \in Enqueued
      BY <1>1 DEF RequestsInv, EachRunOnce
    <3> QED
      BY <1>1, <3>1 DEF Enqueued
  <2>5. req[w] \notin Queued
    BY <1>1 DEF RequestsInv, OneOwner
  <2>6. OneOwner'
    <3>1. \A u, v \in Workers : req'[u] # NULL /\ req'[u] = req'[v] => u = v
      BY <1>t, <2>0 DEF RequestsInv, OneOwner
    <3>2. Queued' \cap InHand' = {}
      BY <1>2, <2>1 DEF RequestsInv, OneOwner
    <3>3. reqs' = Queued' \cup InHand'
                    \cup (IF main' \in {"lock", "link"} THEN {count'} ELSE {})
      BY <1>t, <1>2, <2>1, <2>3, <2>4, <2>5 DEF RequestsInv, OneOwner
    <3>4. args' = reqs' \ Free'
      BY <2>2, <2>3 DEF RequestsInv, OneOwner
    <3> QED
      BY <3>1, <3>2, <3>3, <3>4 DEF OneOwner
  <2>7. EachRunOnce'
    BY <1>t, <1>2, <2>1 DEF RequestsInv, EachRunOnce
  <2> QED
    BY <2>6, <2>7 DEF RequestsInv
<1> QED
  BY <1>4, <1>5

\* The workers' other steps do not touch the requests.
LEMMA WorkerRequests ==
    ASSUME TypeOK, ControlInv, RequestsInv, NEW w \in Workers, do_work(w)
    PROVE  RequestsInv'
<1>t. wpc \in [Workers -> WorkerLabels]
  BY DEF TypeOK
<1>1. CASE DequeueUnlink(w)
  BY <1>1, UnlinkRequests
<1>2. CASE RunTask(w)
  BY <1>2, RunRequests
<1>3. CASE LogUnlock(w) \/ FreeRequest(w)
  BY <1>3, FreeRequests
<1>4. CASE \/ DequeueLock(w) \/ DequeueWait(w) \/ SpuriousWakeup(w) \/ DequeueUnlock(w)
          \/ LogLock(w) \/ LogNoFile(w) \/ LogTime(w) \/ LogWrite(w)
  <2>1. UNCHANGED <<main, count, que, req, reqs, args, done>>
    BY <1>4 DEF DequeueLock, DequeueWait, SpuriousWakeup, DequeueUnlock,
                LogLock, LogNoFile, LogTime, LogWrite, queueVars, taskVars
  <2>2. Enqueued' = Enqueued
    BY <2>1 DEF Enqueued
  <2>3. \A v \in Workers : wpc'[v] = "free" <=> wpc[v] = "free"
    BY <1>4, <1>t DEF DequeueLock, DequeueWait, SpuriousWakeup, DequeueUnlock,
                      LogLock, LogNoFile, LogTime, LogWrite
  <2>4. \A v \in Workers : wpc'[v] \in {"unlock", "run"} <=> wpc[v] \in {"unlock", "run"}
    BY <1>4, <1>t DEF DequeueLock, DequeueWait, SpuriousWakeup, DequeueUnlock,
                      LogLock, LogNoFile, LogTime, LogWrite
  <2> QED
    BY <2>1, <2>2, <2>3, <2>4, RequestsUntouched
<1> QED
  BY <1>1, <1>2, <1>3, <1>4 DEF do_work, queue_dequeue, log_message

\* Only LogWrite changes the log, and then the buffer holds the writer's time.
LEMMA LogStep ==
    ASSUME TypeOK, LocksHeld, LogTimesOwn, [Next]_vars
    PROVE  LogTimesOwn'
<1>1. CASE UNCHANGED log
  BY <1>1 DEF LogTimesOwn
<1>2. CASE \E w \in Workers : LogWrite(w)
  <2>1. PICK w \in Workers : LogWrite(w)
    BY <1>2
  <2>2. tm = w /\ log' = Append(log, <<w, tm>>)
    BY <2>1 DEF LogWrite, LocksHeld
  <2>3. <<w, tm>> \in Workers \X (Workers \cup {NULL})
    BY DEF TypeOK
  <2>4. log \in Seq(Workers \X (Workers \cup {NULL}))
    BY DEF TypeOK
  <2>5. /\ Len(log) \in Nat /\ Len(log') = Len(log) + 1
        /\ \A j \in 1..Len(log) : log'[j] = log[j]
        /\ log'[Len(log) + 1] = <<w, tm>>
    BY <2>2, <2>3, <2>4, AppendProperties
  <2>6. \A j \in 1..Len(log') : j \in 1..Len(log) \/ j = Len(log) + 1
    BY <2>5
  <2> QED
    BY <2>2, <2>5, <2>6 DEF LogTimesOwn
<1>3. ASSUME MainStep PROVE UNCHANGED log
  BY <1>3 DEF MainStep, queue_enqueue, thread_pool_init, create_request, EnqueueLock,
              EnqueueLink, EnqueueUnlock, queue_close, taskVars
<1>4. ASSUME NEW w \in Workers, do_work(w) PROVE UNCHANGED log \/ LogWrite(w)
  BY <1>4 DEF do_work, queue_dequeue, log_message, DequeueLock, DequeueWait,
              SpuriousWakeup, DequeueUnlink, DequeueUnlock, RunTask, LogLock, LogNoFile,
              LogTime, LogUnlock, FreeRequest, taskVars
<1>5. ASSUME ExitFailure PROVE UNCHANGED log
  BY <1>5 DEF ExitFailure, taskVars
<1> QED
  BY <1>1, <1>2, <1>3, <1>4, <1>5 DEF Next, Running, vars

\* Every step preserves the invariant.
LEMMA NextShared == SharedInv /\ [Next]_vars => SharedInv'
<1> SUFFICES ASSUME SharedInv, [Next]_vars PROVE SharedInv'
  OBVIOUS
<1>0. TypeOK /\ ControlInv /\ RequestsInv
  BY DEF SharedInv, ControlInv, RequestsInv
<1>1. ASSUME MainStep, UNCHANGED exited PROVE SharedInv'
  <2>1. TypeOK' /\ ControlInv'
    BY <1>0, <1>1, MainTypes, MainControl DEF ControlInv
  <2>2. RequestsInv'
    BY <1>0, <1>1, MainRequestsQuiet, CreateRequests, LinkRequests
       DEF MainStep, queue_enqueue
  <2> QED
    BY <2>1, <2>2 DEF SharedInv, ControlInv, RequestsInv
<1>2. ASSUME NEW w \in Workers, do_work(w), UNCHANGED exited PROVE SharedInv'
  <2>1. TypeOK' /\ ControlInv'
    BY <1>0, <1>2, WorkerTypes, WorkerControl DEF ControlInv, RequestsInv
  <2>2. RequestsInv'
    BY <1>0, <1>2, WorkerRequests
  <2> QED
    BY <2>1, <2>2 DEF SharedInv, ControlInv, RequestsInv
<1>3. ASSUME ExitFailure \/ UNCHANGED vars PROVE SharedInv'
  <2>0. /\ UNCHANGED <<main, count, queueVars, wpc, req, taskVars, spurious>>
        /\ exited' \in BOOLEAN
    BY <1>0, <1>3 DEF ExitFailure, vars, queueVars, taskVars, TypeOK
  <2> USE DEF queueVars, taskVars
  <2>1. TypeOK'
    BY <1>0, <2>0 DEF TypeOK
  <2>2. ControlInv'
    BY <1>0, <2>0 DEF ControlInv, LocksHeld, HoldersHaveRequest, MainLoops
  <2>3. RequestsInv'
    <3>1. Enqueued' = Enqueued
      BY <2>0 DEF Enqueued
    <3> QED
      BY <1>0, <2>0, <3>1, RequestsUntouched
  <2> QED
    BY <2>1, <2>2, <2>3 DEF SharedInv, ControlInv, RequestsInv
<1> QED
  BY <1>1, <1>2, <1>3 DEF Next, Running

----------------------------------------------------------------------------
\* Requests have one owner from malloc to free and are run once, whichever
\* worker of do_work takes them and however often pthread_cond_wait returns
\* without a signal, also when main has to exit: for up to MAX_WORKER_THREADS
\* workers and any number of requests.
THEOREM SharedInvariant == Spec => []SharedInv
<1>1. Init => SharedInv
  BY InitShared
<1>2. SharedInv /\ [Next]_vars => SharedInv'
  BY NextShared
<1> QED
  BY <1>1, <1>2, PTL DEF Spec

\* log_message: no line carries the time that another task put into the buffer
\* of localtime, for log_mutex is held from localtime to strftime.
THEOREM LogTimes == Spec => []LogTimesOwn
<1>1. Init => LogTimesOwn
  BY InitShared
<1>2. SharedInv /\ LogTimesOwn /\ [Next]_vars => LogTimesOwn'
  BY LogStep DEF SharedInv
<1> QED
  BY <1>1, <1>2, SharedInvariant, PTL DEF Spec
=============================================================================
