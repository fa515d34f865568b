----------------------------- MODULE ThreadPool -----------------------------
(***************************************************************************)
(* The request server: src/main.c, src/thread_pool.c, src/worker_thread.c  *)
(* and src/tasks.c.  The main thread creates num_threads workers, each     *)
(* with a request queue of its own, gives NUM_TASKS tasks to randomly      *)
(* chosen workers, closes every queue, joins every worker and frees the    *)
(* pool, while the workers run what they dequeue.                          *)
(*                                                                         *)
(* A worker's queue is used through the promise of FifoQueue, which        *)
(* Queue.tla shows src/queue.c to keep: queue_dequeue blocks until there   *)
(* is a request or the queue is closed.  UsesFifo checks that this module  *)
(* makes only the steps FifoQueue allows.                                  *)
(***************************************************************************)
EXTENDS Integers, Sequences, FiniteSets

CONSTANTS num_threads,  \* how many workers the pool has
          NUM_TASKS,    \* how many tasks main adds
          NULL          \* the null pointer

ASSUME PoolAssumption ==
    /\ num_threads \in Nat \ {0}
    /\ NUM_TASKS \in Nat
    /\ NULL \notin Int

VARIABLES main,            \* where the main thread is
          i,               \* main's loop variable
          index,           \* thread_pool_add's local: the chosen worker
          wpc,             \* wpc[w]: where worker w is in worker_func
          req,             \* req[w]: w's local: the task of its request
          que,             \* que[w]: w's request queue, oldest first
          closed,          \* closed[w]: w's queue was closed
          thread_counter,  \* the next visible thread number
          local_id,        \* local_id[w]: the number w took, 0 before
          processed_count, \* processed_count[w]
          heap,            \* the objects allocated and not freed
          log,             \* the tasks in task_log.txt, oldest first
          runs             \* history: runs[w]: the tasks w ran, in order

mainVars   == <<main, i, index>>
workerVars == <<wpc, req, local_id, processed_count, runs>>
vars == <<mainVars, workerVars, que, closed, thread_counter, heap, log>>

Workers == 0..(num_threads - 1)
Tasks   == 0..(NUM_TASKS - 1)

MainLabels == {"start", "create", "add", "enqueue", "close", "join", "free",
               "done", "exited"}
WorkerLabels == {"unborn", "starting", "dequeue", "taken", "null", "run",
                 "logging", "free_req", "finished", "joined"}

\* What malloc'ed memory holds: the pool and its array, what each worker was
\* given, and for each task the request_t and the int main passes as arg.
PoolObjects == {<<"pool", 0>>, <<"workers", 0>>}
WorkerObjects(w) == {<<"worker", w>>, <<"mutex", w>>, <<"cond", w>>, <<"queue", w>>}
TaskObjects(k) == {<<"val", k>>, <<"req", k>>}
Objects == PoolObjects \cup (UNION {WorkerObjects(w) : w \in Workers})
                       \cup (UNION {TaskObjects(k) : k \in Tasks})

Running == main \notin {"done", "exited"}

Init ==
    /\ main = "start"
    /\ i = 0
    /\ index = 0
    /\ wpc = [w \in Workers |-> "unborn"]
    /\ req = [w \in Workers |-> NULL]
    /\ que = [w \in Workers |-> << >>]
    /\ closed = [w \in Workers |-> FALSE]
    /\ thread_counter = 1
    /\ local_id = [w \in Workers |-> 0]
    /\ processed_count = [w \in Workers |-> 0]
    /\ heap = {}
    /\ log = << >>
    /\ runs = [w \in Workers |-> << >>]

----------------------------------------------------------------------------
(* The main thread *)

\* thread_pool_init allocates the pool and the array of workers.
PoolAlloc ==
    /\ main = "start"
    /\ main' = "create"
    /\ heap' = heap \cup PoolObjects
    /\ UNCHANGED <<i, index, workerVars, que, closed, thread_counter, log>>

\* create_worker_thread for worker i; the new thread may run at once.
create_worker_thread ==
    /\ main = "create"
    /\ i < num_threads
    /\ heap' = heap \cup WorkerObjects(i)
    /\ wpc' = [wpc EXCEPT ![i] = "starting"]
    /\ i' = i + 1
    /\ UNCHANGED <<main, index, req, local_id, processed_count, runs, que,
                   closed, thread_counter, log>>

PoolReady ==
    /\ main = "create"
    /\ i = num_threads
    /\ main' = "add"
    /\ i' = 0
    /\ UNCHANGED <<index, workerVars, que, closed, thread_counter, heap, log>>

\* main allocates the argument of task i, thread_pool_add the request, and
\* rand() picks the worker.
AddAlloc ==
    /\ main = "add"
    /\ i < NUM_TASKS
    /\ heap' = heap \cup TaskObjects(i)
    /\ index' \in Workers
    /\ main' = "enqueue"
    /\ UNCHANGED <<i, workerVars, que, closed, thread_counter, log>>

\* Mutant: the request is linked at the front of the queue.
AddEnqueueInFront ==
    /\ main = "enqueue"
    /\ que' = [que EXCEPT ![index] = <<i>> \o @]
    /\ i' = i + 1
    /\ main' = "add"
    /\ UNCHANGED <<index, workerVars, closed, thread_counter, heap, log>>

\* Mutant: the request goes to two workers.
AddEnqueueTwice ==
    /\ main = "enqueue"
    /\ que' = [que EXCEPT ![index] = Append(@, i),
                          ![(index + 1) % num_threads] = Append(@, i)]
    /\ i' = i + 1
    /\ main' = "add"
    /\ UNCHANGED <<index, workerVars, closed, thread_counter, heap, log>>

\* thread_pool_add's queue_enqueue.  Only main adds and closes, and it closes
\* after its last task, so the queue is open here (UsesFifo checks it).
AddEnqueue ==
    /\ main = "enqueue"
    /\ que' = [que EXCEPT ![index] = Append(@, i)]
    /\ i' = i + 1
    /\ main' = "add"
    /\ UNCHANGED <<index, workerVars, closed, thread_counter, heap, log>>

\* sleep(2) synchronises with nobody: any number of worker steps may have
\* happened when main enters thread_pool_destroy.
SleepOver ==
    /\ main = "add"
    /\ i = NUM_TASKS
    /\ main' = "close"
    /\ i' = 0
    /\ UNCHANGED <<index, workerVars, que, closed, thread_counter, heap, log>>

\* thread_pool_destroy, first loop.
CloseQueue ==
    /\ main = "close"
    /\ i < num_threads
    /\ closed' = [closed EXCEPT ![i] = TRUE]
    /\ i' = i + 1
    /\ UNCHANGED <<main, index, workerVars, que, thread_counter, heap, log>>

AllClosed ==
    /\ main = "close"
    /\ i = num_threads
    /\ main' = "join"
    /\ i' = 0
    /\ UNCHANGED <<index, workerVars, que, closed, thread_counter, heap, log>>

\* Mutant: the worker is not joined before its queue is destroyed.
join_without_waiting ==
    /\ main = "join"
    /\ i < num_threads
    /\ heap' = heap \ ({<<"queue", i>>, <<"worker", i>>}
                       \cup {<<"req", que[i][j]>> : j \in 1..Len(que[i])})
    /\ que' = [que EXCEPT ![i] = << >>]
    /\ i' = i + 1
    /\ UNCHANGED <<main, index, workerVars, closed, thread_counter, log>>

\* join_worker_thread: wait for worker i, then queue_destroy (which frees the
\* requests still queued) and free the worker.
join_worker_thread ==
    /\ main = "join"
    /\ i < num_threads
    /\ wpc[i] = "finished"
    /\ wpc' = [wpc EXCEPT ![i] = "joined"]
    /\ heap' = heap \ ({<<"queue", i>>, <<"worker", i>>}
                       \cup {<<"req", que[i][j]>> : j \in 1..Len(que[i])})
    /\ que' = [que EXCEPT ![i] = << >>]
    /\ i' = i + 1
    /\ UNCHANGED <<main, index, req, local_id, processed_count, runs, closed,
                   thread_counter, log>>

AllJoined ==
    /\ main = "join"
    /\ i = num_threads
    /\ main' = "free"
    /\ UNCHANGED <<i, index, workerVars, que, closed, thread_counter, heap, log>>

\* thread_pool_destroy frees the array and the pool; main returns.
PoolFree ==
    /\ main = "free"
    /\ main' = "done"
    /\ heap' = heap \ PoolObjects
    /\ UNCHANGED <<i, index, workerVars, que, closed, thread_counter, log>>

\* A malloc or a pthread_create fails: the process exits where it is.
ExitFailure ==
    /\ \/ main = "start"
       \/ main = "create" /\ i < num_threads
       \/ main = "add" /\ i < NUM_TASKS
       \/ main = "enqueue"
    /\ main' = "exited"
    /\ UNCHANGED <<i, index, workerVars, que, closed, thread_counter, heap, log>>

thread_pool_init == PoolAlloc \/ create_worker_thread \/ PoolReady
thread_pool_add == AddAlloc \/ AddEnqueue
thread_pool_destroy ==
    CloseQueue \/ AllClosed \/ join_worker_thread \/ AllJoined \/ PoolFree

MainStep == thread_pool_init \/ thread_pool_add \/ SleepOver \/ thread_pool_destroy

----------------------------------------------------------------------------
(* The workers *)

\* Worker w goes from `from` to `to`.
Goto(w, from, to) ==
    /\ Running
    /\ wpc[w] = from
    /\ wpc' = [wpc EXCEPT ![w] = to]

\* Take the next visible thread number, under thread_id_lock.
TakeId(w) ==
    /\ Goto(w, "starting", "dequeue")
    /\ local_id' = [local_id EXCEPT ![w] = thread_counter]
    /\ thread_counter' = thread_counter + 1
    /\ UNCHANGED <<mainVars, req, processed_count, runs, que, closed, heap, log>>

\* queue_dequeue unlinks the oldest request.
DequeueTake(w) ==
    /\ que[w] # << >>
    /\ Goto(w, "dequeue", "taken")
    /\ req' = [req EXCEPT ![w] = Head(que[w])]
    /\ que' = [que EXCEPT ![w] = Tail(que[w])]
    /\ UNCHANGED <<mainVars, local_id, processed_count, runs, closed,
                   thread_counter, heap, log>>

\* Mutant: the worker stops as soon as its queue is closed.
DequeueNullUndrained(w) ==
    /\ closed[w]
    /\ Goto(w, "dequeue", "null")
    /\ UNCHANGED <<mainVars, req, local_id, processed_count, runs, que, closed,
                   thread_counter, heap, log>>

\* queue_dequeue finds the queue closed and empty.
DequeueNull(w) ==
    /\ que[w] = << >>
    /\ closed[w]
    /\ Goto(w, "dequeue", "null")
    /\ UNCHANGED <<mainVars, req, local_id, processed_count, runs, que, closed,
                   thread_counter, heap, log>>

\* queue_dequeue returns the request; work_fn is called.
CallTask(w) ==
    /\ Goto(w, "taken", "run")
    /\ runs' = [runs EXCEPT ![w] = Append(@, req[w])]
    /\ UNCHANGED <<mainVars, req, local_id, processed_count, que, closed,
                   thread_counter, heap, log>>

\* example_task returns at once when it cannot open the log file.
TaskNoFile(w) ==
    /\ Goto(w, "run", "free_req")
    /\ UNCHANGED <<mainVars, req, local_id, processed_count, runs, que, closed,
                   thread_counter, heap, log>>

TaskOpen(w) ==
    /\ Goto(w, "run", "logging")
    /\ UNCHANGED <<mainVars, req, local_id, processed_count, runs, que, closed,
                   thread_counter, heap, log>>

\* After its random delay the task writes its lines with one flush at fclose.
\* It reads *arg and does not free it.
TaskLog(w) ==
    /\ Goto(w, "logging", "free_req")
    /\ log' = Append(log, req[w])
    /\ UNCHANGED <<mainVars, req, local_id, processed_count, runs, que, closed,
                   thread_counter, heap>>

\* Mutant: the worker does not free the request.
FreeRequestNot(w) ==
    /\ Goto(w, "free_req", "dequeue")
    /\ req' = [req EXCEPT ![w] = NULL]
    /\ processed_count' = [processed_count EXCEPT ![w] = @ + 1]
    /\ UNCHANGED <<mainVars, local_id, runs, que, closed, thread_counter, heap, log>>

FreeRequest(w) ==
    /\ Goto(w, "free_req", "dequeue")
    /\ heap' = heap \ {<<"req", req[w]>>}
    /\ req' = [req EXCEPT ![w] = NULL]
    /\ processed_count' = [processed_count EXCEPT ![w] = @ + 1]
    /\ UNCHANGED <<mainVars, local_id, runs, que, closed, thread_counter, log>>

\* Mutant: NULL is skipped with `continue` instead of `break`.
WorkerContinues(w) ==
    /\ Goto(w, "null", "dequeue")
    /\ UNCHANGED <<mainVars, req, local_id, processed_count, runs, que, closed,
                   thread_counter, heap, log>>

\* NULL ends the loop and the thread.
WorkerExit(w) ==
    /\ Goto(w, "null", "finished")
    /\ UNCHANGED <<mainVars, req, local_id, processed_count, runs, que, closed,
                   thread_counter, heap, log>>

example_task(w) == TaskNoFile(w) \/ TaskOpen(w) \/ TaskLog(w)

worker_func(w) ==
    \/ TakeId(w)
    \/ DequeueTake(w) \/ DequeueNull(w) \/ CallTask(w)
    \/ example_task(w)
    \/ FreeRequest(w)
    \/ WorkerExit(w)

----------------------------------------------------------------------------
Terminated == main \in {"done", "exited"} /\ UNCHANGED vars

Next == MainStep \/ ExitFailure \/ (\E w \in Workers : worker_func(w)) \/ Terminated

\* Every thread that can run does so eventually; tasks end because their delay
\* is at most 250 ms.  Nothing obliges malloc to fail.
Spec == Init /\ [][Next]_vars
             /\ WF_vars(MainStep)
             /\ \A w \in Workers : WF_vars(worker_func(w))

----------------------------------------------------------------------------
(* Properties *)

TypeOK ==
    /\ main \in MainLabels
    /\ i \in Nat
    /\ index \in Workers
    /\ wpc \in [Workers -> WorkerLabels]
    /\ req \in [Workers -> Tasks \cup {NULL}]
    /\ que \in [Workers -> Seq(Tasks)]
    /\ closed \in [Workers -> BOOLEAN]
    /\ thread_counter \in Nat
    /\ local_id \in [Workers -> Nat]
    /\ processed_count \in [Workers -> Nat]
    /\ heap \subseteq Objects
    /\ log \in Seq(Tasks)
    /\ runs \in [Workers -> Seq(Tasks)]

Alive == {w \in Workers : wpc[w] \notin {"unborn", "finished", "joined"}}

\* The objects some thread may still dereference or free: a live worker's
\* struct, queue, mutex and condition variable, the request and the argument
\* of every queued task and of the task in a worker's hands, and what main's
\* remaining steps free.
InUse ==
    (UNION {WorkerObjects(w) : w \in Alive})
    \cup (UNION {UNION {TaskObjects(que[w][j]) : j \in 1..Len(que[w])} : w \in Workers})
    \cup (UNION {TaskObjects(req[w]) : w \in {v \in Workers : req[v] # NULL}})
    \cup (IF main = "enqueue" THEN TaskObjects(i) ELSE {})
    \cup (IF main \in {"start", "done", "exited"} THEN {} ELSE PoolObjects)
    \cup (UNION {{<<"worker", w>>, <<"queue", w>>} :
                    w \in {v \in Workers : wpc[v] = "finished"}})

\* No thread uses an object after it is freed, and nothing is freed twice:
\* whatever is still to be used is allocated.
MemorySafe == InUse \subseteq heap

\* The tasks anybody ran.
Ran == UNION {{runs[w][j] : j \in 1..Len(runs[w])} : w \in Workers}

\* No task runs twice, not even on two workers; a worker runs its tasks in the
\* order in which main added them.
RunOnceInOrder ==
    /\ \A w \in Workers : \A j, k \in 1..Len(runs[w]) :
          j < k => runs[w][j] < runs[w][k]
    /\ \A v, w \in Workers : \A j \in 1..Len(runs[v]), k \in 1..Len(runs[w]) :
          runs[v][j] = runs[w][k] => v = w

\* thread_pool_destroy drains the queues: when main returns, every task it
\* added has run, and queue_destroy never finds a request to throw away.
DrainedOnDestroy ==
    /\ main = "done" => Ran = Tasks
    /\ \A w \in Workers : wpc[w] \in {"null", "finished", "joined"} => que[w] = << >>

\* The program ends: the close of each queue reaches its worker, each worker
\* drains its queue and exits, each join returns.
Terminates == <>(main \in {"done", "exited"})

\* Worker w's queue, seen as a FifoQueue whose threads are the workers.
FateIn(w, k) ==
    IF \E j \in 1..Len(que[w]) : que[w][j] = k THEN "queued"
    ELSE IF wpc[w] = "taken" /\ req[w] = k THEN "queued"
    ELSE IF \E j \in 1..Len(runs[w]) : runs[w][j] = k THEN "delivered"
    ELSE IF /\ main \in {"enqueue", "exited"}
            /\ i = k /\ index = w /\ <<"req", k>> \in heap THEN "calling"
    ELSE "fresh"

WorkerFifo(w) == INSTANCE FifoQueue WITH
    Threads <- {w},
    Requests <- Tasks,
    buf <- que[w],
    closed <- closed[w],
    result <- [t \in {w} |-> IF wpc[w] = "taken" THEN <<req[w]>>
                             ELSE IF wpc[w] = "null" THEN <<NULL>>
                             ELSE << >>],
    fate <- [k \in Tasks |-> FateIn(w, k)]

\* Every use the pool makes of a queue is one FifoQueue allows.
UsesFifo ==
    /\ \A w \in Workers : WorkerFifo(w)!Init
    /\ [][\A w \in Workers : \/ WorkerFifo(w)!Next
                             \/ UNCHANGED WorkerFifo(w)!fifoVars]_vars

\* What the program frees itself: the pool and its array (thread_pool_destroy),
\* each worker and its queue (join_worker_thread), each request (worker_func).
Owned ==
    PoolObjects \cup (UNION {{<<"worker", w>>, <<"queue", w>>} : w \in Workers})
                \cup {<<"req", k>> : k \in Tasks}

\* None of it outlives its last use: no path of thread_pool_destroy, of a worker
\* or of a task, one that cannot open its file included, forgets to free it.
NothingLost == main # "exited" => (heap \cap Owned) \subseteq InUse

\* "clean up all resources" (thread_pool.h:14): when main returns, nothing is left
\* allocated.  The code does not keep this; see the disagreements in the README.
AllFreed == main = "done" => heap = {}

Queued(w, k) == \E j \in 1..Len(que[w]) : que[w][j] = k
RanBy(w, k) == \E j \in 1..Len(runs[w]) : runs[w][j] = k

\* Worker w was given task k.
Has(w, k) == Queued(w, k) \/ RanBy(w, k) \/ (wpc[w] = "taken" /\ req[w] = k)

\* How many tasks main has added.
Added == IF main \in {"start", "create"} THEN 0
         ELSE IF main \in {"add", "enqueue"} THEN i
         ELSE NUM_TASKS

\* Every task that was added is at exactly one worker, and it ran there, is in
\* the worker's hands or is queued behind whatever ran.
TasksKept ==
    /\ \A w \in Workers : \A j, k \in 1..Len(runs[w]) : j < k => runs[w][j] < runs[w][k]
    /\ \A w \in Workers : \A j, k \in 1..Len(que[w]) : j < k => que[w][j] < que[w][k]
    /\ \A w \in Workers : \A k, m \in Tasks : RanBy(w, k) /\ Queued(w, m) => k < m
    /\ \A w \in Workers : wpc[w] = "taken" => \A k \in Tasks :
          (RanBy(w, k) => k < req[w]) /\ (Queued(w, k) => req[w] < k)
    /\ \A w \in Workers : wpc[w] \in {"run", "logging", "free_req"} => RanBy(w, req[w])
    /\ \A w \in Workers : req[w] # NULL <=> wpc[w] \in {"taken", "run", "logging", "free_req"}
    /\ \A v, w \in Workers : \A k \in Tasks : Has(v, k) /\ Has(w, k) => v = w
    /\ main # "exited" => \A k \in Tasks : k < Added <=> \E w \in Workers : Has(w, k)

\* How far main is in its loops, and which workers have started, ended and been
\* joined; a worker ends only on a closed and empty queue.
LoopsKept ==
    /\ main = "start" => i = 0 /\ \A w \in Workers : wpc[w] = "unborn"
    /\ main = "create" => i <= num_threads /\ \A w \in Workers : wpc[w] # "unborn" <=> w < i
    /\ main \notin {"start", "create", "exited"} => \A w \in Workers : wpc[w] # "unborn"
    /\ main = "add" => i <= NUM_TASKS
    /\ main = "enqueue" => i < NUM_TASKS
    /\ main \in {"close", "join"} => i <= num_threads
    /\ main = "join" => \A w \in Workers : wpc[w] = "joined" <=> w < i
    /\ main \in {"free", "done"} => \A w \in Workers : wpc[w] = "joined"
    /\ main \notin {"join", "free", "done"} => \A w \in Workers : wpc[w] # "joined"
    /\ \A w \in Workers : closed[w] => main \in {"close", "join", "free", "done"}
    /\ \A w \in Workers : wpc[w] \in {"null", "finished", "joined"} =>
          closed[w] /\ que[w] = << >>

\* Memory: nothing is used after its free, and nothing the program is to free
\* outlives its use; with where each task and each loop is, which this rests on.
PoolInv == TypeOK /\ MemorySafe /\ NothingLost /\ TasksKept /\ LoopsKept

\* Every task that main adds runs exactly once, in the order of its queue, and
\* before thread_pool_destroy returns.
TasksRunOnce == RunOnceInOrder /\ DrainedOnDestroy
=============================================================================
