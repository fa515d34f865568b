----------------------------- MODULE SharedPool -----------------------------
(***************************************************************************)
(* src/M9: the earlier request server, whose workers share one queue.      *)
(* main.c creates requests and enqueues them, do_work dequeues and runs    *)
(* them, each task logs a line under log_mutex, thread_pool_destroy joins  *)
(* the workers.                                                            *)
(*                                                                         *)
(* main.c calls queue_init, thread_pool_create and queue_close, which M9   *)
(* declares but does not define.  The first two are taken to be            *)
(* queue_create and thread_pool_init; whatever queue_close does to the     *)
(* `closed` field, no code in M9 reads it, so it is a step without effect. *)
(* The nodes are those of Queue.tla, and left out here; so are the mallocs *)
(* whose failure M9 does not look at.                                      *)
(***************************************************************************)
EXTENDS Integers, Sequences, FiniteSets

CONSTANTS num_threads,   \* both from the command line, checked positive
          num_requests,
          MaxSpurious,   \* bound: how many spurious wake-ups there are
          NULL

\* The size of the array that thread_pool_init fills, whatever num_threads is:
\* beyond it the program writes where the pool is not, and the model ends.
MAX_WORKER_THREADS == 20

ASSUME SharedAssumption ==
    /\ num_threads \in 1..MAX_WORKER_THREADS
    /\ num_requests \in Nat \ {0}
    /\ MaxSpurious \in Nat
    /\ NULL \notin Int

VARIABLES main,       \* where main is
          count,      \* main's loop variables
          que,        \* the queued requests, oldest first
          mutex,      \* the owner of que->mutex: 0 for main, or NULL
          wpc,        \* wpc[w]: where worker w is in do_work
          req,        \* req[w]: w's local variable
          log_mutex,  \* the owner of log_mutex, or NULL
          tm,         \* whose time the static buffer of localtime holds
          log,        \* task_log.txt: <<whose line, whose time>>
          args, reqs, \* the arguments and requests allocated and not freed
          done,       \* history: done[r]: how often request r was run
          spurious,
          exited      \* the process ended, because a call of main failed

vars == <<main, count, que, mutex, wpc, req, log_mutex, tm, log, args, reqs,
          done, spurious, exited>>
queueVars == <<que, mutex>>
taskVars  == <<log_mutex, tm, log, args, reqs, done>>

Workers  == 1..num_threads
Requests == 1..num_requests

MainLabels == {"create", "request", "lock", "link", "unlock", "join"}
WorkerLabels == {"unborn", "lock", "check", "waiting", "woken", "unlock", "run",
                 "log_lock", "log_time", "log_write", "log_unlock", "free"}

Init ==
    /\ main = "create"
    /\ count = 1
    /\ que = << >>
    /\ mutex = NULL
    /\ wpc = [w \in Workers |-> "unborn"]
    /\ req = [w \in Workers |-> NULL]
    /\ log_mutex = NULL
    /\ tm = NULL
    /\ log = << >>
    /\ args = {}
    /\ reqs = {}
    /\ done = [r \in Requests |-> 0]
    /\ spurious = 0
    /\ exited = FALSE

----------------------------------------------------------------------------
(* main *)

\* thread_pool_init: one worker after the other; the last one ends the loop.
thread_pool_init ==
    /\ main = "create"
    /\ wpc' = [wpc EXCEPT ![count] = "lock"]
    /\ IF count < num_threads THEN count' = count + 1 /\ UNCHANGED main
                              ELSE count' = 1 /\ main' = "request"
    /\ UNCHANGED <<queueVars, req, taskVars, spurious>>

\* create_request: a request and its argument.
create_request ==
    /\ main = "request"
    /\ count <= num_requests
    /\ reqs' = reqs \cup {count}
    /\ args' = args \cup {count}
    /\ main' = "lock"
    /\ UNCHANGED <<count, queueVars, wpc, req, log_mutex, tm, log, done, spurious>>

EnqueueLock ==
    /\ main = "lock"
    /\ mutex = NULL
    /\ mutex' = 0
    /\ main' = "link"
    /\ UNCHANGED <<count, que, wpc, req, taskVars, spurious>>

\* Mutant: pthread_cond_signal is missing.
EnqueueLinkSilent ==
    /\ main = "link"
    /\ que' = Append(que, count)
    /\ UNCHANGED wpc
    /\ main' = "unlock"
    /\ UNCHANGED <<count, mutex, req, taskVars, spurious>>

\* Link the request and wake one sleeping worker.
EnqueueLink ==
    /\ main = "link"
    /\ que' = Append(que, count)
    /\ \/ /\ \A w \in Workers : wpc[w] # "waiting"
          /\ UNCHANGED wpc
       \/ \E w \in Workers : wpc[w] = "waiting" /\ wpc' = [wpc EXCEPT ![w] = "woken"]
    /\ main' = "unlock"
    /\ UNCHANGED <<count, mutex, req, taskVars, spurious>>

\* The unlock, the nap and the next turn of the loop.
EnqueueUnlock ==
    /\ main = "unlock"
    /\ mutex' = NULL
    /\ count' = count + 1
    /\ main' = "request"
    /\ UNCHANGED <<que, wpc, req, taskVars, spurious>>

queue_enqueue == EnqueueLock \/ EnqueueLink \/ EnqueueUnlock

\* After the last request: queue_close, which changes nothing that is read.
queue_close ==
    /\ main = "request" /\ count > num_requests
    /\ main' = "join"
    /\ count' = 1
    /\ UNCHANGED <<queueVars, wpc, req, taskVars, spurious>>

----------------------------------------------------------------------------
(* The workers: queue_dequeue *)

DequeueLock(w) ==
    /\ wpc[w] \in {"lock", "woken"}
    /\ mutex = NULL
    /\ mutex' = w
    /\ wpc' = [wpc EXCEPT ![w] = "check"]
    /\ UNCHANGED <<main, count, que, req, taskVars, spurious>>

\* The queue is empty: sleep, releasing the mutex.
DequeueWait(w) ==
    /\ wpc[w] = "check"
    /\ que = << >>
    /\ mutex' = NULL
    /\ wpc' = [wpc EXCEPT ![w] = "waiting"]
    /\ UNCHANGED <<main, count, que, req, taskVars, spurious>>

\* pthread_cond_wait may return although nobody signalled.
SpuriousWakeup(w) ==
    /\ spurious < MaxSpurious
    /\ wpc[w] = "waiting"
    /\ wpc' = [wpc EXCEPT ![w] = "woken"]
    /\ spurious' = spurious + 1
    /\ UNCHANGED <<main, count, queueVars, req, taskVars>>

DequeueUnlink(w) ==
    /\ wpc[w] = "check"
    /\ que # << >>
    /\ req' = [req EXCEPT ![w] = Head(que)]
    /\ que' = Tail(que)
    /\ wpc' = [wpc EXCEPT ![w] = "unlock"]
    /\ UNCHANGED <<main, count, mutex, taskVars, spurious>>

DequeueUnlock(w) ==
    /\ wpc[w] = "unlock"
    /\ mutex' = NULL
    /\ wpc' = [wpc EXCEPT ![w] = "run"]
    /\ UNCHANGED <<main, count, que, req, taskVars, spurious>>

queue_dequeue(w) ==
    DequeueLock(w) \/ DequeueWait(w) \/ SpuriousWakeup(w)
    \/ DequeueUnlink(w) \/ DequeueUnlock(w)

----------------------------------------------------------------------------
(* The workers: the task.  write_log, compute_sum and delay_task all end in *)
(* log_message and free(arg).                                               *)

RunTask(w) ==
    /\ wpc[w] = "run"
    /\ done' = [done EXCEPT ![req[w]] = @ + 1]
    /\ wpc' = [wpc EXCEPT ![w] = "log_lock"]
    /\ UNCHANGED <<main, count, queueVars, req, log_mutex, tm, log, args, reqs,
                   spurious>>

\* Mutant: log_message takes no lock.
LogNoLock(w) ==
    /\ wpc[w] = "log_lock"
    /\ log_mutex' = w
    /\ wpc' = [wpc EXCEPT ![w] = "log_time"]
    /\ UNCHANGED <<main, count, queueVars, req, tm, log, args, reqs, done, spurious>>

LogLock(w) ==
    /\ wpc[w] = "log_lock"
    /\ log_mutex = NULL
    /\ log_mutex' = w
    /\ wpc' = [wpc EXCEPT ![w] = "log_time"]
    /\ UNCHANGED <<main, count, queueVars, req, tm, log, args, reqs, done, spurious>>

\* The file cannot be opened: no line.
LogNoFile(w) ==
    /\ wpc[w] = "log_time"
    /\ wpc' = [wpc EXCEPT ![w] = "log_unlock"]
    /\ UNCHANGED <<main, count, queueVars, req, taskVars, spurious>>

\* localtime fills a buffer that all threads share ...
LogTime(w) ==
    /\ wpc[w] = "log_time"
    /\ tm' = w
    /\ wpc' = [wpc EXCEPT ![w] = "log_write"]
    /\ UNCHANGED <<main, count, queueVars, req, log_mutex, log, args, reqs, done,
                   spurious>>

\* ... and strftime reads it; the line is written when the file is closed.
LogWrite(w) ==
    /\ wpc[w] = "log_write"
    /\ log' = Append(log, <<w, tm>>)
    /\ wpc' = [wpc EXCEPT ![w] = "log_unlock"]
    /\ UNCHANGED <<main, count, queueVars, req, log_mutex, tm, args, reqs, done,
                   spurious>>

\* The unlock of log_message and the free(arg) of the task.
LogUnlock(w) ==
    /\ wpc[w] = "log_unlock"
    /\ log_mutex' = NULL
    /\ args' = args \ {req[w]}
    /\ wpc' = [wpc EXCEPT ![w] = "free"]
    /\ UNCHANGED <<main, count, queueVars, req, tm, log, reqs, done, spurious>>

log_message(w) ==
    LogLock(w) \/ LogNoFile(w) \/ LogTime(w) \/ LogWrite(w) \/ LogUnlock(w)

\* Mutant: do_work does not free the request.
FreeRequestNot(w) ==
    /\ wpc[w] = "free"
    /\ req' = [req EXCEPT ![w] = NULL]
    /\ wpc' = [wpc EXCEPT ![w] = "lock"]
    /\ UNCHANGED <<main, count, queueVars, taskVars, spurious>>

\* free(req) and the next turn of the loop: queue_dequeue never returns NULL.
FreeRequest(w) ==
    /\ wpc[w] = "free"
    /\ reqs' = reqs \ {req[w]}
    /\ req' = [req EXCEPT ![w] = NULL]
    /\ wpc' = [wpc EXCEPT ![w] = "lock"]
    /\ UNCHANGED <<main, count, queueVars, log_mutex, tm, log, args, done, spurious>>

do_work(w) == queue_dequeue(w) \/ RunTask(w) \/ log_message(w) \/ FreeRequest(w)

----------------------------------------------------------------------------
\* main is in thread_pool_destroy: pthread_join waits for a worker that has
\* left do_work.  No step takes a worker out of it, so main has no step here.
MainStep == thread_pool_init \/ create_request \/ queue_enqueue \/ queue_close

\* thread_pool_init has no memory for the pool or cannot start the next worker,
\* or queue_enqueue has none for the node: exit, with all threads where they are.
ExitFailure ==
    /\ ~exited
    /\ main \in {"create", "lock"}
    /\ exited' = TRUE
    /\ UNCHANGED <<main, count, queueVars, wpc, req, taskVars, spurious>>

\* A thread takes a step only while there is a process.
Running == ~exited /\ UNCHANGED exited

Next == \/ Running /\ (MainStep \/ \E w \in Workers : do_work(w))
        \/ ExitFailure

\* Every thread that can run does so eventually.  Between two sleeps a worker
\* takes the mutex at most twice per request or spurious wake-up, so weak
\* fairness is enough for the mutexes.
Spec == Init /\ [][Next]_vars
             /\ WF_vars(Running /\ MainStep)
             /\ \A w \in Workers : WF_vars(Running /\ do_work(w))

----------------------------------------------------------------------------
(* Properties *)

TypeOK ==
    /\ main \in MainLabels
    /\ count \in 1..(num_requests + num_threads)
    /\ que \in Seq(Requests)
    /\ mutex \in Workers \cup {0, NULL}
    /\ wpc \in [Workers -> WorkerLabels]
    /\ req \in [Workers -> Requests \cup {NULL}]
    /\ log_mutex \in Workers \cup {NULL}
    /\ tm \in Workers \cup {NULL}
    /\ log \in Seq(Workers \X (Workers \cup {NULL}))
    /\ args \subseteq reqs \cup Requests /\ reqs \subseteq Requests
    /\ done \in [Requests -> 0..1]
    /\ spurious \in 0..MaxSpurious
    /\ exited \in BOOLEAN

\* The requests a worker has in its hands.
InHand == {req[w] : w \in {v \in Workers : req[v] # NULL}}
Queued == {que[j] : j \in 1..Len(que)}

\* Each request is in one place: in main's hands, queued, in the hands of one
\* worker, or gone; it is allocated until that worker has run it, its argument
\* as long as the task may use it, and both are freed once.
OneOwner ==
    /\ \A v, w \in Workers : req[v] # NULL /\ req[v] = req[w] => v = w
    /\ Queued \cap InHand = {}
    /\ reqs = Queued \cup InHand \cup (IF main \in {"lock", "link"} THEN {count} ELSE {})
    /\ args = reqs \ {req[w] : w \in {v \in Workers : wpc[v] = "free"}}

\* A line of the log carries the time its own task asked for, although
\* localtime has one buffer for all threads.
LogTimesOwn == \A j \in 1..Len(log) : log[j][1] = log[j][2]

\* Unless the program has to give up, every request is run and freed in the end:
\* no wake-up is lost, whichever of the workers queue_enqueue's one signal or a
\* spurious wake-up reaches, and no worker keeps a mutex.
AllRequestsRun ==
    <>(exited \/ (/\ main = "join" /\ reqs = {} /\ args = {}
                  /\ \A r \in Requests : done[r] = 1))

\* M9/thread_pool.h:34 of thread_pool_destroy: "Performs resource clean up and
\* cancel all worker threads."  The code does not keep this: do_work ends on a
\* NULL that queue_dequeue never returns, and the join waits.  See the
\* disagreements in the README.
DestroyReturns == main = "join" ~> main # "join"

\* The mutexes: who is between a lock and its unlock, and nobody else, is the
\* owner; from localtime to strftime the buffer is the owner's.
LocksHeld ==
    /\ mutex = 0 <=> main \in {"link", "unlock"}
    /\ \A w \in Workers : mutex = w <=> wpc[w] \in {"check", "unlock"}
    /\ \A w \in Workers :
          log_mutex = w <=> wpc[w] \in {"log_time", "log_write", "log_unlock"}
    /\ \A w \in Workers : wpc[w] = "log_write" => tm = w

\* A worker has a request exactly between the unlinking and the free.
Idle == {"unborn", "lock", "check", "waiting", "woken"}
HoldersHaveRequest == \A w \in Workers : req[w] = NULL <=> wpc[w] \in Idle

\* main's loops: which workers there are, and how far count runs.
MainLoops ==
    /\ \A w \in Workers : wpc[w] = "unborn" <=> main = "create" /\ w >= count
    /\ main = "create" => count <= num_threads
    /\ main = "request" => count <= num_requests + 1
    /\ main \in {"lock", "link", "unlock"} => count <= num_requests

\* The requests that main has linked into the queue so far.
Enqueued == {r \in Requests : \/ main = "join"
                              \/ main = "unlock" /\ r <= count
                              \/ main \in {"request", "lock", "link"} /\ r < count}

\* A request is queued once, and run once: exactly the requests that were
\* enqueued, have left the queue and are past the task's function are done.
Unstarted == {req[w] : w \in {v \in Workers : wpc[v] \in {"unlock", "run"}}}
EachRunOnce ==
    /\ \A i, j \in 1..Len(que) : que[i] = que[j] => i = j
    /\ Queued \cup InHand \subseteq Enqueued
    /\ \A r \in Requests :
          done[r] = IF r \in Enqueued \ (Queued \cup Unstarted) THEN 1 ELSE 0

\* Requests: one owner each, from malloc to free, and run once.
SharedInv ==
    TypeOK /\ OneOwner /\ LocksHeld /\ HoldersHaveRequest /\ MainLoops /\ EachRunOnce
=============================================================================
