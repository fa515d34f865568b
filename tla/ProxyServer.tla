---------------------------- MODULE ProxyServer ----------------------------
(***************************************************************************)
(* src/proxy_server/main.c: the proxy starts a thread pool, opens the      *)
(* listening socket, accepts clients and puts a request for each into      *)
(* request_queue, until SIGINT asks it to stop.                            *)
(*                                                                         *)
(* The signal handler may run between any two steps of main, and on any    *)
(* thread: on main it interrupts a blocked accept (sa_flags is 0), on a    *)
(* worker it does not, and main may run between its two statements.        *)
(* Closing the listening socket under a blocked accept neither wakes it    *)
(* nor stops it from taking a client (Linux).                              *)
(*                                                                         *)
(* The pool's workers dequeue from queues of their own (worker_thread.c)   *)
(* that nobody but thread_pool_add fills; main never calls it, so here the *)
(* pool is only created and destroyed (ThreadPool shows that destroying it *)
(* ends).  No thread calls queue_dequeue on request_queue.                 *)
(***************************************************************************)
EXTENDS Integers, Sequences, FiniteSets

CONSTANTS Clients,            \* the clients that may connect, each once
          MaxSignals,         \* bound: how often SIGINT is sent
          MaxFailures         \* bound: how often the environment fails a call

ASSUME ProxyAssumption ==
    /\ IsFiniteSet(Clients)
    /\ Clients \cap {"free", "tty", "socket", "listening"} = {}
    /\ MaxSignals \in Nat /\ MaxFailures \in Nat

VARIABLES main,                \* where main is
          server_socket,       \* the static variable; 0 before it is set
          shutdown_requested,
          fd,                  \* fd[n]: what descriptor n refers to
          conn,                \* what socket or accept returned last; in
                               \* the loop, *client_socket
          backlog,             \* the connections accept has not returned yet
          request_queue,       \* the arguments of the queued requests
          fate,                \* fate[c]: what became of client c
          heap,                \* how many ints and requests are allocated
          on_worker,           \* history: a worker has begun the handler
          in_handler,          \* workers between the flag and the close
          signals, failures    \* how many of the bounds are used up

vars == <<main, server_socket, shutdown_requested, fd, conn, backlog,
          request_queue, fate, heap, on_worker, in_handler, signals, failures>>

staticVars == <<server_socket, shutdown_requested, on_worker, in_handler>>
netVars    == <<fd, conn, backlog>>
queueVars  == <<request_queue, fate, heap>>
bounds     == <<signals, failures>>

Labels == {"queue_init", "thread_pool_init", "sigaction", "socket", "assign", "bind",
           "listen", "loop", "accept", "blocked", "accept_failed", "accepted", "enqueue",
           "pool_destroy", "queue_destroy", "close",
           "success", "failure", "killed", "exited"}
Ended == main \in {"success", "failure", "killed", "exited"}

\* The descriptor table, with room for every client.
Fds == 0..(3 + Cardinality(Clients))
Free == "free"
Lowest(table) == CHOOSE n \in Fds : /\ table[n] = Free
                                    /\ \A k \in Fds : table[k] = Free => n <= k

\* close(n) of a descriptor that is not open changes nothing.
Close(n) == [fd EXCEPT ![n] = Free]

\* main goes from `from` to `to`.
Goto(from, to) == main = from /\ main' = to

\* A call fails because of the environment, not of main.
EnvironmentFails == failures < MaxFailures /\ failures' = failures + 1

Init ==
    /\ main = "queue_init"
    /\ server_socket = 0
    /\ shutdown_requested = FALSE
    /\ on_worker = FALSE
    /\ in_handler = 0
    /\ fd = [n \in Fds |-> IF n <= 2 THEN "tty" ELSE Free]
    /\ conn = -1
    /\ backlog = << >>
    /\ request_queue = << >>
    /\ fate = [c \in Clients |-> "away"]
    /\ heap = [ints |-> 0, requests |-> 0]
    /\ signals = 0
    /\ failures = 0

----------------------------------------------------------------------------
(* Start-up *)

InitQueueAndPool ==
    /\ Goto("queue_init", "thread_pool_init") \/ Goto("thread_pool_init", "sigaction")
    /\ UNCHANGED <<staticVars, netVars, queueVars, bounds>>

InstallHandler ==
    /\ Goto("sigaction", "socket")
    /\ UNCHANGED <<staticVars, netVars, queueVars, bounds>>

\* socket opens the lowest free descriptor; the handler may still run before
\* its number is in server_socket.
OpenSocket ==
    /\ Goto("socket", "assign")
    /\ conn' = Lowest(fd)
    /\ fd' = [fd EXCEPT ![Lowest(fd)] = "socket"]
    /\ UNCHANGED <<staticVars, queueVars, bounds, backlog>>

AssignSocket ==
    /\ Goto("assign", "bind")
    /\ server_socket' = conn
    /\ UNCHANGED <<netVars, queueVars, bounds, shutdown_requested, on_worker,
                   in_handler>>

\* setsockopt (whose result is ignored) and bind.
Bind ==
    /\ fd[server_socket] = "socket"
    /\ Goto("bind", "listen")
    /\ UNCHANGED <<staticVars, netVars, queueVars, bounds>>

Listen ==
    /\ fd[server_socket] = "socket"
    /\ Goto("listen", "loop")
    /\ fd' = [fd EXCEPT ![server_socket] = "listening"]
    /\ UNCHANGED <<staticVars, queueVars, bounds, conn, backlog>>

\* bind or listen on a descriptor the handler has closed.
BindOrListenOnClosed ==
    /\ fd[server_socket] # "socket"
    /\ Goto("bind", "failure") \/ Goto("listen", "failure")
    /\ fd' = Close(server_socket)
    /\ UNCHANGED <<staticVars, queueVars, bounds, conn, backlog>>

\* A malloc or pthread_create of the start-up, socket, bind or listen fails.
StartupFails ==
    /\ EnvironmentFails
    /\ main \in {"queue_init", "thread_pool_init", "socket", "bind", "listen"}
    /\ main' = "failure"
    /\ fd' = IF main \in {"bind", "listen"} THEN Close(server_socket) ELSE fd
    /\ UNCHANGED <<staticVars, queueVars, conn, backlog, signals>>

----------------------------------------------------------------------------
(* The accept loop *)

\* The condition of the while loop, and the malloc of client_socket.
LoopTest ==
    /\ \/ ~shutdown_requested /\ Goto("loop", "accept")
                              /\ heap' = [ints |-> heap.ints + 1, requests |-> heap.requests]
       \/ shutdown_requested /\ Goto("loop", "pool_destroy") /\ UNCHANGED heap
    /\ UNCHANGED <<staticVars, netVars, bounds, request_queue, fate>>

\* The malloc of client_socket fails: continue.
LoopNoMemory ==
    /\ EnvironmentFails
    /\ ~shutdown_requested
    /\ Goto("loop", "loop")
    /\ UNCHANGED <<staticVars, netVars, queueVars, signals>>

\* accept looks the descriptor up: it fails at once, or may block.
AcceptEnter ==
    /\ IF fd[server_socket] = "listening"
       THEN Goto("accept", "blocked") /\ UNCHANGED conn
       ELSE Goto("accept", "accept_failed") /\ conn' = -1
    /\ UNCHANGED <<staticVars, queueVars, bounds, fd, backlog>>

\* accept returns the oldest connection under the lowest free descriptor.
AcceptReturn ==
    /\ backlog # << >>
    /\ Goto("blocked", "accepted")
    /\ conn' = Lowest(fd)
    /\ fd' = [fd EXCEPT ![Lowest(fd)] = Head(backlog)]
    /\ fate' = [fate EXCEPT ![Head(backlog)] = "accepted"]
    /\ backlog' = Tail(backlog)
    /\ UNCHANGED <<staticVars, bounds, request_queue, heap>>

\* accept fails for a reason of the network or of the system.
AcceptError ==
    /\ EnvironmentFails
    /\ Goto("blocked", "accept_failed")
    /\ conn' = -1
    /\ UNCHANGED <<staticVars, queueVars, fd, backlog, signals>>

\* Mutant: the failed accept leaves client_socket allocated.
AcceptFailedLeaks ==
    /\ Goto("accept_failed", IF shutdown_requested THEN "pool_destroy" ELSE "loop")
    /\ UNCHANGED <<staticVars, netVars, queueVars, bounds>>

\* Mutant: a failed accept is called again without a look at the flag.
AcceptFailedRetries ==
    /\ Goto("accept_failed", "accept")
    /\ UNCHANGED <<staticVars, netVars, queueVars, bounds>>

\* The result is -1: free client_socket, then break or continue.
AcceptFailed ==
    /\ Goto("accept_failed", IF shutdown_requested THEN "pool_destroy" ELSE "loop")
    /\ heap' = [ints |-> heap.ints - 1, requests |-> heap.requests]
    /\ UNCHANGED <<staticVars, netVars, bounds, request_queue, fate>>

RequestAlloc ==
    /\ Goto("accepted", "enqueue")
    /\ heap' = [ints |-> heap.ints, requests |-> heap.requests + 1]
    /\ UNCHANGED <<staticVars, netVars, bounds, request_queue, fate>>

\* The malloc of the request fails: free client_socket and continue.  The
\* connection stays open and nobody knows its descriptor any more.
RequestNoMemory ==
    /\ EnvironmentFails
    /\ Goto("accepted", "loop")
    /\ heap' = [ints |-> heap.ints - 1, requests |-> heap.requests]
    /\ fate' = [c \in Clients |-> IF fate[c] = "accepted" THEN "dropped" ELSE fate[c]]
    /\ UNCHANGED <<staticVars, netVars, request_queue, signals>>

\* Mutant: an iteration that meets shutdown_requested frees what it holds and
\* goes back to the loop's test.
EnqueueUnlessShutdown ==
    /\ Goto("enqueue", "loop")
    /\ IF shutdown_requested
       THEN /\ heap' = [ints |-> heap.ints - 1, requests |-> heap.requests - 1]
            /\ UNCHANGED <<request_queue, fate>>
       ELSE /\ request_queue' = Append(request_queue, conn)
            /\ fate' = [c \in Clients |-> IF fate[c] = "accepted" THEN "queued"
                                          ELSE fate[c]]
            /\ UNCHANGED heap
    /\ UNCHANGED <<staticVars, netVars, bounds>>

\* Mutant: every request points to the same variable of main.
EnqueueSharedVariable ==
    /\ Goto("enqueue", "loop")
    /\ request_queue' = [j \in 1..(Len(request_queue) + 1) |-> conn]
    /\ fate' = [c \in Clients |-> IF fate[c] = "accepted" THEN "queued" ELSE fate[c]]
    /\ UNCHANGED <<staticVars, netVars, bounds, heap>>

\* queue_enqueue on request_queue, which nobody closes.
Enqueue ==
    /\ Goto("enqueue", "loop")
    /\ request_queue' = Append(request_queue, conn)
    /\ fate' = [c \in Clients |-> IF fate[c] = "accepted" THEN "queued" ELSE fate[c]]
    /\ UNCHANGED <<staticVars, netVars, bounds, heap>>

\* The malloc of queue_enqueue fails: exit(EXIT_FAILURE), with the connection, the
\* int and the request still in main's hands.
EnqueueNoMemory ==
    /\ EnvironmentFails
    /\ Goto("enqueue", "exited")
    /\ UNCHANGED <<staticVars, netVars, queueVars, signals>>

----------------------------------------------------------------------------
(* The end *)

\* thread_pool_destroy joins every worker, also one that is in the handler.
PoolDestroy ==
    /\ in_handler = 0
    /\ Goto("pool_destroy", "queue_destroy")
    /\ UNCHANGED <<staticVars, netVars, queueVars, bounds>>

\* queue_destroy frees the requests, but not the ints they point to.
QueueDestroy ==
    /\ Goto("queue_destroy", "close")
    /\ heap' = [ints |-> heap.ints, requests |-> heap.requests - Len(request_queue)]
    /\ request_queue' = << >>
    /\ fate' = [c \in Clients |-> IF fate[c] = "queued" THEN "discarded" ELSE fate[c]]
    /\ UNCHANGED <<staticVars, netVars, bounds>>

CloseServerSocket ==
    /\ Goto("close", "success")
    /\ fd' = Close(server_socket)
    /\ UNCHANGED <<staticVars, queueVars, bounds, conn, backlog>>

MainStep ==
    \/ InitQueueAndPool \/ InstallHandler \/ OpenSocket \/ AssignSocket \/ Bind \/ Listen
    \/ BindOrListenOnClosed
    \/ LoopTest \/ AcceptEnter \/ AcceptReturn \/ AcceptFailed
    \/ RequestAlloc \/ Enqueue
    \/ PoolDestroy \/ QueueDestroy \/ CloseServerSocket

----------------------------------------------------------------------------
(* SIGINT *)

SendSignal == ~Ended /\ signals < MaxSignals /\ signals' = signals + 1

\* Before sigaction the default action ends the process.
SignalKills ==
    /\ SendSignal
    /\ main \in {"queue_init", "thread_pool_init", "sigaction"}
    /\ main' = "killed"
    /\ UNCHANGED <<staticVars, netVars, queueVars, failures>>

HandlerInstalled == main \notin {"queue_init", "thread_pool_init", "sigaction"}

\* Mutant: the handler sets the flag only.
sigint_handler_flag_only ==
    /\ shutdown_requested' = TRUE
    /\ UNCHANGED <<queueVars, server_socket, fd, backlog, failures>>

\* The handler on main, which it interrupts between two steps.
sigint_handler ==
    /\ shutdown_requested' = TRUE
    /\ fd' = Close(server_socket)
    /\ UNCHANGED <<queueVars, server_socket, backlog, failures>>

\* main runs the handler; a blocked accept returns -1 with EINTR.
SignalOnMain ==
    /\ SendSignal
    /\ HandlerInstalled
    /\ sigint_handler
    /\ IF main = "blocked" THEN main' = "accept_failed" /\ conn' = -1
                           ELSE UNCHANGED <<main, conn>>
    /\ UNCHANGED <<on_worker, in_handler>>

\* A worker enters the handler and sets the flag; main is not interrupted.
SignalOnWorker ==
    /\ SendSignal
    /\ HandlerInstalled
    /\ main \notin {"queue_destroy", "close"}
    /\ shutdown_requested' = TRUE
    /\ on_worker' = TRUE
    /\ in_handler' = in_handler + 1
    /\ UNCHANGED <<main, netVars, queueVars, server_socket, failures>>

\* That worker goes on to close(server_socket), whatever main did in between.
WorkerCloses ==
    /\ ~Ended
    /\ in_handler > 0
    /\ fd' = Close(server_socket)
    /\ in_handler' = in_handler - 1
    /\ UNCHANGED <<main, conn, backlog, queueVars, bounds, server_socket,
                   shutdown_requested, on_worker>>

----------------------------------------------------------------------------
\* A client connects to the listening socket.  A socket closed under a blocked
\* accept listens until that accept returns.
Connect(c) ==
    /\ fate[c] = "away"
    /\ main = "blocked" \/ \E n \in Fds : fd[n] = "listening"
    /\ ~Ended
    /\ fate' = [fate EXCEPT ![c] = "connected"]
    /\ backlog' = Append(backlog, c)
    /\ UNCHANGED <<staticVars, bounds, main, fd, conn, request_queue, heap>>

Environment ==
    \/ StartupFails \/ LoopNoMemory \/ AcceptError \/ RequestNoMemory
    \/ EnqueueNoMemory
    \/ SignalKills \/ SignalOnMain \/ SignalOnWorker
    \/ \E c \in Clients : Connect(c)

Next == MainStep \/ WorkerCloses \/ Environment

\* main and a worker in the handler keep running; nobody has to connect, to send
\* SIGINT or to fail.
Spec == Init /\ [][Next]_vars /\ WF_vars(MainStep) /\ WF_vars(WorkerCloses)

----------------------------------------------------------------------------
(* Properties *)

TypeOK ==
    /\ main \in Labels
    /\ server_socket \in Fds
    /\ shutdown_requested \in BOOLEAN /\ on_worker \in BOOLEAN
    /\ in_handler \in Nat
    /\ fd \in [Fds -> Clients \cup {Free, "tty", "socket", "listening"}]
    /\ conn \in Fds \cup {-1}
    /\ backlog \in Seq(Clients)
    /\ request_queue \in Seq(Fds)
    /\ fate \in [Clients -> {"away", "connected", "accepted", "queued", "dropped",
                             "discarded"}]
    /\ heap \in [ints : Nat, requests : Nat]
    /\ signals \in 0..MaxSignals
    /\ failures \in 0..MaxFailures

\* Unless a worker has run the handler, every queued request names a descriptor
\* that is open and belongs to a client that was queued, and no two name the
\* same one: the close(server_socket) of the handler, first or repeated, never
\* hits a client's connection.  (Under an accept that is not interrupted it may:
\* the next client gets the number just closed.)
QueueHoldsOpenClients ==
    ~on_worker =>
        /\ \A j \in 1..Len(request_queue) :
              \E c \in Clients : /\ fd[request_queue[j]] = c
                                 /\ fate[c] = "queued"
        /\ \A j, k \in 1..Len(request_queue) :
              request_queue[j] = request_queue[k] => j = k

\* The ints and the requests allocated are those of the queue and of the
\* iteration in progress, that of a failing queue_enqueue included: no error path
\* of the loop leaks one or frees one twice.  queue_destroy then leaves behind one int for each request it throws away.
LoopMemory ==
    LET inHand == main \in {"accept", "blocked", "accept_failed", "accepted", "enqueue",
                             "exited"}
        discarded == Cardinality({c \in Clients : fate[c] = "discarded"})
    IN    /\ heap.ints = Len(request_queue) + discarded + (IF inHand THEN 1 ELSE 0)
          /\ heap.requests = Len(request_queue) + (IF main \in {"enqueue", "exited"} THEN 1 ELSE 0)

\* An open connection is never forgotten: a queued request names it, or main
\* holds it, also when queue_enqueue gives up; the exceptions are a malloc that
\* failed after accept, one client for each failure, and the queue_destroy at the
\* very end.
NoConnectionForgotten ==
    /\ \A n \in Fds : fd[n] \in Clients =>
          \/ \E j \in 1..Len(request_queue) : request_queue[j] = n
          \/ main \in {"accepted", "enqueue", "exited"} /\ conn = n
          \/ fate[fd[n]] = "dropped"
          \/ fate[fd[n]] = "discarded" /\ main \in {"close", "success"}
    /\ Cardinality({c \in Clients : fate[c] = "dropped"}) <= failures

\* Once SIGINT was handled, as long as no worker ran the handler, no further client
\* is accepted.
NoAcceptAfterShutdown ==
    [][shutdown_requested /\ ~on_worker =>
          \A c \in Clients : fate'[c] = "accepted" => fate[c] = "accepted"]_vars

\* If no worker ever runs the handler, SIGINT ends the server wherever it strikes:
\* between the test of shutdown_requested and accept, during accept, during
\* start-up or twice.  Whichever thread runs it, one client in the backlog is
\* enough: accept returns it and the loop then sees the flag.
ShutdownTerminates ==
    /\ []~on_worker => (shutdown_requested ~> Ended)
    /\ (shutdown_requested /\ backlog # << >>) ~> Ended

\* main.c:29, "SIGINT received. Server shutting down gracefully...": once the
\* handler has run, on whatever thread, the server ends.
ShutdownCompletes == shutdown_requested ~> Ended

\* The descriptor table: who may be where.  There is one server socket, a client
\* has one descriptor, and unless a worker has run the handler server_socket names
\* no client, a blocked accept has a listening socket, and no accept is entered
\* with one once shutdown_requested is set.
InHand == main \in {"accepted", "enqueue", "exited"}
DescriptorsKept ==
    /\ \A n \in Fds : fd[n] = "tty" => n <= 2
    /\ \A n, k \in Fds : fd[n] \in {"socket", "listening"} /\ fd[k] \in {"socket", "listening"}
                         => n = k
    /\ \A n, k \in Fds : fd[n] \in Clients /\ fd[n] = fd[k] => n = k
    /\ main \in {"queue_init", "thread_pool_init", "sigaction", "socket"} =>
          \A n \in Fds : fd[n] \in {"tty", Free}
    /\ main = "assign" => conn \in Fds /\ fd[conn] \in {"socket", Free}
    /\ InHand => conn \in Fds
    /\ in_handler > 0 => on_worker
    /\ ~on_worker =>
          /\ fd[server_socket] \notin Clients
          /\ main = "blocked" => fd[server_socket] = "listening"
          /\ main \in {"accept", "blocked"} /\ shutdown_requested => fd[server_socket] # "listening"
          /\ InHand => fd[conn] \in Clients /\ fate[fd[conn]] = "accepted"

\* What became of the clients: the waiting ones are in the backlog, one that has
\* an open descriptor was accepted, at most one is in main's hands, and there are
\* as many queued requests as queued clients.
Having(f) == {c \in Clients : fate[c] = f}
FatesKept ==
    /\ \A j, k \in 1..Len(backlog) : backlog[j] = backlog[k] => j = k
    /\ \A j \in 1..Len(backlog) : fate[backlog[j]] = "connected"
    /\ \A n \in Fds : fd[n] \in Clients =>
          \/ fate[fd[n]] = "accepted" /\ conn = n
          \/ fate[fd[n]] = "queued" /\ \E j \in 1..Len(request_queue) : request_queue[j] = n
          \/ fate[fd[n]] \in {"dropped", "discarded"}
    /\ IF InHand THEN \E c \in Clients : Having("accepted") = {c} ELSE Having("accepted") = {}
    /\ Having("discarded") # {} => main \in {"close", "success"}
    /\ Len(request_queue) = Cardinality(Having("queued"))

\* Descriptors: the queued ones are open connections of queued clients.
ServerInv == TypeOK /\ QueueHoldsOpenClients /\ DescriptorsKept /\ FatesKept

\* Neither memory nor a connection is lost on any path of the accept loop.
NothingForgotten == LoopMemory /\ NoConnectionForgotten

\* http_proxy.c:27, "The entry point to handle a client requests on a pthread.":
\* a client whose request was queued does not stay in the queue for good, while
\* the server runs and nobody asks it to stop.
QueuedClientIsTaken ==
    \A c \in Clients : (fate[c] = "queued") ~> (fate[c] # "queued")
=============================================================================
