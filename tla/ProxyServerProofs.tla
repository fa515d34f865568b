------------------------- MODULE ProxyServerProofs -------------------------
(***************************************************************************)
(* Proofs about src/proxy_server/main.c, for any number of clients, of     *)
(* signals and of failing calls.                                           *)
(***************************************************************************)
EXTENDS ProxyServer, FiniteSetTheorems, FunctionTheorems, SequenceTheorems,
        WellFoundedInduction, TLAPS

----------------------------------------------------------------------------
(* Descriptors *)

\* A client is none of the other things a descriptor may refer to.
LEMMA ClientsApart ==
    /\ IsFiniteSet(Clients) /\ Cardinality(Clients) \in Nat
    /\ \A c \in Clients : c \notin {"free", "tty", "socket", "listening"}
    /\ MaxSignals \in Nat /\ MaxFailures \in Nat
<1>1. IsFiniteSet(Clients)
  BY ProxyAssumption DEF ProxyAssumption
<1>2. Cardinality(Clients) \in Nat
  BY <1>1, FS_CardinalityType
<1> QED
  BY <1>1, <1>2, ProxyAssumption DEF ProxyAssumption

LEMMA FdsFacts ==
    /\ \A n \in Fds : n \in Nat
    /\ 0 \in Fds /\ 3 \in Fds
    /\ IsFiniteSet(Fds) /\ Cardinality(Fds) = 4 + Cardinality(Clients)
<1>1. Cardinality(Clients) \in Nat
  BY ClientsApart
<1>2. IsFiniteSet(0..(3 + Cardinality(Clients)))
  BY <1>1, FS_Interval
<1>3. Cardinality(0..(3 + Cardinality(Clients))) = 4 + Cardinality(Clients)
  <2>1. /\ Cardinality(0..(3 + Cardinality(Clients)))
             = IF 0 > 3 + Cardinality(Clients) THEN 0 ELSE 3 + Cardinality(Clients) - 0 + 1
    BY <1>1, FS_Interval
  <2> QED
    BY <1>1, <2>1
<1> QED
  BY <1>1, <1>2, <1>3 DEF Fds

\* socket and accept give the lowest free descriptor, if there is a free one.
LEMMA LowestIsFree ==
    ASSUME \E n \in Fds : fd[n] = Free
    PROVE  Lowest(fd) \in Fds /\ fd[Lowest(fd)] = Free
<1> DEFINE T == {n \in Fds : fd[n] = Free}
<1>1. T \subseteq Nat /\ T # {}
  BY FdsFacts
<1>2. PICK n \in T : \A k \in T : ~(<<k, n>> \in OpToRel(<, Nat))
  BY <1>1, WFMin, NatLessThanWellFounded
<1>3. \A k \in T : ~(k < n)
  <2> SUFFICES ASSUME NEW k \in T, k < n PROVE FALSE
    OBVIOUS
  <2>1. k \in Nat /\ n \in Nat
    BY <1>1
  <2>2. <<k, n>> \in OpToRel(<, Nat)
    BY <2>1 DEF OpToRel
  <2> QED
    BY <1>2, <2>2
<1>4. n \in Fds /\ fd[n] = Free /\ \A k \in Fds : fd[k] = Free => n <= k
  <2>1. n \in Fds /\ fd[n] = Free /\ n \in Nat
    BY <1>1, <1>2
  <2>2. \A k \in Fds : fd[k] = Free => k \in Nat /\ ~(k < n)
    BY <1>1, <1>3
  <2> QED
    BY <2>1, <2>2
<1> QED
  BY <1>4 DEF Lowest

\* The table has room for a client that has no descriptor yet.
LEMMA RoomForClient ==
    ASSUME TypeOK, DescriptorsKept, NEW c \in Clients, \A n \in Fds : fd[n] # c
    PROVE  \E n \in Fds : fd[n] = Free
<1> SUFFICES ASSUME \A n \in Fds : fd[n] # Free PROVE FALSE
  OBVIOUS
<1> DEFINE T == {n \in Fds : fd[n] = "tty"}
           S == {n \in Fds : fd[n] \in {"socket", "listening"}}
           B == {n \in Fds : fd[n] \in Clients}
           N == Cardinality(Clients)
<1>f. N \in Nat /\ IsFiniteSet(Clients) /\ IsFiniteSet(Fds) /\ Cardinality(Fds) = 4 + N
  BY ClientsApart, FdsFacts
<1>1. IsFiniteSet(T) /\ Cardinality(T) <= 3 /\ Cardinality(T) \in Nat
  <2>1. T \in SUBSET Nat /\ \A n \in T : n <= 2
    BY FdsFacts DEF DescriptorsKept
  <2> HIDE DEF T
  <2>2. IsFiniteSet(T) /\ Cardinality(T) <= 2 + 1
    BY <2>1, FS_BoundedSetOfNaturals
  <2> QED
    BY <2>2, FS_CardinalityType
<1>2. IsFiniteSet(S) /\ Cardinality(S) <= 1 /\ Cardinality(S) \in Nat
  <2>1. CASE S = {}
    BY <2>1, FS_EmptySet
  <2>2. CASE S # {}
    <3>1. PICK n \in S : TRUE
      BY <2>2
    <3>2. S = {n}
      BY <3>1 DEF DescriptorsKept
    <3> QED
      <4>1. IsFiniteSet({n}) /\ Cardinality({n}) = 1
        BY FS_Singleton
      <4> HIDE DEF S
      <4> QED
        BY <3>2, <4>1
  <2> QED
    BY <2>1, <2>2
<1>3. IsFiniteSet(B) /\ Cardinality(B) <= N - 1 /\ Cardinality(B) \in Nat
  <2> DEFINE f == [n \in B |-> fd[n]]
  <2>1. f \in Injection(B, Clients \ {c})
    <3>1. f \in [B -> Clients \ {c}]
      OBVIOUS
    <3>2. \A n, k \in B : f[n] = f[k] => n = k
      BY DEF DescriptorsKept
    <3> QED
      BY <3>1, <3>2 DEF Injection, IsInjective
  <2>2. IsFiniteSet(Clients \ {c}) /\ Cardinality(Clients \ {c}) = N - 1
    BY <1>f, FS_RemoveElement
  <2> HIDE DEF f, B
  <2>3. IsFiniteSet(B) /\ Cardinality(B) <= Cardinality(Clients \ {c})
    BY <2>1, <2>2, FS_Injection
  <2> QED
    BY <2>2, <2>3, FS_CardinalityType
<1>4. Fds = (T \cup S) \cup B
  BY DEF TypeOK, Free
<1> HIDE DEF T, S, B, N
<1>5. IsFiniteSet(T \cup S) /\ Cardinality(T \cup S) <= 4 /\ Cardinality(T \cup S) \in Nat
  <2>1. /\ IsFiniteSet(T \cup S)
        /\ Cardinality(T \cup S) = Cardinality(T) + Cardinality(S) - Cardinality(T \cap S)
    BY <1>1, <1>2, FS_Union
  <2>2. Cardinality(T \cap S) \in Nat
    BY <1>1, FS_Intersection, FS_CardinalityType
  <2>3. Cardinality(T \cup S) \in Nat
    BY <2>1, FS_CardinalityType
  <2> QED
    BY <1>1, <1>2, <2>1, <2>2, <2>3
<1>6. Cardinality((T \cup S) \cup B) <= 4 + (N - 1)
  <2>1. Cardinality((T \cup S) \cup B)
          = Cardinality(T \cup S) + Cardinality(B) - Cardinality((T \cup S) \cap B)
    BY <1>3, <1>5, FS_Union
  <2>2. Cardinality((T \cup S) \cap B) \in Nat
    BY <1>5, FS_Intersection, FS_CardinalityType
  <2> QED
    BY <1>3, <1>5, <1>f, <2>1, <2>2
<1> QED
  BY <1>4, <1>6, <1>f

\* The descriptor accept returns: free until then, whoever the client is.
LEMMA AcceptFacts ==
    ASSUME TypeOK, DescriptorsKept, FatesKept, AcceptReturn
    PROVE  /\ Head(backlog) \in Clients /\ fate[Head(backlog)] = "connected"
           /\ \A n \in Fds : fd[n] # Head(backlog)
           /\ Lowest(fd) \in Fds /\ fd[Lowest(fd)] = Free
           /\ Tail(backlog) \in Seq(Clients)
           /\ \A j \in 1..Len(Tail(backlog)) : fate[Tail(backlog)[j]] = "connected"
                                               /\ Tail(backlog)[j] # Head(backlog)
           /\ \A j, k \in 1..Len(Tail(backlog)) :
                 Tail(backlog)[j] = Tail(backlog)[k] => j = k
<1>1. backlog \in Seq(Clients) /\ backlog # << >>
  BY DEF TypeOK, AcceptReturn
<1>2. /\ Len(backlog) \in Nat \ {0} /\ Head(backlog) = backlog[1]
      /\ Head(backlog) \in Clients /\ Tail(backlog) \in Seq(Clients)
      /\ Len(Tail(backlog)) = Len(backlog) - 1
  BY <1>1, HeadTailProperties, EmptySeq
<1>3. \A j \in 1..Len(Tail(backlog)) :
         Tail(backlog)[j] = backlog[j + 1] /\ j + 1 \in 1..Len(backlog) /\ j + 1 # 1
  BY <1>1, <1>2
<1>4. 1 \in 1..Len(backlog)
  BY <1>2
<1>5. fate[Head(backlog)] = "connected"
  BY <1>2, <1>4 DEF FatesKept
<1>6. \A n \in Fds : fd[n] # Head(backlog)
  BY <1>2, <1>5 DEF FatesKept
<1>7. Lowest(fd) \in Fds /\ fd[Lowest(fd)] = Free
  BY <1>2, <1>6, RoomForClient, LowestIsFree
<1>8. \A j \in 1..Len(Tail(backlog)) : fate[Tail(backlog)[j]] = "connected"
                                       /\ Tail(backlog)[j] # Head(backlog)
  BY <1>2, <1>3, <1>4 DEF FatesKept
<1>9. \A j, k \in 1..Len(Tail(backlog)) : Tail(backlog)[j] = Tail(backlog)[k] => j = k
  <2> SUFFICES ASSUME NEW j \in 1..Len(Tail(backlog)), NEW k \in 1..Len(Tail(backlog)),
                      Tail(backlog)[j] = Tail(backlog)[k]
               PROVE  j = k
    OBVIOUS
  <2>1. backlog[j + 1] = backlog[k + 1] /\ j + 1 \in 1..Len(backlog) /\ k + 1 \in 1..Len(backlog)
    BY <1>3
  <2>2. j + 1 = k + 1
    BY <2>1 DEF FatesKept
  <2> QED
    BY <2>2
<1> QED
  BY <1>2, <1>5, <1>6, <1>7, <1>8, <1>9

\* Before accept, the descriptor socket returns was free.
LEMMA SocketFacts ==
    ASSUME TypeOK, DescriptorsKept, OpenSocket
    PROVE  Lowest(fd) \in Fds /\ fd[Lowest(fd)] = Free
<1>1. \A n \in Fds : fd[n] \in {"tty", Free}
  BY DEF DescriptorsKept, OpenSocket, Goto
<1>2. fd[3] # "tty"
  BY FdsFacts DEF DescriptorsKept
<1> QED
  BY <1>1, <1>2, FdsFacts, LowestIsFree

\* Closing a descriptor keeps the table's type, whatever it referred to.
LEMMA CloseFacts ==
    ASSUME TypeOK, NEW n \in Fds
    PROVE  /\ Close(n) \in [Fds -> Clients \cup {Free, "tty", "socket", "listening"}]
           /\ Close(n)[n] = Free
           /\ \A k \in Fds : k # n => Close(n)[k] = fd[k]
BY DEF TypeOK, Close

----------------------------------------------------------------------------
(* The steps of the accept loop and of the end leave the rest alone *)

\* Only these steps change the clients' fates, the backlog or the queue.
ClientStep == AcceptReturn \/ RequestNoMemory \/ Enqueue \/ QueueDestroy
              \/ \E c \in Clients : Connect(c)

\* Only these steps open or close descriptors of the server itself.
SocketStep == OpenSocket \/ AssignSocket \/ Listen \/ BindOrListenOnClosed \/ StartupFails
              \/ CloseServerSocket \/ SignalOnMain \/ SignalOnWorker \/ WorkerCloses

\* All others move main along, with its count of allocations and what accept gave.
ControlStep == InitQueueAndPool \/ InstallHandler \/ Bind \/ LoopTest \/ LoopNoMemory
               \/ AcceptEnter \/ AcceptError \/ AcceptFailed \/ RequestAlloc
               \/ EnqueueNoMemory \/ PoolDestroy \/ SignalKills

LEMMA NextSplit == Next => ClientStep \/ SocketStep \/ ControlStep
BY DEF Next, MainStep, Environment, ClientStep, SocketStep, ControlStep

\* A handler run asks main to stop and closes server_socket; on main it does both
\* at once and interrupts accept, on a worker one after the other.
LEMMA HandlerFacts ==
    ASSUME TypeOK, DescriptorsKept, SignalOnMain \/ SignalOnWorker \/ WorkerCloses
    PROVE  /\ fd' = fd \/ fd' = Close(server_socket)
           /\ shutdown_requested' = TRUE \/ UNCHANGED shutdown_requested
           /\ UNCHANGED <<server_socket, backlog, request_queue, fate, heap, failures>>
           /\ UNCHANGED signals \/ (signals < MaxSignals /\ signals' = signals + 1)
           /\ \/ main = "blocked" /\ main' = "accept_failed" /\ conn' = -1
              \/ UNCHANGED <<main, conn>>
           /\ \/ on_worker' = TRUE
              \/ /\ UNCHANGED <<on_worker, in_handler>> /\ main' # "blocked"
                 /\ fd' = Close(server_socket)
           /\ in_handler' \in Nat
<1>0. in_handler \in Nat
  BY DEF TypeOK
<1>1. CASE SignalOnMain
  BY <1>0, <1>1 DEF SignalOnMain, sigint_handler, SendSignal, queueVars
<1>2. CASE SignalOnWorker
  BY <1>0, <1>2 DEF SignalOnWorker, SendSignal, queueVars, netVars
<1>3. CASE WorkerCloses
  <2>1. on_worker = TRUE /\ in_handler' \in Nat
    <3>1. on_worker
      BY <1>3, Zenon DEF WorkerCloses, DescriptorsKept
    <3>2. on_worker \in BOOLEAN
      BY Zenon DEF TypeOK
    <3>3. in_handler' \in Nat
      BY <1>0, <1>3 DEF WorkerCloses
    <3> QED
      BY <3>1, <3>2, <3>3, Zenon
  <2> QED
    BY <1>3, <2>1, Zenon DEF WorkerCloses, queueVars, bounds
<1> QED
  BY <1>1, <1>2, <1>3

\* A control step: which labels it goes between.
LEMMA ControlFacts ==
    ASSUME TypeOK, ControlStep
    PROVE  /\ UNCHANGED <<server_socket, shutdown_requested, fd, backlog, request_queue,
                          fate, on_worker, in_handler>>
           /\ conn' \in {conn, -1}
           /\ failures' \in {failures, failures + 1}
           /\ main' \in Labels \ {"assign", "accepted", "close", "success"}
           /\ main \notin {"assign", "close", "success"}
           /\ main' \in {"queue_init", "thread_pool_init", "sigaction", "socket"} =>
                 main \in {"queue_init", "thread_pool_init", "sigaction"}
           /\ main' = "accept" => ~shutdown_requested
           /\ main' = "blocked" => main = "accept" /\ fd[server_socket] = "listening"
           /\ main' = "enqueue" <=> main = "accepted"
           /\ main' = "exited" <=> main = "enqueue"
           /\ main # "exited"
           /\ main \in {"accepted", "enqueue"} => conn' = conn
<1>1. CASE InitQueueAndPool \/ InstallHandler \/ Bind \/ PoolDestroy \/ SignalKills
  BY <1>1 DEF InitQueueAndPool, InstallHandler, Bind, PoolDestroy, SignalKills, SendSignal, Ended,
              Goto, Labels, TypeOK, staticVars, netVars, queueVars, bounds
<1>2. CASE LoopTest \/ LoopNoMemory \/ RequestAlloc \/ EnqueueNoMemory
  BY <1>2 DEF LoopTest, LoopNoMemory, RequestAlloc, EnqueueNoMemory, EnvironmentFails,
              Goto, Labels, TypeOK, staticVars, netVars, queueVars, bounds
<1>3. CASE AcceptEnter \/ AcceptError \/ AcceptFailed
  BY <1>3 DEF AcceptEnter, AcceptError, AcceptFailed, EnvironmentFails,
              Goto, Labels, TypeOK, staticVars, netVars, queueVars, bounds
<1> QED
  BY <1>1, <1>2, <1>3 DEF ControlStep

----------------------------------------------------------------------------
(* Types *)

LEMMA InitServer == Init => ServerInv /\ NothingForgotten
<1> SUFFICES ASSUME Init PROVE ServerInv /\ NothingForgotten
  OBVIOUS
<1>c. /\ Having("queued") = {} /\ Having("discarded") = {} /\ Having("accepted") = {}
      /\ Having("dropped") = {}
  BY DEF Init, Having
<1>d. \A n \in Fds : fd[n] = IF n <= 2 THEN "tty" ELSE Free
  BY DEF Init
<1>e. Cardinality({}) = 0
  BY FS_EmptySet
<1>1. TypeOK
  <2>1. fd \in [Fds -> Clients \cup {Free, "tty", "socket", "listening"}]
    BY DEF Init
  <2>2. server_socket \in Fds
    BY FdsFacts DEF Init
  <2>3. main \in Labels /\ shutdown_requested \in BOOLEAN /\ on_worker \in BOOLEAN
        /\ in_handler \in Nat
    BY DEF Init, Labels
  <2>4. heap \in [ints : Nat, requests : Nat]
    BY DEF Init
  <2>5. signals \in 0..MaxSignals /\ failures \in 0..MaxFailures
    BY ClientsApart DEF Init
  <2>6. conn \in Fds \cup {-1} /\ backlog \in Seq(Clients) /\ request_queue \in Seq(Fds)
    BY DEF Init
  <2>7. fate \in [Clients -> {"away", "connected", "accepted", "queued", "dropped",
                              "discarded"}]
    BY DEF Init
  <2> QED
    BY <2>1, <2>2, <2>3, <2>4, <2>5, <2>6, <2>7 DEF TypeOK
<1>2. DescriptorsKept
  <2>1. \A n \in Fds : fd[n] \in {"tty", "free"} /\ fd[n] \notin Clients
    BY <1>d, ClientsApart DEF Free
  <2>2. server_socket \in Fds
    BY <1>1 DEF TypeOK
  <2> QED
    BY <1>d, <2>1, <2>2 DEF Init, DescriptorsKept, InHand, Free
<1>3. FatesKept
  <2>1. \A n \in Fds : fd[n] \notin Clients
    BY <1>d, ClientsApart DEF Free
  <2>2. Len(request_queue) = 0 /\ Len(backlog) = 0
    BY DEF Init
  <2>3. Len(request_queue) = Cardinality(Having("queued"))
    BY <1>c, <1>e, <2>2
  <2>4. ~InHand
    BY DEF Init, InHand
  <2> QED
    BY <1>c, <2>1, <2>2, <2>3, <2>4 DEF FatesKept
<1>4. QueueHoldsOpenClients
  BY DEF Init, QueueHoldsOpenClients
<1>5. LoopMemory
  <2>1. Cardinality({c \in Clients : fate[c] = "discarded"}) = 0
    BY <1>c, <1>e DEF Having
  <2> QED
    BY <2>1 DEF Init, LoopMemory
<1>6. NoConnectionForgotten
  <2>1. \A n \in Fds : fd[n] \notin Clients
    BY <1>d, ClientsApart DEF Free
  <2>2. Cardinality({c \in Clients : fate[c] = "dropped"}) = 0
    BY <1>c, <1>e DEF Having
  <2> QED
    BY <2>1, <2>2 DEF Init, NoConnectionForgotten
<1> QED
  BY <1>1, <1>2, <1>3, <1>4, <1>5, <1>6 DEF ServerInv, NothingForgotten

\* The steps on the server's own sockets and the signals.
LEMMA SocketTypes ==
    ASSUME TypeOK, DescriptorsKept, SocketStep
    PROVE  TypeOK'
<1> USE ClientsApart
<1>c. Close(server_socket) \in [Fds -> Clients \cup {Free, "tty", "socket", "listening"}]
  BY CloseFacts DEF TypeOK
<1>1. CASE OpenSocket
  <2>1. Lowest(fd) \in Fds
    BY <1>1, SocketFacts
  <2> QED
    BY <1>1, <2>1 DEF TypeOK, OpenSocket, Goto, Labels, staticVars, queueVars, bounds
<1>2. CASE AssignSocket
  BY <1>2 DEF TypeOK, DescriptorsKept, AssignSocket, Goto, Labels, netVars, queueVars, bounds
<1>3. CASE Listen
  BY <1>3 DEF TypeOK, Listen, Goto, Labels, staticVars, queueVars, bounds
<1>4. CASE BindOrListenOnClosed
  BY <1>4, <1>c DEF TypeOK, BindOrListenOnClosed, Goto, Labels, staticVars, queueVars, bounds
<1>5. CASE StartupFails
  BY <1>5, <1>c DEF TypeOK, StartupFails, EnvironmentFails, Labels, staticVars, queueVars
<1>6. CASE CloseServerSocket
  BY <1>6, <1>c DEF TypeOK, CloseServerSocket, Goto, Labels, staticVars, queueVars, bounds
<1>7. CASE SignalOnMain \/ SignalOnWorker \/ WorkerCloses
  <2>1. /\ fd' \in [Fds -> Clients \cup {Free, "tty", "socket", "listening"}]
        /\ signals' \in 0..MaxSignals
        /\ UNCHANGED <<server_socket, backlog, request_queue, fate, heap, failures>>
    <3>1. /\ fd' = fd \/ fd' = Close(server_socket)
          /\ UNCHANGED <<server_socket, backlog, request_queue, fate, heap, failures>>
          /\ UNCHANGED signals \/ (signals < MaxSignals /\ signals' = signals + 1)
      BY <1>7, HandlerFacts
    <3>2. signals' \in 0..MaxSignals
      BY <3>1 DEF TypeOK
    <3>3. fd \in [Fds -> Clients \cup {Free, "tty", "socket", "listening"}]
      BY Zenon DEF TypeOK
    <3> QED
      BY <1>c, <3>1, <3>2, <3>3
  <2>2. main' \in Labels /\ conn' \in Fds \cup {-1}
    BY <1>7, HandlerFacts DEF TypeOK, Labels
  <2>3. shutdown_requested' \in BOOLEAN /\ on_worker' \in BOOLEAN /\ in_handler' \in Nat
    BY <1>7, HandlerFacts, Zenon DEF TypeOK
  <2> QED
    BY <2>1, <2>2, <2>3 DEF TypeOK
<1> QED
  BY <1>1, <1>2, <1>3, <1>4, <1>5, <1>6, <1>7 DEF SocketStep

\* The steps that take a client along.
LEMMA ClientTypes ==
    ASSUME TypeOK, DescriptorsKept, FatesKept, LoopMemory, ClientStep
    PROVE  TypeOK'
<1> USE ClientsApart
<1>t. /\ heap.ints \in Nat /\ heap.requests \in Nat
      /\ request_queue \in Seq(Fds) /\ Len(request_queue) \in Nat
  BY DEF TypeOK
<1>n. Cardinality({c \in Clients : fate[c] = "discarded"}) \in Nat
  BY FS_Subset, FS_CardinalityType
<1>1. CASE AcceptReturn
  BY <1>1, AcceptFacts DEF TypeOK, AcceptReturn, Goto, Labels, staticVars, bounds
<1>2. CASE RequestNoMemory
  <2>1. heap.ints - 1 \in Nat
    BY <1>2, <1>t, <1>n DEF LoopMemory, RequestNoMemory, Goto
  <2>2. heap' \in [ints : Nat, requests : Nat]
    BY <1>2, <1>t, <2>1 DEF RequestNoMemory
  <2>3. fate' \in [Clients -> {"away", "connected", "accepted", "queued", "dropped",
                               "discarded"}]
    BY <1>2 DEF RequestNoMemory, TypeOK
  <2> QED
    BY <1>2, <2>2, <2>3 DEF TypeOK, RequestNoMemory, EnvironmentFails, Goto, Labels,
                            staticVars, netVars
<1>3. CASE Enqueue
  <2>1. request_queue' \in Seq(Fds)
    BY <1>3, <1>t, AppendProperties DEF Enqueue, Goto, DescriptorsKept, InHand
  <2>2. fate' \in [Clients -> {"away", "connected", "accepted", "queued", "dropped",
                               "discarded"}]
    BY <1>3 DEF Enqueue, TypeOK
  <2> QED
    BY <1>3, <2>1, <2>2 DEF TypeOK, Enqueue, Goto, Labels, staticVars, netVars, bounds
<1>4. CASE QueueDestroy
  <2>1. heap.requests - Len(request_queue) \in Nat
    BY <1>4, <1>t DEF LoopMemory, QueueDestroy, Goto
  <2>2. heap' \in [ints : Nat, requests : Nat]
    BY <1>4, <1>t, <2>1 DEF QueueDestroy
  <2>3. fate' \in [Clients -> {"away", "connected", "accepted", "queued", "dropped",
                               "discarded"}]
    BY <1>4 DEF QueueDestroy, TypeOK
  <2>4. request_queue' \in Seq(Fds)
    BY <1>4 DEF QueueDestroy
  <2> QED
    BY <1>4, <2>2, <2>3, <2>4 DEF TypeOK, QueueDestroy, Goto, Labels, staticVars, netVars,
                                  bounds
<1>5. ASSUME NEW c \in Clients, Connect(c) PROVE TypeOK'
  <2>1. backlog' \in Seq(Clients)
    BY <1>5, AppendProperties DEF TypeOK, Connect
  <2> QED
    BY <1>5, <2>1 DEF TypeOK, Connect, staticVars, bounds
<1> QED
  BY <1>1, <1>2, <1>3, <1>4, <1>5 DEF ClientStep

\* The other steps.
LEMMA ControlTypes ==
    ASSUME TypeOK, LoopMemory, ControlStep
    PROVE  TypeOK'
<1> USE ClientsApart
<1>t. /\ heap \in [ints : Nat, requests : Nat] /\ heap.ints \in Nat /\ heap.requests \in Nat
      /\ Len(request_queue) \in Nat
  BY DEF TypeOK
<1>n. Cardinality({c \in Clients : fate[c] = "discarded"}) \in Nat
  BY FS_Subset, FS_CardinalityType
<1>1. failures' \in 0..MaxFailures /\ signals' \in 0..MaxSignals
  BY DEF ControlStep, InitQueueAndPool, InstallHandler, Bind, LoopTest, LoopNoMemory,
         AcceptEnter, AcceptError, AcceptFailed, RequestAlloc, EnqueueNoMemory, PoolDestroy,
         SignalKills, SendSignal, EnvironmentFails, bounds, TypeOK
<1>2. heap' \in [ints : Nat, requests : Nat]
  <2>1. CASE LoopTest
    BY <2>1, <1>t DEF LoopTest
  <2>2. CASE AcceptFailed
    <3>1. heap.ints - 1 \in Nat
      BY <2>2, <1>t, <1>n DEF LoopMemory, AcceptFailed, Goto
    <3> QED
      BY <2>2, <1>t, <3>1 DEF AcceptFailed
  <2>3. CASE RequestAlloc
    BY <2>3, <1>t DEF RequestAlloc
  <2>4. CASE ~LoopTest /\ ~AcceptFailed /\ ~RequestAlloc
    BY <2>4, <1>t DEF ControlStep, InitQueueAndPool, InstallHandler, Bind, LoopNoMemory,
         AcceptEnter, AcceptError, EnqueueNoMemory, PoolDestroy, SignalKills, queueVars
  <2> QED
    BY <2>1, <2>2, <2>3, <2>4
<1>3. main' \in Labels /\ conn' \in Fds \cup {-1}
  BY ControlFacts DEF TypeOK
<1> QED
  BY <1>1, <1>2, <1>3, ControlFacts DEF TypeOK

----------------------------------------------------------------------------
(* The descriptor table *)

LEMMA ControlDescriptors ==
    ASSUME TypeOK, DescriptorsKept, ControlStep
    PROVE  DescriptorsKept'
<1>1. UNCHANGED <<server_socket, shutdown_requested, fd, on_worker, in_handler, fate>>
  BY ControlFacts
<1>2. /\ main' \in {"queue_init", "thread_pool_init", "sigaction", "socket"} =>
            main \in {"queue_init", "thread_pool_init", "sigaction"}
      /\ main' # "assign"
      /\ InHand' => InHand /\ conn' = conn
  BY ControlFacts DEF InHand
<1>3. /\ main' = "accept" => ~shutdown_requested
      /\ main' = "blocked" => main = "accept" /\ fd[server_socket] = "listening"
  BY ControlFacts
<1>4. ASSUME ~on_worker'
      PROVE  /\ fd'[server_socket'] \notin Clients
             /\ main' = "blocked" => fd'[server_socket'] = "listening"
             /\ main' \in {"accept", "blocked"} /\ shutdown_requested' =>
                   fd'[server_socket'] # "listening"
             /\ InHand' => fd'[conn'] \in Clients /\ fate'[fd'[conn']] = "accepted"
  <2>1. ~on_worker
    BY <1>1, <1>4
  <2> QED
    BY <1>1, <1>2, <1>3, <2>1 DEF DescriptorsKept
<1> QED
  BY <1>1, <1>2, <1>4 DEF DescriptorsKept

LEMMA SocketDescriptors ==
    ASSUME TypeOK, DescriptorsKept, SocketStep
    PROVE  DescriptorsKept'
<1> USE ClientsApart DEF Free
<1>t. server_socket \in Fds /\ fd \in [Fds -> Clients \cup {"free", "tty", "socket", "listening"}]
  BY DEF TypeOK
<1>1. CASE OpenSocket
  <2>1. Lowest(fd) \in Fds /\ fd[Lowest(fd)] = Free
    BY <1>1, SocketFacts
  <2>2. /\ main' = "assign" /\ conn' = Lowest(fd) /\ fd' = [fd EXCEPT ![Lowest(fd)] = "socket"]
        /\ UNCHANGED <<server_socket, on_worker, in_handler>>
    BY <1>1 DEF OpenSocket, Goto, staticVars
  <2>3. \A n \in Fds : fd[n] \in {"tty", "free"} /\ (fd[n] = "tty" => n <= 2)
    BY <1>1 DEF OpenSocket, Goto, DescriptorsKept
  <2> HIDE DEF Free
  <2>4. \A n \in Fds : \/ n = Lowest(fd) /\ fd'[n] = "socket"
                       \/ n # Lowest(fd) /\ fd'[n] = fd[n]
    BY <1>t, <2>1, <2>2
  <2>5. \A n \in Fds : fd'[n] \in {"tty", "free", "socket"} /\ fd'[n] \notin Clients
    BY <2>3, <2>4
  <2>6. ~InHand' /\ server_socket' \in Fds /\ main' \notin {"blocked", "accept"}
    BY <1>t, <2>2 DEF InHand
  <2> QED
    BY <2>1, <2>2, <2>3, <2>4, <2>5, <2>6 DEF DescriptorsKept
<1>2. CASE AssignSocket
  <2>1. main = "assign" /\ main' = "bind" /\ server_socket' = conn
        /\ UNCHANGED <<fd, on_worker, in_handler>>
    BY <1>2 DEF AssignSocket, Goto, netVars
  <2>2. fd[conn] \in {"socket", "free"}
    BY <2>1 DEF DescriptorsKept
  <2> QED
    BY <2>1, <2>2 DEF DescriptorsKept, InHand
<1>3. CASE Listen
  <2>1. /\ main = "listen" /\ main' = "loop" /\ fd[server_socket] = "socket"
        /\ fd' = [fd EXCEPT ![server_socket] = "listening"]
        /\ UNCHANGED <<server_socket, on_worker, in_handler>>
    BY <1>3 DEF Listen, Goto, staticVars
  <2>2. \A n \in Fds : \/ n = server_socket /\ fd'[n] = "listening"
                       \/ n # server_socket /\ fd'[n] = fd[n]
    BY <1>t, <2>1
  <2> QED
    BY <1>t, <2>1, <2>2 DEF DescriptorsKept, InHand
<1>4. ASSUME UNCHANGED server_socket, UNCHANGED fd \/ fd' = Close(server_socket),
             main' \in {"failure", "success"}
      PROVE  DescriptorsKept'
  <2>1. \A n \in Fds : \/ n = server_socket /\ fd'[n] = "free"
                       \/ fd'[n] = fd[n]
    BY <1>4, CloseFacts DEF TypeOK
  <2>2. fd'[server_socket] \in {fd[server_socket], "free"}
    BY <1>t, <2>1
  <2>3. on_worker' = on_worker /\ in_handler' = in_handler
    BY <1>4 DEF SocketStep, OpenSocket, AssignSocket, Listen, BindOrListenOnClosed,
                StartupFails, CloseServerSocket, SignalOnMain, SignalOnWorker, WorkerCloses,
                SendSignal, Ended, Goto, staticVars
  <2> QED
    BY <1>4, <1>t, <2>1, <2>2, <2>3 DEF DescriptorsKept, InHand
<1>5. CASE SignalOnMain \/ SignalOnWorker \/ WorkerCloses
  <2>0. /\ fd' = fd \/ fd' = Close(server_socket)
        /\ UNCHANGED <<server_socket, fate>>
        /\ \/ main = "blocked" /\ main' = "accept_failed" /\ conn' = -1
           \/ UNCHANGED <<main, conn>>
        /\ \/ on_worker' = TRUE
           \/ /\ UNCHANGED <<on_worker, in_handler>> /\ main' # "blocked"
              /\ fd' = Close(server_socket)
    BY <1>5, HandlerFacts
  <2>1. \A n \in Fds : n # server_socket => fd'[n] = fd[n]
    BY <1>t, <2>0, CloseFacts DEF TypeOK
  <2>2. \A n \in Fds : fd'[n] \in {fd[n], "free"}
    <3>1. fd'[server_socket] \in {fd[server_socket], "free"}
      BY <1>t, <2>0, CloseFacts DEF TypeOK
    <3> QED
      BY <2>1, <3>1
  <2>3. /\ \A n \in Fds : fd'[n] = "tty" => n <= 2
        /\ \A n, k \in Fds : fd'[n] \in {"socket", "listening"} /\ fd'[k] \in {"socket", "listening"}
                             => n = k
        /\ \A n, k \in Fds : fd'[n] \in Clients /\ fd'[n] = fd'[k] => n = k
    BY <2>1, <2>2 DEF DescriptorsKept
  <2>4. /\ main' \in {"queue_init", "thread_pool_init", "sigaction", "socket"} =>
              \A n \in Fds : fd'[n] \in {"tty", "free"}
        /\ main' = "assign" => conn' \in Fds /\ fd'[conn'] \in {"socket", "free"}
        /\ InHand' => conn' \in Fds
    BY <2>0, <2>2 DEF DescriptorsKept, InHand
  <2>6. in_handler' > 0 => on_worker'
    BY <2>0 DEF DescriptorsKept
  <2>5. ASSUME ~on_worker'
        PROVE  /\ fd'[server_socket'] \notin Clients
               /\ main' = "blocked" => fd'[server_socket'] = "listening"
               /\ main' \in {"accept", "blocked"} /\ shutdown_requested' =>
                     fd'[server_socket'] # "listening"
               /\ InHand' => fd'[conn'] \in Clients /\ fate'[fd'[conn']] = "accepted"
    <3>1. ~on_worker /\ main' # "blocked" /\ fd' = Close(server_socket)
      BY <2>0, <2>5
    <3>2. InHand' => /\ conn' = conn /\ conn \in Fds /\ fate' = fate
                     /\ fd[conn] \in Clients /\ fate[fd[conn]] = "accepted"
      BY <2>0, <3>1 DEF DescriptorsKept, InHand
    <3>3. fd[server_socket] \notin Clients
      BY <3>1 DEF DescriptorsKept
    <3>4. InHand' => fd'[conn] = fd[conn]
      BY <2>1, <3>2, <3>3
    <3>5. fd'[server_socket'] = "free"
      BY <1>t, <2>0, <3>1, CloseFacts DEF TypeOK
    <3> QED
      BY <3>1, <3>2, <3>4, <3>5
  <2> QED
    BY <2>3, <2>4, <2>5, <2>6 DEF DescriptorsKept
<1>6. ASSUME BindOrListenOnClosed \/ StartupFails \/ CloseServerSocket
      PROVE  /\ UNCHANGED server_socket /\ (UNCHANGED fd \/ fd' = Close(server_socket))
             /\ main' \in {"failure", "success"}
  BY <1>6 DEF BindOrListenOnClosed, StartupFails, CloseServerSocket, Goto, staticVars
<1> QED
  BY <1>1, <1>2, <1>3, <1>4, <1>5, <1>6 DEF SocketStep

LEMMA ClientDescriptors ==
    ASSUME TypeOK, DescriptorsKept, FatesKept, ClientStep
    PROVE  DescriptorsKept'
<1> USE ClientsApart DEF Free
<1>t. /\ server_socket \in Fds
      /\ fd \in [Fds -> Clients \cup {"free", "tty", "socket", "listening"}]
      /\ fate \in [Clients -> {"away", "connected", "accepted", "queued", "dropped",
                               "discarded"}]
  BY DEF TypeOK
<1>1. CASE AcceptReturn
  <2> DEFINE c == Head(backlog)
             l == Lowest(fd)
  <2>1. /\ c \in Clients /\ \A n \in Fds : fd[n] # c
        /\ l \in Fds /\ fd[l] = "free"
    BY <1>1, AcceptFacts
  <2>2. /\ main = "blocked" /\ main' = "accepted" /\ conn' = l
        /\ fd' = [fd EXCEPT ![l] = c] /\ fate' = [fate EXCEPT ![c] = "accepted"]
        /\ UNCHANGED <<server_socket, on_worker, in_handler>>
    BY <1>1 DEF AcceptReturn, Goto, staticVars
  <2> HIDE DEF c, l
  <2>3. fd'[l] = c /\ \A n \in Fds : n # l => fd'[n] = fd[n]
    BY <1>t, <2>1, <2>2
  <2>4. fate'[c] = "accepted"
    BY <1>t, <2>1, <2>2
  <2>5. ~on_worker => server_socket # l /\ fd'[server_socket] = fd[server_socket]
    BY <1>t, <2>1, <2>2, <2>3 DEF DescriptorsKept
  <2>6. /\ \A n \in Fds : fd'[n] = "tty" => n <= 2
        /\ \A n, k \in Fds : fd'[n] \in {"socket", "listening"} /\ fd'[k] \in {"socket", "listening"}
                             => n = k
        /\ \A n, k \in Fds : fd'[n] \in Clients /\ fd'[n] = fd'[k] => n = k
    BY <2>1, <2>3 DEF DescriptorsKept
  <2> QED
    BY <2>1, <2>2, <2>3, <2>4, <2>5, <2>6 DEF DescriptorsKept, InHand
<1>2. CASE RequestNoMemory \/ Enqueue \/ QueueDestroy
  <2>1. /\ UNCHANGED <<server_socket, on_worker, in_handler, fd>> /\ main' \in {"loop", "close"}
    BY <1>2 DEF RequestNoMemory, Enqueue, QueueDestroy, Goto, staticVars, netVars
  <2> QED
    BY <2>1 DEF DescriptorsKept, InHand
<1>3. ASSUME NEW c \in Clients, Connect(c) PROVE DescriptorsKept'
  <2>1. /\ UNCHANGED <<server_socket, shutdown_requested, on_worker, in_handler, fd, main, conn>>
        /\ fate[c] = "away" /\ fate' = [fate EXCEPT ![c] = "connected"]
    BY <1>3 DEF Connect, staticVars
  <2>2. \A d \in Clients : fate[d] = "accepted" => fate'[d] = "accepted"
    BY <1>t, <2>1
  <2> QED
    BY <2>1, <2>2 DEF DescriptorsKept, InHand
<1> QED
  BY <1>1, <1>2, <1>3 DEF ClientStep

----------------------------------------------------------------------------
(* The clients' fates, the queue and the memory *)

LEMMA HavingFinite == \A f : IsFiniteSet(Having(f)) /\ Cardinality(Having(f)) \in Nat
<1> SUFFICES ASSUME NEW f PROVE IsFiniteSet(Having(f)) /\ Cardinality(Having(f)) \in Nat
  OBVIOUS
<1>1. Having(f) \in SUBSET Clients
  BY DEF Having
<1> QED
  BY <1>1, ClientsApart, FS_Subset, FS_CardinalityType

\* The count of ints and requests, and of the connections a malloc lost.
Memory == LoopMemory /\ Cardinality(Having("dropped")) <= failures

\* A step that accepts, queues and discards nobody.
LEMMA FatesUntouched ==
    ASSUME FatesKept, UNCHANGED <<fate, backlog, request_queue>>,
           \A n \in Fds : fd'[n] \in Clients => fd'[n] = fd[n],
           InHand' <=> InHand, InHand => conn' = conn,
           main \in {"close", "success"} => main' \in {"close", "success"}
    PROVE  FatesKept'
<1>1. \A f : Having(f)' = Having(f)
  BY DEF Having
<1>2. \A n \in Fds : fd[n] \in Clients /\ fate[fd[n]] = "accepted" => conn' = n
  <2> SUFFICES ASSUME NEW n \in Fds, fd[n] \in Clients, fate[fd[n]] = "accepted"
               PROVE  conn' = n
    OBVIOUS
  <2>1. conn = n
    BY DEF FatesKept
  <2>2. fd[n] \in Having("accepted")
    BY DEF Having
  <2>3. InHand
    BY <2>2 DEF FatesKept
  <2> QED
    BY <2>1, <2>3
<1>3. \A n \in Fds : fd'[n] \in Clients =>
         \/ fate'[fd'[n]] = "accepted" /\ conn' = n
         \/ fate'[fd'[n]] = "queued" /\ \E j \in 1..Len(request_queue') : request_queue'[j] = n
         \/ fate'[fd'[n]] \in {"dropped", "discarded"}
  BY <1>2 DEF FatesKept
<1> QED
  BY <1>1, <1>3 DEF FatesKept

LEMMA QueueUntouched ==
    ASSUME TypeOK, QueueHoldsOpenClients, UNCHANGED <<fate, request_queue>>,
           ~on_worker' => ~on_worker /\ \A n \in Fds : fd[n] \in Clients => fd'[n] = fd[n]
    PROVE  QueueHoldsOpenClients'
<1> SUFFICES ASSUME ~on_worker'
             PROVE  /\ \A j \in 1..Len(request_queue) :
                          \E c \in Clients : fd'[request_queue[j]] = c /\ fate[c] = "queued"
                    /\ \A j, k \in 1..Len(request_queue) :
                          request_queue[j] = request_queue[k] => j = k
  BY DEF QueueHoldsOpenClients
<1>1. \A j \in 1..Len(request_queue) : request_queue[j] \in Fds
  BY DEF TypeOK
<1> QED
  BY <1>1 DEF QueueHoldsOpenClients

\* The steps on the server's own sockets accept, queue and allocate nothing.
LEMMA SocketRest ==
    ASSUME TypeOK, DescriptorsKept, FatesKept, QueueHoldsOpenClients, Memory, SocketStep
    PROVE  FatesKept' /\ QueueHoldsOpenClients' /\ Memory'
<1> USE ClientsApart DEF Free
<1>t. /\ server_socket \in Fds
      /\ fd \in [Fds -> Clients \cup {"free", "tty", "socket", "listening"}]
  BY DEF TypeOK
<1>1. /\ UNCHANGED <<fate, backlog, request_queue, heap>>
      /\ failures' \in {failures, failures + 1}
      /\ InHand' <=> InHand
      /\ InHand => conn' = conn
      /\ main \in {"close", "success"} => main' \in {"close", "success"}
      /\ main' \in {"enqueue", "exited"} <=> main \in {"enqueue", "exited"}
      /\ main' \in {"accept", "blocked", "accept_failed", "accepted", "enqueue", "exited"} <=>
            main \in {"accept", "blocked", "accept_failed", "accepted", "enqueue", "exited"}
  <2>1. CASE SignalOnMain \/ SignalOnWorker \/ WorkerCloses
    BY <2>1, HandlerFacts DEF InHand
  <2>2. CASE ~(SignalOnMain \/ SignalOnWorker \/ WorkerCloses)
    BY <2>2 DEF SocketStep, OpenSocket, AssignSocket, Listen, BindOrListenOnClosed,
                StartupFails, EnvironmentFails, CloseServerSocket, Goto, InHand,
                staticVars, netVars, queueVars, bounds
  <2> QED
    BY <2>1, <2>2
<1>2. /\ \A n \in Fds : fd'[n] \in Clients => fd'[n] = fd[n]
      /\ ~on_worker' => ~on_worker /\ \A n \in Fds : fd[n] \in Clients => fd'[n] = fd[n]
  <2>1. CASE OpenSocket
    <3>1. Lowest(fd) \in Fds /\ fd[Lowest(fd)] = "free"
      BY <2>1, SocketFacts
    <3> QED
      BY <1>t, <2>1, <3>1 DEF OpenSocket, staticVars
  <2>2. CASE AssignSocket
    BY <2>2 DEF AssignSocket, netVars
  <2>3. CASE Listen
    BY <2>3, <1>t DEF Listen, staticVars
  <2>4. ASSUME fd' = fd \/ fd' = Close(server_socket), ~on_worker' => ~on_worker
        PROVE  /\ \A n \in Fds : fd'[n] \in Clients => fd'[n] = fd[n]
               /\ ~on_worker' => ~on_worker /\ \A n \in Fds : fd[n] \in Clients => fd'[n] = fd[n]
    <3>1. \A n \in Fds : fd'[n] = fd[n] \/ (n = server_socket /\ fd'[n] = "free")
      BY <2>4, CloseFacts DEF TypeOK
    <3>2. ~on_worker => fd[server_socket] \notin Clients
      BY DEF DescriptorsKept
    <3> QED
      BY <2>4, <3>1, <3>2
  <2>5. CASE BindOrListenOnClosed \/ StartupFails \/ CloseServerSocket
    <3>1. fd' = fd \/ fd' = Close(server_socket)
      BY <2>5 DEF BindOrListenOnClosed, StartupFails, CloseServerSocket
    <3>2. on_worker' = on_worker
      BY <2>5 DEF BindOrListenOnClosed, StartupFails, CloseServerSocket, staticVars
    <3> QED
      BY <2>4, <3>1, <3>2
  <2>6. CASE SignalOnMain \/ SignalOnWorker \/ WorkerCloses
    BY <2>4, <2>6, HandlerFacts
  <2> QED
    BY <2>1, <2>2, <2>3, <2>5, <2>6 DEF SocketStep
<1>3. FatesKept'
  BY <1>1, <1>2, FatesUntouched
<1>4. QueueHoldsOpenClients'
  BY <1>1, <1>2, QueueUntouched
<1>5. LoopMemory'
  BY <1>1 DEF LoopMemory, Memory
<1>6. Cardinality(Having("dropped"))' <= failures'
  <2>1. Having("dropped")' = Having("dropped")
    BY <1>1 DEF Having
  <2>2. failures \in Nat /\ Cardinality(Having("dropped")) \in Nat
    BY HavingFinite DEF TypeOK
  <2> QED
    BY <1>1, <2>1, <2>2 DEF Memory
<1> QED
  BY <1>3, <1>4, <1>5, <1>6 DEF Memory

\* Nor do main's other steps, but for the ints and requests they allocate.
LEMMA ControlRest ==
    ASSUME TypeOK, FatesKept, QueueHoldsOpenClients, Memory, ControlStep
    PROVE  FatesKept' /\ QueueHoldsOpenClients' /\ Memory'
<1>1. /\ UNCHANGED <<server_socket, fd, backlog, request_queue, fate, on_worker>>
      /\ failures' \in {failures, failures + 1}
      /\ main \notin {"close", "success"}
  BY ControlFacts
<1>2. (InHand' <=> InHand) /\ (InHand => conn' = conn)
  BY ControlFacts DEF InHand
<1>3. FatesKept'
  BY <1>1, <1>2, FatesUntouched
<1>4. QueueHoldsOpenClients'
  BY <1>1, QueueUntouched
<1>5. LoopMemory'
  <2> DEFINE q == Len(request_queue)
             d == Cardinality({c \in Clients : fate[c] = "discarded"})
             h == main \in {"accept", "blocked", "accept_failed", "accepted", "enqueue", "exited"}
  <2>1. q \in Nat /\ d \in Nat
    <3>1. Having("discarded") = {c \in Clients : fate[c] = "discarded"}
      BY DEF Having
    <3>2. Cardinality(Having("discarded")) \in Nat
      BY HavingFinite
    <3>3. d \in Nat
      BY <3>1, <3>2
    <3>4. q \in Nat
      BY DEF TypeOK
    <3> QED
      BY <3>3, <3>4
  <2>2. /\ heap.ints = q + d + (IF h THEN 1 ELSE 0)
        /\ heap.requests = q + (IF main \in {"enqueue", "exited"} THEN 1 ELSE 0)
    BY DEF Memory, LoopMemory
  <2>3. q' = q /\ d' = d
    BY <1>1
  <2> SUFFICES /\ heap'.ints = q + d + (IF h' THEN 1 ELSE 0)
               /\ heap'.requests = q + (IF main' \in {"enqueue", "exited"} THEN 1 ELSE 0)
    BY <2>3 DEF LoopMemory
  <2> HIDE DEF q, d
  <2>4. CASE LoopTest
    BY <2>4, <2>1, <2>2 DEF LoopTest, Goto
  <2>5. CASE AcceptFailed
    BY <2>5, <2>1, <2>2 DEF AcceptFailed, Goto
  <2>6. CASE RequestAlloc
    BY <2>6, <2>1, <2>2 DEF RequestAlloc, Goto
  <2>7. CASE InitQueueAndPool \/ InstallHandler \/ Bind \/ LoopNoMemory \/ AcceptEnter
             \/ AcceptError \/ PoolDestroy \/ SignalKills
    <3>1. /\ heap' = heap /\ (h' <=> h)
          /\ main' \notin {"enqueue", "exited"} /\ main \notin {"enqueue", "exited"}
      BY <2>7 DEF InitQueueAndPool, InstallHandler, Bind, LoopNoMemory, AcceptEnter,
                  AcceptError, PoolDestroy, SignalKills, Goto, queueVars
    <3> QED
      BY <2>2, <3>1
  <2>8. CASE EnqueueNoMemory
    <3>1. /\ heap' = heap /\ main = "enqueue" /\ main' = "exited"
      BY <2>8 DEF EnqueueNoMemory, Goto, queueVars
    <3> QED
      BY <2>2, <3>1
  <2> QED
    BY <2>4, <2>5, <2>6, <2>7, <2>8 DEF ControlStep
<1>6. Cardinality(Having("dropped"))' <= failures'
  <2>1. Having("dropped")' = Having("dropped")
    BY <1>1 DEF Having
  <2>2. failures \in Nat /\ Cardinality(Having("dropped")) \in Nat
    BY HavingFinite DEF TypeOK
  <2> QED
    BY <1>1, <2>1, <2>2 DEF Memory
<1> QED
  BY <1>3, <1>4, <1>5, <1>6 DEF Memory

\* accept hands the oldest connection over to main.
LEMMA AcceptRest ==
    ASSUME TypeOK, DescriptorsKept, FatesKept, QueueHoldsOpenClients, Memory, AcceptReturn
    PROVE  FatesKept' /\ QueueHoldsOpenClients' /\ Memory'
<1> USE ClientsApart DEF Free
<1> DEFINE c == Head(backlog)
           l == Lowest(fd)
<1>t. /\ fd \in [Fds -> Clients \cup {"free", "tty", "socket", "listening"}]
      /\ fate \in [Clients -> {"away", "connected", "accepted", "queued", "dropped",
                               "discarded"}]
      /\ \A j \in 1..Len(request_queue) : request_queue[j] \in Fds
  BY DEF TypeOK
<1>1. /\ c \in Clients /\ fate[c] = "connected" /\ l \in Fds /\ fd[l] = "free"
      /\ \A n \in Fds : fd[n] # c
      /\ Tail(backlog) \in Seq(Clients)
      /\ \A j \in 1..Len(Tail(backlog)) : fate[Tail(backlog)[j]] = "connected"
                                          /\ Tail(backlog)[j] # c
      /\ \A j, k \in 1..Len(Tail(backlog)) :
            Tail(backlog)[j] = Tail(backlog)[k] => j = k
  BY AcceptFacts
<1>2. /\ main = "blocked" /\ main' = "accepted" /\ conn' = l
      /\ fd' = [fd EXCEPT ![l] = c] /\ fate' = [fate EXCEPT ![c] = "accepted"]
      /\ backlog' = Tail(backlog)
      /\ UNCHANGED <<on_worker, request_queue, heap, failures>>
  BY DEF AcceptReturn, Goto, staticVars, bounds
<1> HIDE DEF c, l
<1>3. fate'[c] = "accepted" /\ \A d \in Clients : d # c => fate'[d] = fate[d]
  BY <1>t, <1>1, <1>2
<1>4. fd'[l] = c /\ \A n \in Fds : n # l => fd'[n] = fd[n]
  BY <1>t, <1>1, <1>2
<1>5. /\ Having("queued")' = Having("queued") /\ Having("dropped")' = Having("dropped")
      /\ Having("discarded")' = Having("discarded")
  BY <1>1, <1>3 DEF Having
<1>6. Having("accepted") = {}
  BY <1>2 DEF FatesKept, InHand
<1>7. Having("accepted")' = {c}
  BY <1>1, <1>3, <1>6 DEF Having
<1>8. FatesKept'
  <2>1. \A n \in Fds : fd'[n] \in Clients =>
           \/ fate'[fd'[n]] = "accepted" /\ conn' = n
           \/ fate'[fd'[n]] = "queued" /\ \E j \in 1..Len(request_queue') : request_queue'[j] = n
           \/ fate'[fd'[n]] \in {"dropped", "discarded"}
    <3> SUFFICES ASSUME NEW n \in Fds, fd'[n] \in Clients
                 PROVE  \/ fate'[fd'[n]] = "accepted" /\ conn' = n
                        \/ fate'[fd'[n]] = "queued"
                           /\ \E j \in 1..Len(request_queue') : request_queue'[j] = n
                        \/ fate'[fd'[n]] \in {"dropped", "discarded"}
      OBVIOUS
    <3>1. CASE n = l
      BY <3>1, <1>2, <1>3, <1>4
    <3>2. CASE n # l
      <4>1. fd'[n] = fd[n] /\ fate'[fd[n]] = fate[fd[n]] /\ fd[n] \in Clients
        BY <3>2, <1>1, <1>3, <1>4
      <4>2. fate[fd[n]] # "accepted"
        BY <4>1, <1>6 DEF Having
      <4> QED
        BY <4>1, <4>2, <1>2 DEF FatesKept
    <3> QED
      BY <3>1, <3>2
  <2>2. \A j \in 1..Len(backlog') : fate'[backlog'[j]] = "connected"
    <3>1. \A j \in 1..Len(Tail(backlog)) : Tail(backlog)[j] \in Clients
      BY <1>1
    <3> QED
      BY <1>1, <1>2, <1>3, <3>1
  <2>3. \A j, k \in 1..Len(backlog') : backlog'[j] = backlog'[k] => j = k
    BY <1>1, <1>2
  <2>4. InHand' /\ \E d \in Clients : Having("accepted")' = {d}
    BY <1>1, <1>2, <1>7 DEF InHand
  <2>5. Having("discarded")' = {}
    BY <1>2, <1>5 DEF FatesKept
  <2>6. Len(request_queue') = Cardinality(Having("queued"))'
    BY <1>2, <1>5 DEF FatesKept
  <2> QED
    BY <2>1, <2>2, <2>3, <2>4, <2>5, <2>6 DEF FatesKept
<1>9. QueueHoldsOpenClients'
  <2> SUFFICES ASSUME ~on_worker'
               PROVE  /\ \A j \in 1..Len(request_queue) :
                            \E d \in Clients : fd'[request_queue[j]] = d /\ fate'[d] = "queued"
                      /\ \A j, k \in 1..Len(request_queue) :
                            request_queue[j] = request_queue[k] => j = k
    BY <1>2 DEF QueueHoldsOpenClients
  <2>1. ~on_worker
    BY <1>2
  <2>2. \A j \in 1..Len(request_queue) :
           \E d \in Clients : fd'[request_queue[j]] = d /\ fate'[d] = "queued"
    <3> SUFFICES ASSUME NEW j \in 1..Len(request_queue)
                 PROVE  \E d \in Clients : fd'[request_queue[j]] = d /\ fate'[d] = "queued"
      OBVIOUS
    <3>1. PICK d \in Clients : fd[request_queue[j]] = d /\ fate[d] = "queued"
      BY <2>1 DEF QueueHoldsOpenClients
    <3>2. request_queue[j] # l /\ d # c
      BY <3>1, <1>1
    <3> QED
      BY <3>1, <3>2, <1>t, <1>3, <1>4
  <2> QED
    BY <2>1, <2>2 DEF QueueHoldsOpenClients
<1>10. Memory'
  <2>1. {d \in Clients : fate'[d] = "discarded"} = {d \in Clients : fate[d] = "discarded"}
    BY <1>5 DEF Having
  <2>2. LoopMemory'
    BY <1>2, <2>1 DEF Memory, LoopMemory
  <2>3. Cardinality(Having("dropped"))' <= failures'
    BY <1>2, <1>5 DEF Memory
  <2> QED
    BY <2>2, <2>3 DEF Memory
<1> QED
  BY <1>8, <1>9, <1>10

\* A client connects: it waits in the backlog, and nothing else changes.
LEMMA ConnectRest ==
    ASSUME TypeOK, DescriptorsKept, FatesKept, QueueHoldsOpenClients, Memory,
           NEW c \in Clients, Connect(c)
    PROVE  FatesKept' /\ QueueHoldsOpenClients' /\ Memory'
<1>t. /\ fate \in [Clients -> {"away", "connected", "accepted", "queued", "dropped",
                               "discarded"}]
      /\ backlog \in Seq(Clients) /\ Len(backlog) \in Nat
  BY DEF TypeOK
<1>1. /\ fate[c] = "away" /\ fate' = [fate EXCEPT ![c] = "connected"]
      /\ backlog' = Append(backlog, c)
      /\ UNCHANGED <<main, fd, conn, request_queue, heap, on_worker, failures>>
  BY DEF Connect, staticVars, bounds
<1>2. fate'[c] = "connected" /\ \A d \in Clients : d # c => fate'[d] = fate[d]
  BY <1>t, <1>1
<1>3. /\ Having("queued")' = Having("queued") /\ Having("dropped")' = Having("dropped")
      /\ Having("discarded")' = Having("discarded")
      /\ Having("accepted")' = Having("accepted")
  BY <1>1, <1>2 DEF Having
<1>4. /\ Len(backlog') = Len(backlog) + 1 /\ backlog'[Len(backlog) + 1] = c
      /\ \A j \in 1..Len(backlog) : backlog'[j] = backlog[j]
      /\ \A j \in 1..Len(backlog') : j \in 1..Len(backlog) \/ j = Len(backlog) + 1
  BY <1>t, <1>1, AppendProperties
<1>5. \A j \in 1..Len(backlog) : backlog[j] # c /\ backlog[j] \in Clients
  BY <1>t, <1>1 DEF FatesKept
<1>6. FatesKept'
  <2>1. \A j, k \in 1..Len(backlog') : backlog'[j] = backlog'[k] => j = k
    BY <1>4, <1>5 DEF FatesKept
  <2>2. \A j \in 1..Len(backlog') : fate'[backlog'[j]] = "connected"
    BY <1>2, <1>4, <1>5 DEF FatesKept
  <2>3. \A n \in Fds : fd'[n] \in Clients =>
           \/ fate'[fd'[n]] = "accepted" /\ conn' = n
           \/ fate'[fd'[n]] = "queued" /\ \E j \in 1..Len(request_queue') : request_queue'[j] = n
           \/ fate'[fd'[n]] \in {"dropped", "discarded"}
    BY <1>1, <1>2 DEF FatesKept
  <2>4. Len(request_queue') = Cardinality(Having("queued"))'
    BY <1>1, <1>3 DEF FatesKept
  <2>5. InHand' <=> InHand
    BY <1>1 DEF InHand
  <2> QED
    BY <1>1, <1>3, <2>1, <2>2, <2>3, <2>4, <2>5 DEF FatesKept
<1>7. QueueHoldsOpenClients'
  BY <1>1, <1>2 DEF QueueHoldsOpenClients
<1>8. Memory'
  <2>1. {d \in Clients : fate'[d] = "discarded"} = {d \in Clients : fate[d] = "discarded"}
    BY <1>3 DEF Having
  <2>2. LoopMemory'
    BY <1>1, <2>1 DEF Memory, LoopMemory
  <2>3. Cardinality(Having("dropped"))' <= failures'
    BY <1>1, <1>3 DEF Memory
  <2> QED
    BY <2>2, <2>3 DEF Memory
<1> QED
  BY <1>6, <1>7, <1>8

\* The client in main's hands is queued, or dropped for want of memory: the
\* fates of all others stay.
LEMMA HandFacts ==
    ASSUME TypeOK, FatesKept, InHand, NEW to \in {"queued", "dropped"},
           fate' = [c \in Clients |-> IF fate[c] = "accepted" THEN to ELSE fate[c]],
           UNCHANGED <<fd, conn, backlog>>, main' = "loop",
           \A n \in Fds : (\E j \in 1..Len(request_queue) : request_queue[j] = n) =>
                             \E j \in 1..Len(request_queue') : request_queue'[j] = n,
           to = "queued" => \E j \in 1..Len(request_queue') : request_queue'[j] = conn,
           to = "queued" => Len(request_queue') = Len(request_queue) + 1,
           to = "dropped" => UNCHANGED request_queue
    PROVE  /\ FatesKept'
           /\ Having("discarded")' = {} /\ Having("discarded") = {}
           /\ Cardinality(Having(to)') = Cardinality(Having(to)) + 1
           /\ to = "queued" => Having("dropped")' = Having("dropped")
<1>t. fate \in [Clients -> {"away", "connected", "accepted", "queued", "dropped", "discarded"}]
  BY DEF TypeOK
<1>1. PICK c \in Clients : Having("accepted") = {c}
  BY DEF FatesKept
<1>2. fate[c] = "accepted" /\ fate'[c] = to
  BY <1>1 DEF Having
<1>3. \A d \in Clients : d # c => fate[d] # "accepted" /\ fate'[d] = fate[d]
  BY <1>1 DEF Having
<1>4. Having("accepted")' = {}
  BY <1>2, <1>3 DEF Having
<1>5. Having(to)' = Having(to) \cup {c} /\ c \notin Having(to)
  BY <1>2, <1>3 DEF Having
<1>6. Cardinality(Having(to) \cup {c}) = Cardinality(Having(to)) + 1
  BY <1>5, HavingFinite, FS_AddElement
<1>7. Having("discarded")' = {} /\ Having("discarded") = {}
  <2>1. Having("discarded") = {}
    BY DEF FatesKept, InHand
  <2>2. Having("discarded")' = Having("discarded")
    BY <1>2, <1>3 DEF Having
  <2> QED
    BY <2>1, <2>2
<1>8. to = "queued" => Having("dropped")' = Having("dropped")
  BY <1>2, <1>3 DEF Having
<1>9. to = "dropped" => Having("queued")' = Having("queued")
  BY <1>2, <1>3 DEF Having
<1>10. FatesKept'
  <2>1. \A j \in 1..Len(backlog) : fate'[backlog[j]] = "connected"
    BY <1>2, <1>3 DEF FatesKept, TypeOK
  <2>2. \A n \in Fds : fd[n] \in Clients =>
           \/ fate'[fd[n]] = "accepted" /\ conn = n
           \/ fate'[fd[n]] = "queued" /\ \E j \in 1..Len(request_queue') : request_queue'[j] = n
           \/ fate'[fd[n]] \in {"dropped", "discarded"}
    <3> SUFFICES ASSUME NEW n \in Fds, fd[n] \in Clients
                 PROVE  \/ fate'[fd[n]] = "accepted" /\ conn = n
                        \/ fate'[fd[n]] = "queued"
                           /\ \E j \in 1..Len(request_queue') : request_queue'[j] = n
                        \/ fate'[fd[n]] \in {"dropped", "discarded"}
      OBVIOUS
    <3>1. CASE fd[n] = c
      <4>1. conn = n
        BY <3>1, <1>2 DEF FatesKept
      <4> QED
        BY <3>1, <4>1, <1>2
    <3>2. CASE fd[n] # c
      <4>1. fate'[fd[n]] = fate[fd[n]]
        BY <3>2, <1>3
      <4> QED
        BY <4>1 DEF FatesKept
    <3> QED
      BY <3>1, <3>2
  <2>3. Len(request_queue') = Cardinality(Having("queued")')
    <3>1. Len(request_queue) = Cardinality(Having("queued"))
      BY DEF FatesKept
    <3>2. CASE to = "queued"
      BY <3>1, <3>2, <1>5, <1>6
    <3>3. CASE to = "dropped"
      BY <3>1, <3>3, <1>9
    <3> QED
      BY <3>2, <3>3
  <2>4. ~InHand'
    BY DEF InHand
  <2> QED
    BY <1>4, <1>7, <2>1, <2>2, <2>3, <2>4 DEF FatesKept
<1> QED
  BY <1>5, <1>6, <1>7, <1>8, <1>10

\* A malloc fails after accept: the client is dropped, one for the failure.
LEMMA DropRest ==
    ASSUME TypeOK, DescriptorsKept, FatesKept, QueueHoldsOpenClients, Memory, RequestNoMemory
    PROVE  FatesKept' /\ QueueHoldsOpenClients' /\ Memory'
<1>1. /\ main = "accepted" /\ main' = "loop" /\ failures' = failures + 1
      /\ heap' = [ints |-> heap.ints - 1, requests |-> heap.requests]
      /\ fate' = [c \in Clients |-> IF fate[c] = "accepted" THEN "dropped" ELSE fate[c]]
      /\ UNCHANGED <<fd, conn, backlog, request_queue, on_worker>>
  BY DEF RequestNoMemory, EnvironmentFails, Goto, staticVars, netVars
<1>2. /\ FatesKept' /\ Having("discarded")' = {} /\ Having("discarded") = {}
      /\ Cardinality(Having("dropped")') = Cardinality(Having("dropped")) + 1
  <2>1. InHand
    BY <1>1 DEF InHand
  <2> QED
    BY <1>1, <2>1, HandFacts
<1>3. QueueHoldsOpenClients'
  <2>1. \A c \in Clients : fate[c] = "queued" => fate'[c] = "queued"
    BY <1>1
  <2> QED
    BY <1>1, <2>1 DEF QueueHoldsOpenClients
<1>4. Memory'
  <2>1. failures \in Nat /\ Cardinality(Having("dropped")) \in Nat
    BY HavingFinite DEF TypeOK
  <2>2. Cardinality(Having("dropped")') <= failures'
    BY <1>1, <1>2, <2>1 DEF Memory
  <2>3. {d \in Clients : fate'[d] = "discarded"} = {d \in Clients : fate[d] = "discarded"}
    BY <1>2 DEF Having
  <2>4. Cardinality({d \in Clients : fate[d] = "discarded"}) = 0
    BY <1>2, FS_EmptySet DEF Having
  <2>5. Len(request_queue) \in Nat
    BY DEF TypeOK
  <2>6. LoopMemory'
    <3>1. heap.ints = Len(request_queue) + 1 /\ heap.requests = Len(request_queue)
      BY <1>1, <2>4, <2>5 DEF Memory, LoopMemory
    <3>2. heap'.ints = Len(request_queue) /\ heap'.requests = Len(request_queue)
      BY <1>1, <2>5, <3>1
    <3>3. Cardinality({d \in Clients : fate'[d] = "discarded"}) = 0
      BY <2>3, <2>4
    <3> QED
      BY <1>1, <2>5, <3>2, <3>3 DEF LoopMemory
  <2> QED
    BY <2>2, <2>6 DEF Memory
<1> QED
  BY <1>2, <1>3, <1>4

\* The request is queued: it names the client's descriptor, which no other does.
LEMMA EnqueueRest ==
    ASSUME TypeOK, DescriptorsKept, FatesKept, QueueHoldsOpenClients, Memory, Enqueue
    PROVE  FatesKept' /\ QueueHoldsOpenClients' /\ Memory'
<1>1. /\ main = "enqueue" /\ main' = "loop" /\ request_queue' = Append(request_queue, conn)
      /\ fate' = [c \in Clients |-> IF fate[c] = "accepted" THEN "queued" ELSE fate[c]]
      /\ UNCHANGED <<fd, conn, backlog, on_worker, heap, failures>>
  BY DEF Enqueue, Goto, staticVars, netVars, bounds
<1>i. InHand
  BY <1>1 DEF InHand
<1>t. conn \in Fds /\ request_queue \in Seq(Fds) /\ Len(request_queue) \in Nat
  BY <1>i DEF TypeOK, DescriptorsKept
<1>2. /\ Len(request_queue') = Len(request_queue) + 1
      /\ \A j \in 1..Len(request_queue) : request_queue'[j] = request_queue[j]
      /\ request_queue'[Len(request_queue) + 1] = conn
  BY <1>1, <1>t, AppendProperties
<1>3. /\ \A j \in 1..Len(request_queue') : j \in 1..Len(request_queue) \/ j = Len(request_queue) + 1
      /\ \A j \in 1..Len(request_queue) : j \in 1..Len(request_queue')
      /\ Len(request_queue) + 1 \in 1..Len(request_queue')
  BY <1>t, <1>2
<1>4. /\ FatesKept' /\ Having("discarded")' = {} /\ Having("discarded") = {}
      /\ Having("dropped")' = Having("dropped")
  <2>1. \A n \in Fds : (\E j \in 1..Len(request_queue) : request_queue[j] = n) =>
                          \E j \in 1..Len(request_queue') : request_queue'[j] = n
    BY <1>2, <1>3
  <2>2. \E j \in 1..Len(request_queue') : request_queue'[j] = conn
    BY <1>2, <1>3
  <2> QED
    BY <1>1, <1>i, <1>2, <2>1, <2>2, HandFacts
<1>5. QueueHoldsOpenClients'
  <2> SUFFICES ASSUME ~on_worker'
               PROVE  /\ \A j \in 1..Len(request_queue') :
                            \E c \in Clients : fd'[request_queue'[j]] = c /\ fate'[c] = "queued"
                      /\ \A j, k \in 1..Len(request_queue') :
                            request_queue'[j] = request_queue'[k] => j = k
    BY DEF QueueHoldsOpenClients
  <2>1. ~on_worker /\ fd[conn] \in Clients /\ fate[fd[conn]] = "accepted"
    BY <1>1, <1>i DEF DescriptorsKept
  <2>2. \A c \in Clients : fate[c] \in {"queued", "accepted"} => fate'[c] = "queued"
    BY <1>1
  <2>3. \A j \in 1..Len(request_queue) :
           \E c \in Clients : fd[request_queue[j]] = c /\ fate[c] = "queued"
    BY <2>1 DEF QueueHoldsOpenClients
  <2>4. \A j \in 1..Len(request_queue) : request_queue[j] # conn
    BY <2>1, <2>3
  <2>5. \A j \in 1..Len(request_queue') :
           \E c \in Clients : fd'[request_queue'[j]] = c /\ fate'[c] = "queued"
    BY <1>1, <1>2, <1>3, <2>1, <2>2, <2>3
  <2>6. \A j, k \in 1..Len(request_queue') : request_queue'[j] = request_queue'[k] => j = k
    BY <1>2, <1>3, <2>1, <2>4 DEF QueueHoldsOpenClients
  <2> QED
    BY <2>5, <2>6
<1>6. Memory'
  <2>1. Cardinality(Having("dropped")') <= failures'
    BY <1>1, <1>4 DEF Memory
  <2>2. {d \in Clients : fate'[d] = "discarded"} = {d \in Clients : fate[d] = "discarded"}
    BY <1>4 DEF Having
  <2>3. Cardinality({d \in Clients : fate[d] = "discarded"}) = 0
    BY <1>4, FS_EmptySet DEF Having
  <2>4. LoopMemory'
    <3>1. heap.ints = Len(request_queue) + 1 /\ heap.requests = Len(request_queue) + 1
      BY <1>1, <1>t, <2>3 DEF Memory, LoopMemory
    <3>2. Cardinality({d \in Clients : fate'[d] = "discarded"}) = 0
      BY <2>2, <2>3
    <3> QED
      BY <1>1, <1>2, <1>t, <3>1, <3>2 DEF LoopMemory
  <2> QED
    BY <2>1, <2>4 DEF Memory
<1> QED
  BY <1>4, <1>5, <1>6

\* queue_destroy frees the requests; one int is left for each client it discards.
LEMMA DestroyRest ==
    ASSUME TypeOK, DescriptorsKept, FatesKept, QueueHoldsOpenClients, Memory, QueueDestroy
    PROVE  FatesKept' /\ QueueHoldsOpenClients' /\ Memory'
<1>1. /\ main = "queue_destroy" /\ main' = "close" /\ request_queue' = << >>
      /\ heap' = [ints |-> heap.ints, requests |-> heap.requests - Len(request_queue)]
      /\ fate' = [c \in Clients |-> IF fate[c] = "queued" THEN "discarded" ELSE fate[c]]
      /\ UNCHANGED <<fd, conn, backlog, on_worker, failures>>
  BY DEF QueueDestroy, Goto, staticVars, netVars, bounds
<1>2. Having("accepted") = {} /\ Having("discarded") = {}
  BY <1>1 DEF FatesKept, InHand
<1>3. /\ Having("accepted")' = {} /\ Having("queued")' = {}
      /\ Having("discarded")' = Having("queued") /\ Having("dropped")' = Having("dropped")
  <2>1. \A c \in Clients : fate[c] # "accepted" /\ fate[c] # "discarded"
    BY <1>2 DEF Having
  <2> QED
    BY <1>1, <2>1 DEF Having
<1>4. Len(request_queue') = 0 /\ Len(request_queue) \in Nat
  BY <1>1 DEF TypeOK
<1>5. FatesKept'
  <2>1. \A j \in 1..Len(backlog) : fate'[backlog[j]] = "connected"
    BY <1>1 DEF FatesKept, TypeOK
  <2>2. \A n \in Fds : fd[n] \in Clients => fate'[fd[n]] \in {"dropped", "discarded"}
    <3>1. \A n \in Fds : fd[n] \in Clients => fate[fd[n]] # "accepted"
      BY <1>2 DEF Having
    <3> QED
      BY <1>1, <3>1 DEF FatesKept
  <2>3. Len(request_queue') = Cardinality(Having("queued")')
    BY <1>3, <1>4, FS_EmptySet
  <2>4. ~InHand'
    BY <1>1 DEF InHand
  <2> QED
    BY <1>1, <1>3, <2>1, <2>2, <2>3, <2>4 DEF FatesKept
<1>6. QueueHoldsOpenClients'
  BY <1>4 DEF QueueHoldsOpenClients
<1>7. Memory'
  <2>1. Cardinality(Having("dropped")') <= failures'
    BY <1>1, <1>3 DEF Memory
  <2>2. Cardinality({d \in Clients : fate[d] = "discarded"}) = 0
    BY <1>2, FS_EmptySet DEF Having
  <2>3. Cardinality({d \in Clients : fate'[d] = "discarded"}) = Len(request_queue)
    BY <1>3 DEF Having, FatesKept
  <2>4. heap.ints = Len(request_queue) /\ heap.requests = Len(request_queue)
    BY <1>1, <1>4, <2>2 DEF Memory, LoopMemory
  <2>5. heap'.ints = Len(request_queue) /\ heap'.requests = 0
    BY <1>1, <1>4, <2>4
  <2>6. LoopMemory'
    BY <1>1, <1>4, <2>3, <2>5 DEF LoopMemory
  <2> QED
    BY <2>1, <2>6 DEF Memory
<1> QED
  BY <1>5, <1>6, <1>7

----------------------------------------------------------------------------
(* The theorems *)

\* What NothingForgotten adds to the fates follows from them.
LEMMA Forgotten == FatesKept /\ Memory => NothingForgotten
<1> SUFFICES ASSUME FatesKept, Memory PROVE NothingForgotten
  OBVIOUS
<1>1. \A n \in Fds : fd[n] \in Clients =>
         \/ \E j \in 1..Len(request_queue) : request_queue[j] = n
         \/ main \in {"accepted", "enqueue", "exited"} /\ conn = n
         \/ fate[fd[n]] = "dropped"
         \/ fate[fd[n]] = "discarded" /\ main \in {"close", "success"}
  <2>1. \A n \in Fds : fd[n] \in Clients /\ fate[fd[n]] = "accepted" => InHand
    BY DEF FatesKept, Having
  <2>2. \A n \in Fds : fd[n] \in Clients /\ fate[fd[n]] = "discarded" =>
                          main \in {"close", "success"}
    BY DEF FatesKept, Having
  <2> QED
    BY <2>1, <2>2 DEF FatesKept, InHand
<1>2. Cardinality({c \in Clients : fate[c] = "dropped"}) <= failures
  BY DEF Memory, Having
<1> QED
  BY <1>1, <1>2 DEF NothingForgotten, NoConnectionForgotten, Memory

LEMMA Remembered == NothingForgotten => Memory
BY DEF NothingForgotten, NoConnectionForgotten, Memory, Having

\* Every step preserves the invariant.
LEMMA NextServer ==
    ServerInv /\ NothingForgotten /\ [Next]_vars => (ServerInv /\ NothingForgotten)'
<1> SUFFICES ASSUME ServerInv, NothingForgotten, [Next]_vars
             PROVE  (ServerInv /\ NothingForgotten)'
  OBVIOUS
<1>0. TypeOK /\ DescriptorsKept /\ FatesKept /\ QueueHoldsOpenClients /\ Memory /\ LoopMemory
  BY Remembered DEF ServerInv, NothingForgotten
<1>1. ASSUME TypeOK', DescriptorsKept', FatesKept', QueueHoldsOpenClients', Memory'
      PROVE  (ServerInv /\ NothingForgotten)'
  <2>1. NothingForgotten'
    BY <1>1, Forgotten, PTL
  <2> QED
    BY <1>1, <2>1 DEF ServerInv
<1>2. CASE SocketStep
  BY <1>0, <1>1, <1>2, SocketTypes, SocketDescriptors, SocketRest
<1>3. CASE ControlStep
  BY <1>0, <1>1, <1>3, ControlTypes, ControlDescriptors, ControlRest
<1>4. CASE ClientStep
  <2>1. TypeOK' /\ DescriptorsKept'
    BY <1>0, <1>4, ClientTypes, ClientDescriptors
  <2>2. FatesKept' /\ QueueHoldsOpenClients' /\ Memory'
    BY <1>0, <1>4, AcceptRest, ConnectRest, DropRest, EnqueueRest, DestroyRest DEF ClientStep
  <2> QED
    BY <1>1, <2>1, <2>2
<1>5. CASE UNCHANGED vars
  <2>1. TypeOK'
    BY <1>0, <1>5 DEF TypeOK, vars
  <2>2. DescriptorsKept' /\ QueueHoldsOpenClients'
    BY <1>0, <1>5 DEF DescriptorsKept, QueueHoldsOpenClients, InHand, vars
  <2>3. FatesKept'
    BY <1>0, <1>5, FatesUntouched DEF vars, InHand
  <2>4. LoopMemory'
    BY <1>0, <1>5 DEF LoopMemory, vars
  <2>5. Cardinality(Having("dropped"))' <= failures'
    BY <1>0, <1>5 DEF Memory, Having, vars
  <2> QED
    BY <1>1, <2>1, <2>2, <2>3, <2>4, <2>5 DEF Memory
<1> QED
  BY <1>2, <1>3, <1>4, <1>5, NextSplit

\* Unless a worker ran sigint_handler, the close of the server socket never hits a
\* queued client's connection, for any number of clients, signals and failures.
THEOREM ServerInvariant == Spec => []ServerInv
<1>1. Init => ServerInv /\ NothingForgotten
  BY InitServer
<1>2. ServerInv /\ NothingForgotten /\ [Next]_vars => (ServerInv /\ NothingForgotten)'
  BY NextServer
<1> QED
  BY <1>1, <1>2, PTL DEF Spec

\* main's loop leaks no int and no request and forgets no open connection, not even
\* when queue_enqueue exits, but for the one that a failed malloc of the request
\* leaves, one for each failure.
THEOREM NothingIsForgotten == Spec => []NothingForgotten
<1>1. Init => ServerInv /\ NothingForgotten
  BY InitServer
<1>2. ServerInv /\ NothingForgotten /\ [Next]_vars => (ServerInv /\ NothingForgotten)'
  BY NextServer
<1> QED
  BY <1>1, <1>2, PTL DEF Spec

\* Once sigint_handler has run, accept returns no further client as long as no worker
\* has run it.
THEOREM ShutdownIsFinal == Spec => NoAcceptAfterShutdown
<1> DEFINE Step == shutdown_requested /\ ~on_worker =>
                      \A c \in Clients : fate'[c] = "accepted" => fate[c] = "accepted"
<1>1. ServerInv /\ [Next]_vars => [Step]_vars
  <2> SUFFICES ASSUME ServerInv, Next, shutdown_requested, ~on_worker,
                      NEW c \in Clients, fate'[c] = "accepted"
               PROVE  fate[c] = "accepted"
    OBVIOUS
  <2>t. TypeOK /\ DescriptorsKept
    BY DEF ServerInv
  <2>1. ~AcceptReturn
    BY <2>t DEF DescriptorsKept, AcceptReturn, Goto
  <2>2. CASE SocketStep
    BY <2>t, <2>2, HandlerFacts DEF SocketStep, OpenSocket, AssignSocket, Listen,
       BindOrListenOnClosed, StartupFails, CloseServerSocket, queueVars
  <2>3. CASE ControlStep
    BY <2>t, <2>3, ControlFacts
  <2>4. CASE RequestNoMemory \/ Enqueue \/ QueueDestroy
    BY <2>4 DEF RequestNoMemory, Enqueue, QueueDestroy
  <2>5. ASSUME NEW d \in Clients, Connect(d) PROVE fate[c] = "accepted"
    BY <2>5, <2>t DEF Connect, TypeOK
  <2> QED
    BY <2>1, <2>2, <2>3, <2>4, <2>5, NextSplit DEF ClientStep
<1> QED
  BY <1>1, ServerInvariant, PTL DEF Spec, NoAcceptAfterShutdown
=============================================================================
