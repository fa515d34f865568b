------------------------------ MODULE Threads ------------------------------
(***************************************************************************)
(* What the POSIX threads library does for the programs of ThreadPrograms: *)
(* the steps of their threads in every order, and the outcomes a call may  *)
(* have.  code[t] is what thread t has still to do, main being thread 0.   *)
(* All of it is external to the repository; the programs are not.          *)
(***************************************************************************)
EXTENDS ThreadPrograms, FiniteSets, TLC

CONSTANTS Programs,     \* the programs to run, fields of ProgramCode
          MaxSignals    \* the signals the environment sends

ASSUME ProgramsAssumption == Programs \subseteq DOMAIN ProgramCode
ASSUME MaxSignalsAssumption == MaxSignals \in Nat

VARIABLES prog, code, state, reg, mem, heap, freed, owner, waiting, canceled,
          cancelable, handlers, out, sent, pending, sched, ended, bad
vars == <<prog, code, state, reg, mem, heap, freed, owner, waiting, canceled,
          cancelable, handlers, out, sent, pending, sched, ended, bad>>

Tasks == 0 .. 3
Mutexes == {"mylock", "mycv_mutex", "shmtx", "sig_mutex"}
Free == -1
Value(x) == IF x \in DOMAIN mem THEN mem[x] ELSE 0

TypeOK ==
  /\ prog \in Programs
  /\ state \in [Tasks -> {"none", "running", "done", "joined"}]
  /\ reg \in [Tasks -> Int]
  /\ owner \in [Mutexes -> Tasks \cup {Free}]
  /\ waiting \subseteq Tasks /\ canceled \subseteq Tasks /\ cancelable \subseteq Tasks
  /\ heap \cap freed = {}
  /\ sent \in 0 .. MaxSignals /\ pending \in 0 .. 1
  /\ ended \in {"no", "success", "failure", "crash"}

Init ==
  /\ prog \in Programs
  /\ code = [t \in Tasks |-> IF t = 0 THEN ProgramCode[prog] ELSE <<>>]
  /\ state = [t \in Tasks |-> IF t = 0 THEN "running" ELSE "none"]
  /\ reg = [t \in Tasks |-> 0]
  /\ mem = <<>> /\ heap = {} /\ freed = {}
  /\ owner = [m \in Mutexes |-> Free]
  /\ waiting = {} /\ canceled = {} /\ cancelable = Tasks
  /\ handlers = [t \in Tasks |-> <<>>]
  /\ out = [t \in Tasks |-> <<>>]
  /\ sent = 0 /\ pending = 0 /\ sched = {}
  /\ ended = "no" /\ bad = {}

-----------------------------------------------------------------------------
(* The next step of a thread that can take one, and what follows it.        *)
Op(t) == Head(code[t])
At(t, op) == /\ ended = "no" /\ state[t] = "running" /\ t \notin waiting
             /\ code[t] # <<>> /\ Op(t)[1] = op
Then(t, next) == code' = [code EXCEPT ![t] = next \o Tail(@)]
Continue(t) == Then(t, <<>>)

threadState == <<state, handlers, canceled, cancelable>>
memoryState == <<reg, mem, heap, freed, out, sched>>
waitState == <<owner, waiting>>
signalState == <<sent, pending>>

\* What a thread does to a freed block, or to a mutex it does not hold.
Misuse(t, what, wrong) == bad' = IF wrong THEN bad \cup {<<what, t>>} ELSE bad
Fine == UNCHANGED bad

End(how) == ended' = how
GoOn == UNCHANGED <<prog, ended>>

Fatal(t) ==
  /\ \E op \in {"try", "create", "malloc", "fatal"} : At(t, op)
  /\ End("failure") /\ Continue(t) /\ Fine
  /\ UNCHANGED <<prog, threadState, memoryState, waitState, signalState>>

Try(t) ==
  /\ \E op \in {"try", "io"} : At(t, op)
  /\ Continue(t) /\ Fine /\ GoOn
  /\ UNCHANGED <<threadState, memoryState, waitState, signalState>>

Exit(t) ==
  /\ At(t, "exit") \/ At(t, "crash")
  /\ End(IF Op(t)[1] = "exit" THEN "success" ELSE "crash") /\ Continue(t) /\ Fine
  /\ UNCHANGED <<prog, threadState, memoryState, waitState, signalState>>

Create(t) ==
  /\ At(t, "create")
  /\ state' = [state EXCEPT ![Op(t)[2]] = "running"]
  /\ code' = [code EXCEPT ![t] = Tail(@), ![Op(t)[2]] = Op(t)[3]]
  /\ Fine /\ GoOn
  /\ UNCHANGED <<handlers, canceled, cancelable, memoryState, waitState, signalState>>

Join(t) ==
  /\ At(t, "join") \/ At(t, "timedjoin")
  /\ state[Op(t)[2]] = "done"
  /\ state' = [state EXCEPT ![Op(t)[2]] = "joined"]
  /\ Then(t, IF Op(t)[1] = "join" THEN <<>> ELSE Op(t)[3])
  /\ Fine /\ GoOn
  /\ UNCHANGED <<handlers, canceled, cancelable, memoryState, waitState, signalState>>

JoinTimeout(t) ==
  /\ At(t, "timedjoin") /\ state[Op(t)[2]] = "running"
  /\ Continue(t) /\ Fine /\ GoOn
  /\ UNCHANGED <<threadState, memoryState, waitState, signalState>>

-----------------------------------------------------------------------------
(* The end of a thread runs its cleanup handlers, the last pushed first.    *)
Unwind(t) == /\ code' = [code EXCEPT ![t] = FlattenSeq(handlers[t]) \o << <<"gone">> >>]
             /\ handlers' = [handlers EXCEPT ![t] = <<>>]
             /\ cancelable' = cancelable \ {t}

PthreadExit(t) ==
  /\ At(t, "pthread_exit")
  /\ Unwind(t) /\ Fine /\ GoOn
  /\ UNCHANGED <<state, canceled, memoryState, waitState, signalState>>

ActOnCancel(t) ==
  /\ At(t, "sleep") \/ At(t, "io")
  /\ t \in canceled \cap cancelable
  /\ Unwind(t) /\ Fine /\ GoOn
  /\ UNCHANGED <<state, canceled, memoryState, waitState, signalState>>

Sleep(t) ==
  /\ At(t, "sleep") /\ t \notin canceled \cap cancelable
  /\ Continue(t) /\ Fine /\ GoOn
  /\ UNCHANGED <<threadState, memoryState, waitState, signalState>>

Gone(t) ==
  /\ At(t, "gone")
  /\ state' = [state EXCEPT ![t] = "done"]
  /\ Continue(t)
  /\ ended' = IF \A u \in Tasks \ {t} : state[u] # "running" THEN "success" ELSE ended
  /\ reg' = [reg EXCEPT ![t] = 0]
  /\ Fine
  /\ UNCHANGED <<prog, handlers, canceled, cancelable, mem, heap, freed, out, sched,
                 waitState, signalState>>

Cleanup(t) ==
  /\ At(t, "push") \/ At(t, "pop")
  /\ handlers' = [handlers EXCEPT ![t] =
                    IF Op(t)[1] = "push" THEN <<Op(t)[2]>> \o @ ELSE Tail(@)]
  /\ Continue(t) /\ Fine /\ GoOn
  /\ UNCHANGED <<state, canceled, cancelable, memoryState, waitState, signalState>>

Cancel(t) ==
  /\ \/ /\ At(t, "cancel") /\ canceled' = canceled \cup {Op(t)[2]}
        /\ UNCHANGED cancelable
     \/ /\ At(t, "cancelstate") /\ UNCHANGED canceled
        /\ cancelable' = IF Op(t)[2] THEN cancelable \cup {t} ELSE cancelable \ {t}
  /\ Continue(t) /\ Fine /\ GoOn
  /\ UNCHANGED <<state, handlers, memoryState, waitState, signalState>>

-----------------------------------------------------------------------------
(* Mutexes and condition variables.  A waiting thread has let its mutex go  *)
(* and takes it again first of all when it wakes, signalled or not.         *)
Lock(t) ==
  /\ At(t, "lock") /\ owner[Op(t)[2]] = Free
  /\ owner' = [owner EXCEPT ![Op(t)[2]] = t]
  /\ Continue(t) /\ Fine /\ GoOn
  /\ UNCHANGED <<threadState, memoryState, waiting, signalState>>

Unlock(t) ==
  /\ At(t, "unlock")
  /\ owner' = [owner EXCEPT ![Op(t)[2]] = Free]
  /\ Misuse(t, "unlock", owner[Op(t)[2]] # t)
  /\ Continue(t) /\ GoOn
  /\ UNCHANGED <<threadState, memoryState, waiting, signalState>>

Wait(t) ==
  /\ At(t, "wait")
  /\ owner' = [owner EXCEPT ![Op(t)[3]] = Free]
  /\ Misuse(t, "unlock", owner[Op(t)[3]] # t)
  /\ waiting' = waiting \cup {t}
  /\ Then(t, << <<"lock", Op(t)[3]>> >>) /\ GoOn
  /\ UNCHANGED <<threadState, memoryState, signalState>>

Signal(t) ==
  /\ At(t, "signal")
  /\ waiting' \in IF waiting = {} THEN {{}} ELSE {waiting \ {u} : u \in waiting}
  /\ Continue(t) /\ Fine /\ GoOn
  /\ UNCHANGED <<threadState, memoryState, owner, signalState>>

SpuriousWakeup(t) ==
  /\ ended = "no" /\ t \in waiting
  /\ waiting' = waiting \ {t}
  /\ GoOn /\ Fine
  /\ UNCHANGED <<code, threadState, memoryState, owner, signalState>>

-----------------------------------------------------------------------------
(* Memory.  A block that was freed must not be touched nor freed again.     *)
Write(x, v) == mem' = (x :> v) @@ mem

Store(t) ==
  /\ \E op \in {"set", "addto", "multo"} : At(t, op)
  /\ Write(Op(t)[2], CASE Op(t)[1] = "set"   -> Op(t)[3]
                       [] Op(t)[1] = "addto" -> reg[t] + Op(t)[3]
                       [] OTHER              -> reg[t] * Op(t)[3])
  /\ Misuse(t, "freed", Op(t)[2] \in freed)
  /\ reg' = [reg EXCEPT ![t] = 0]
  /\ Continue(t) /\ GoOn
  /\ UNCHANGED <<threadState, heap, freed, out, sched, waitState, signalState>>

Choose(t) ==
  /\ At(t, "choose") /\ \E v \in Op(t)[3] : Write(Op(t)[2], v)
  /\ Continue(t) /\ Fine /\ GoOn
  /\ UNCHANGED <<threadState, reg, heap, freed, out, sched, waitState, signalState>>

Load(t) ==
  /\ At(t, "load")
  /\ reg' = [reg EXCEPT ![t] = Value(Op(t)[2])]
  /\ Misuse(t, "freed", Op(t)[2] \in freed)
  /\ Continue(t) /\ GoOn
  /\ UNCHANGED <<threadState, mem, heap, freed, out, sched, waitState, signalState>>

Emit(t) ==
  /\ At(t, "emit")
  /\ out' = [out EXCEPT ![t] = Append(@, reg[t] + Op(t)[2])]
  /\ reg' = [reg EXCEPT ![t] = 0]
  /\ Continue(t) /\ Fine /\ GoOn
  /\ UNCHANGED <<threadState, mem, heap, freed, sched, waitState, signalState>>

Malloc(t) ==
  /\ At(t, "malloc") /\ heap' = heap \cup {Op(t)[2]}
  /\ Continue(t) /\ Fine /\ GoOn
  /\ UNCHANGED <<threadState, reg, mem, freed, out, sched, waitState, signalState>>

FreeBlock(t) ==
  /\ At(t, "free")
  /\ heap' = heap \ {Op(t)[2]} /\ freed' = freed \cup {Op(t)[2]}
  /\ Misuse(t, "freed", Op(t)[2] \notin heap)
  /\ Continue(t) /\ GoOn
  /\ UNCHANGED <<threadState, reg, mem, out, sched, waitState, signalState>>

\* sched_setattr: id 0 is the thread that calls.
SetAttr(t) ==
  /\ At(t, "sched") /\ sched' = sched \cup {IF reg[t] = 0 THEN t ELSE reg[t]}
  /\ Continue(t) /\ Fine /\ GoOn
  /\ UNCHANGED <<threadState, reg, mem, heap, freed, out, waitState, signalState>>

-----------------------------------------------------------------------------
(* Control.                                                                *)
Branch(t) ==
  /\ \/ At(t, "if") /\ Then(t, IF Value(Op(t)[2]) = Op(t)[3] THEN Op(t)[4] ELSE Op(t)[5])
     \/ At(t, "ifless") /\ Then(t, IF reg[t] < Op(t)[2] THEN Op(t)[3] ELSE Op(t)[4])
     \/ At(t, "either") /\ \E i \in {2, 3} : Then(t, Op(t)[i])
     \/ At(t, "forever") /\ Then(t, Op(t)[2] \o <<Op(t)>>)
     \/ /\ At(t, "until")
        /\ Then(t, Op(t)[3] \o << <<"if", Op(t)[2], 0, <<Op(t)>>, <<>> >> >>)
  /\ Fine /\ GoOn
  /\ UNCHANGED <<threadState, memoryState, waitState, signalState>>

\* Signals are blocked in every thread of the programs that wait for them: one
\* that is sent stays pending, and one more of it is lost.
SendSignal ==
  /\ ended = "no" /\ prog \in {"tsig", "template"}
  /\ \E t \in Tasks : \E i \in DOMAIN code[t] : code[t][i][1] = "forever"
  /\ sent < MaxSignals /\ sent' = sent + 1 /\ pending' = 1
  /\ Fine /\ GoOn
  /\ UNCHANGED <<code, threadState, memoryState, waitState>>

SigWait(t) ==
  /\ At(t, "sigwait") /\ pending = 1 /\ pending' = 0
  /\ Write(Op(t)[2], sent)
  /\ Continue(t) /\ Fine /\ GoOn
  /\ UNCHANGED <<threadState, reg, heap, freed, out, sched, waitState, sent>>

-----------------------------------------------------------------------------
Step(t) ==
  \/ Fatal(t) \/ Try(t) \/ Exit(t) \/ Create(t) \/ Join(t) \/ JoinTimeout(t)
  \/ PthreadExit(t) \/ ActOnCancel(t) \/ Sleep(t) \/ Gone(t) \/ Cleanup(t) \/ Cancel(t)
  \/ Lock(t) \/ Unlock(t) \/ Wait(t) \/ Signal(t)
  \/ Store(t) \/ Choose(t) \/ Load(t) \/ Emit(t) \/ Malloc(t) \/ FreeBlock(t)
  \/ SetAttr(t) \/ Branch(t) \/ SigWait(t)

Next == SendSignal \/ \E t \in Tasks : Step(t) \/ SpuriousWakeup(t)

\* The kernel goes on scheduling every thread that can run, and a thread that
\* asks for a mutex which is let go again and again gets it: the futex behind
\* it queues its waiters.
Spec == Init /\ [][Next]_vars /\ \A t \in Tasks : WF_vars(Step(t)) /\ SF_vars(Lock(t))

-----------------------------------------------------------------------------
(* Properties of the programs.                                             *)
Over == ended = "success"
Workers == Tasks \ {0}
Emitted(t) == {out[t][i] : i \in DOMAIN out[t]}

\* No program touches or frees a block after it was freed, or unlocks a mutex
\* it does not hold, whatever thread is cancelled or late, and in joiner4 also
\* when main leaves before its threads.
NoMisuse == prog # "iobuf_mtx" => bad = {}

\* Nothing is still allocated when a program has ended, but for the parameters
\* of the threads that joiner4 could not join in time (pthreads_joiner4.c:119).
LeftAllocated ==
  Over => CASE prog = "joiner4" -> heap = {<<"arg", i>> : i \in {j \in Workers : state[j] # "joined"}}
            [] prog = "primes2" -> TRUE
            [] OTHER            -> heap = {}

\* A thread sees the parameter that was made for it each time it looks, however
\* far main's creation loop has got (struct_as_param, joiner3, joiner4).
OwnParameter ==
  prog \in {"struct_as_param", "joiner3", "joiner4"} => \A t \in Workers : Emitted(t) \subseteq {t}

\* A thread writes to the file only what it has itself read, in the order in
\* which it read it and none of it twice (mt_iobuf_tls, mt_iobuf_rfct, cleanup_hdlr).
WritesWhatItRead ==
  \A t \in Workers :
    /\ Emitted(t) \subseteq {Chunk(t, r) : r \in 1 .. NUMIO}
    /\ \A i, j \in DOMAIN out[t] : i < j => out[t][i] < out[t][j]
OwnChunks == prog \in {"iobuf_tls", "iobuf_rfct", "cleanup"} => WritesWhatItRead

\* With its lock a program does what its threads would do one after the other:
\* mutex1 prints globals that were incremented equally often, facto prints the
\* factorial of its own number and bankacc closes with the sum of all bookings.
Serial ==
  /\ prog = "mutex1" => \A t \in Workers : Len(out[t]) = 3 =>
                           \E n \in 1 .. 3 : out[t] = <<10 + n, 12 + n, 14 + n>>
  /\ prog = "facto1" => \A t \in {1, 2} : out[t] # <<>> =>
                           out[t] = <<FoldLeft(LAMBDA a, b : a * b, 1, [i \in 1 .. FACTO[t] |-> i])>>
  /\ prog = "bankacc1" /\ out[0] # <<>> => out[0] = <<12000 + 3000 - 250 - 9000 + 1000>>

\* The process of a program that joins its threads, or whose main thread leaves
\* with pthread_exit, does not end before its threads have done their work.
WorkersFinish ==
  Over => CASE prog \in {"pthreads2", "pthreads3", "joiner1", "joiner2"} ->
                 \A t \in Workers : Value(<<"done", t>>) = 1
            [] prog = "cancelit" -> Value(<<"done", 2>>) = 1
            [] OTHER -> TRUE

\* A cancelled thread never stops in the middle of the work for which it had
\* disabled cancellation (cancelit).
NotCutShort ==
  prog = "cancelit" /\ state[1] \in {"done", "joined"} => Value(<<"work", 0>>) # 1

\* Any priority that main's check lets through is one the scheduler has, for
\* both threads (sched_rt_eg).
PriorityInRange ==
  prog = "sched_rt" => \A t \in Workers : Emitted(t) \subseteq SCHED_MIN .. SCHED_MAX

\* The policy that is changed is that of the chosen worker and never that of
\* main, even when the worker has not yet published its id (assgn2).
PolicyOnWorker == prog = "assgn2" => sched \subseteq {Value(<<"thrdnum", 0>>)}

\* Every row of the product is computed, and by one thread (thrd_matrixmul).
RowsOnce ==
  Over /\ prog = "matrixmul" =>
    /\ UNION {Emitted(t) : t \in Workers} = 0 .. ROWS - 1
    /\ Len(out[1]) + Len(out[2]) = ROWS

\* What main shows holds the messages of both the thread and the child, and the
\* mutex they took was initialised once (pshared_mutex_demo).
BothWrote == Over /\ prog = "pshared" => out[0] = <<1, 1>> /\ Value(<<"inits", 0>>) = 1

\* A program in which no thread can go on is one whose threads pause, or the
\* template, whose main thread joins a signal handler thread that never ends.
\* cv_simple is not claimed here: see WorkerAWakes.
Blocked(t) ==
  \/ state[t] # "running" \/ t \in waiting \/ Op(t)[1] = "pause"
  \/ Op(t)[1] = "sigwait" /\ pending = 0
  \/ Op(t)[1] = "lock" /\ owner[Op(t)[2]] # Free
  \/ Op(t)[1] = "join" /\ state[Op(t)[2]] # "done"
Hangs == ended = "no" /\ \A t \in Tasks : Blocked(t)
HangsOnlyWhere ==
  Hangs /\ prog # "cv_simple" =>
    \/ prog \in {"cr8_so_many", "see_tid", "named_threads", "tsig"}
    \/ prog = "template" /\ \A t \in {1, 2} : state[t] = "joined"

\* All programs but these come to an end.  From a state in which thread A of
\* cv_simple waits and the work is still to be done, cv_simple ends as well.
Terminates ==
  /\ prog \notin {"cr8_so_many", "see_tid", "named_threads", "tsig", "template", "cv_simple"}
       ~> ended # "no"
  /\ (prog = "cv_simple" /\ waiting = {1} /\ Value(<<"gWorkDone", 0>>) = 0) ~> ended # "no"

\* Every signal that is sent is taken by the dedicated thread (tsig, template).
SignalsTaken == pending = 1 ~> pending = 0 \/ ended # "no"


\* However the threads are interleaved, they see and write what they would if
\* they ran one after the other.  mt_iobuf_mtx is not claimed: see ThreadSafe.
AsIfSerial == OwnParameter /\ OwnChunks /\ Serial /\ RowsOnce /\ BothWrote

\* Threads are left to finish, are not cut short, and are scheduled as asked.
WorkKept == WorkersFinish /\ NotCutShort /\ PriorityInRange /\ PolicyOnWorker

\* The programs end, wait for a signal as they are meant to or take the next one.
Progress == []HangsOnlyWhere /\ Terminates /\ SignalsTaken

-----------------------------------------------------------------------------
(* Claims of the sources that their code does not keep; no configuration    *)
(* lists them, and the README says how each is refuted.                     *)

\* "we have reworked the function [...] to use a mutex lock in the critical
\* sections, rendering it thread safe" (mt_iobuf_mtx.c:15-16).  Not so: the lock is
\* let go between the read and the write, and a failing fwrite frees the buffer.
ThreadSafe == prog = "iobuf_mtx" => bad = {} /\ WritesWhatItRead

\* "Thread A must wait until thread B completes the 'work'; we use a {CV, mutex}
\* pair to easily and efficiently achieve this" (cv_simple.c:57-59).  Not so: A
\* waits before it looks at gWorkDone, and B may have signalled by then.
WorkerAWakes == prog = "cv_simple" => ~Hangs

\* "to figure whether and which thread was canceled, we keep a global"
\* (mt_primes2.c:37-38).  Not so: its initial 0 is also the number of the first
\* thread, whose primes are not written and whose blocks are not freed when no
\* thread was cancelled.
CancelKnown ==
  Over /\ prog = "primes2" => heap = {} /\ (canceled = {} => Emitted(0) = Workers)
=============================================================================
