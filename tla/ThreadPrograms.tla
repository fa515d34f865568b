--------------------------- MODULE ThreadPrograms ---------------------------
(***************************************************************************)
(* The multithreaded example programs of booksrc (chapters 14 to 17 and    *)
(* the solutions to their assignments), each written as the sequence of    *)
(* the steps its threads take.  Module Threads executes them.              *)
(*                                                                         *)
(* A step is a tuple that starts with its operation:                       *)
(*   try              a call or an argument check whose failure ends the   *)
(*                    process (FATAL, usage)                               *)
(*   create t code    pthread_create; FATAL when it fails                  *)
(*   join t, timedjoin t code     pthread_join; pthread_timedjoin_np, with *)
(*                    the code that follows a join in time                 *)
(*   lock m, unlock m, wait c m, signal c      mutexes, condition variables*)
(*   set x v          a location is given a value                          *)
(*   load x, addto x n, multo x n    a location is read into the thread's  *)
(*                    register, the register plus (times) n is stored      *)
(*   emit n           the register plus n is printed or written to a file  *)
(*   malloc x, free x                                                      *)
(*   if x v a b       a when location x holds v, b otherwise               *)
(*   ifless n a b     a when the register is below n, b otherwise          *)
(*   until x code     code again and again until location x is not 0       *)
(*   either a b       an outcome the program does not control              *)
(*   choose x S       a number from the command line                       *)
(*   sleep, io        a cancellation point, a possible one                 *)
(*   cancel t, cancelstate b, push code, pop   cancellation and its        *)
(*                    handlers (pop is pthread_cleanup_pop(0))             *)
(*   sched            sched_setattr on the id in the register              *)
(*   sigwait x        a blocked signal is taken into location x            *)
(*   forever code, pause                                                   *)
(*   pthread_exit, exit, fatal, crash          ends of a thread or process *)
(*                                                                         *)
(* A definition named after the next one, with a suffix, is a variant of   *)
(* it with one fault, which the runs' properties must notice.              *)
(***************************************************************************)
EXTENDS Integers, Sequences, SequencesExt

\* A for loop over 1 .. n whose body is a sequence of steps.
For(n, Body(_)) == FlattenSeq([i \in 1 .. n |-> Body(i)])

\* A thread that has nothing more to do.
Leave == << <<"pthread_exit">> >>

\* The bounds on what the programs repeat: the rounds of a reader and writer, two
\* where their order is claimed and one where the threads share a buffer, the
\* two arguments of the factorials, the threads that increment the globals, and
\* the rows and cores of the product.
NUMIO == 2
NUMIO_MTX == 1
FACTO == <<2, 3>>
NTHREADS == 2
ROWS == 4
NCORES == 2

-----------------------------------------------------------------------------
(* Chapter 14: creation, joining and parameters.                           *)

CreateJoin(n, worker(_)) ==
  For(n, LAMBDA i : << <<"create", i, worker(i)>> >>)
  \o For(n, LAMBDA i : << <<"join", i>> >>)

CreateOnly(n, worker(_)) == For(n, LAMBDA i : << <<"create", i, worker(i)>> >>)

pthreads1_worker(i) == << <<"set", <<"done", i>>, 1>> >> \o Leave
pthreads1_main == CreateOnly(3, pthreads1_worker) \o << <<"exit">> >>

pthreads2_worker(i) == << <<"set", <<"done", i>>, 1>> >> \o Leave
pthreads2_main == CreateOnly(3, pthreads2_worker) \o Leave

pthreads3_worker(i) == << <<"sleep">>, <<"set", <<"done", i>>, 1>> >> \o Leave
pthreads3_main_exits == CreateOnly(3, pthreads3_worker) \o << <<"exit">> >>
pthreads3_main == CreateOnly(3, pthreads3_worker) \o Leave

cr8_so_many_worker(i) == << <<"pause">> >> \o Leave
cr8_so_many_main == << <<"try">> >> \o CreateOnly(3, cr8_so_many_worker) \o Leave

see_tid_worker(i) == << <<"pause">> >> \o Leave
see_tid_main == << <<"try">> >> \o CreateOnly(3, see_tid_worker) \o Leave

named_threads_worker(i) == << <<"pause">> >> \o Leave
named_threads_main ==
  << <<"try">> >>
  \o For(3, LAMBDA i : << <<"create", i, named_threads_worker(i)>>, <<"try">> >>)
  \o Leave

joiner1_worker(i) == << <<"sleep">>, <<"set", <<"done", i>>, 1>> >> \o Leave
joiner1_main == CreateJoin(3, joiner1_worker) \o Leave

joiner2_worker_polls(i) == << <<"forever", << <<"sleep">> >> >> >>
joiner2_worker(i) == << <<"sleep">>, <<"set", <<"done", i>>, 1>> >> \o Leave
joiner2_main == CreateJoin(3, joiner2_worker) \o Leave

pthread_test_do_nothing == Leave
pthread_test_main ==
  For(3, LAMBDA i : << <<"create", i, pthread_test_do_nothing>>, <<"join", i>> >>)
  \o Leave

\* main's loop counter is what every thread is given the address of.
wrong_worker == << <<"load", <<"i", 0>> >>, <<"emit", 0>> >> \o Leave
wrong_main ==
  For(3, LAMBDA i : << <<"set", <<"i", 0>>, i>>, <<"create", i, wrong_worker>> >>)
  \o << <<"set", <<"i", 0>>, 4>>, <<"sleep">>, <<"exit">> >>

\* A parameter block of its own for each thread, freed after the join.
struct_worker(i) ==
  << <<"load", <<"arg", i>> >>, <<"emit", 0>>, <<"sleep">> >> \o Leave
struct_main_one_block ==
  << <<"malloc", <<"arg", 1>> >> >>
  \o For(3, LAMBDA i : << <<"set", <<"arg", 1>>, i>>, <<"create", i, struct_worker(1)>> >>)
  \o For(3, LAMBDA i : << <<"join", i>> >>) \o << <<"free", <<"arg", 1>> >> >> \o Leave
struct_main ==
  For(3, LAMBDA i : << <<"malloc", <<"arg", i>> >>, <<"set", <<"arg", i>>, i>>,
                       <<"create", i, struct_worker(i)>> >>)
  \o For(3, LAMBDA i : << <<"join", i>>, <<"free", <<"arg", i>> >> >>) \o Leave

\* The worker looks at its parameter again after its sleep.
joiner3_worker(i) ==
  << <<"load", <<"arg", i>> >>, <<"emit", 0>>, <<"sleep">>,
     <<"load", <<"arg", i>> >>, <<"emit", 0>> >> \o Leave
joiner3_main_frees_early ==
  << <<"try">> >>
  \o For(3, LAMBDA i : << <<"malloc", <<"arg", i>> >>, <<"set", <<"arg", i>>, i>>,
                          <<"create", i, joiner3_worker(i)>>, <<"free", <<"arg", i>> >> >>)
  \o For(3, LAMBDA i : << <<"join", i>> >>) \o Leave
joiner3_main ==
  << <<"try">> >>
  \o For(3, LAMBDA i : << <<"malloc", <<"arg", i>> >>, <<"set", <<"arg", i>>, i>>,
                          <<"create", i, joiner3_worker(i)>> >>)
  \o For(3, LAMBDA i : << <<"join", i>>, <<"free", <<"arg", i>> >> >>) \o Leave

joiner4_worker(i) ==
  << <<"load", <<"arg", i>> >>, <<"emit", 0>>, <<"sleep">>,
     <<"load", <<"arg", i>> >>, <<"emit", 0>> >> \o Leave
joiner4_main ==
  << <<"try">> >>
  \o For(3, LAMBDA i : << <<"malloc", <<"arg", i>> >>, <<"set", <<"arg", i>>, i>>,
                          <<"create", i, joiner4_worker(i)>> >>)
  \o For(3, LAMBDA i : << <<"timedjoin", i, << <<"free", <<"arg", i>> >> >> >> >>)
  \o Leave

\* One block for all: the loop overwrites what the threads before were given.
buggy3_worker ==
  << <<"load", <<"arg", 0>> >>, <<"emit", 0>>, <<"sleep">>,
     <<"load", <<"arg", 0>> >>, <<"emit", 0>> >> \o Leave
buggy3_main ==
  << <<"try">>, <<"malloc", <<"arg", 0>> >> >>
  \o For(3, LAMBDA i : << <<"set", <<"arg", 0>>, i>>, <<"create", i, buggy3_worker>> >>)
  \o For(3, LAMBDA i : << <<"join", i>> >>)
  \o << <<"free", <<"arg", 0>> >> >> \o Leave

\* The second thread has two million bytes of locals; the stack of the threads
\* (in KB) is the command line's, 1 MB unless that is positive.
STACK_NEEDED == 1960
danger == << <<"load", <<"stack", 0>> >>,
             <<"ifless", STACK_NEEDED, << <<"crash">> >>, <<>> >> >>
stack_test_worker(i) == (IF i = 2 THEN danger ELSE <<>>) \o Leave
stack_test_main ==
  << <<"choose", <<"stack", 0>>, {-1, 1024, STACK_NEEDED - 1, STACK_NEEDED}>>,
     <<"load", <<"stack", 0>> >>,
     <<"ifless", 1, << <<"set", <<"stack", 0>>, 1024>> >>, <<>> >>, <<"try">> >>
  \o CreateJoin(2, stack_test_worker) \o Leave

\* Thread i multiplies the rows from row[i] on; row[] is not written again.
threadfun(i) ==
  For(ROWS \div NCORES, LAMBDA r :
        << <<"load", <<"row", i>> >>, <<"emit", r - 1>> >>) \o Leave
matrixmul_main_strides ==
  For(NCORES, LAMBDA i : << <<"set", <<"row", i>>, (i - 1) * NCORES - (i - 1)>>,
                            <<"create", i, threadfun(i)>> >>)
  \o For(NCORES, LAMBDA i : << <<"join", i>> >>) \o Leave
matrixmul_main ==
  For(NCORES, LAMBDA i : << <<"set", <<"row", i>>, (i - 1) * (ROWS \div NCORES)>>,
                            <<"create", i, threadfun(i)>> >>)
  \o For(NCORES, LAMBDA i : << <<"join", i>> >>) \o Leave

-----------------------------------------------------------------------------
(* Chapter 15: mutexes and condition variables.                            *)

LOCK_MTX(m) == << <<"lock", m>> >>
UNLOCK_MTX(m) == << <<"unlock", m>> >>
Locked(locking, code) ==
  IF locking THEN LOCK_MTX("mylock") \o code \o UNLOCK_MTX("mylock") ELSE code

\* Each global is read, incremented and written back; the three are printed.
mutex1_worker_prints_late(locking) ==
  Locked(locking,
         For(3, LAMBDA g : << <<"load", <<"g", g>> >>, <<"addto", <<"g", g>>, 1>> >>))
  \o For(3, LAMBDA g : << <<"load", <<"g", g>> >>, <<"emit", 0>> >>) \o Leave
mutex1_worker(locking) ==
  Locked(locking,
         For(3, LAMBDA g : << <<"load", <<"g", g>> >>, <<"addto", <<"g", g>>, 1>> >>)
         \o For(3, LAMBDA g : << <<"load", <<"g", g>> >>, <<"emit", 0>> >>))
  \o Leave
mutex1_main(locking) ==
  << <<"try">>, <<"set", <<"g", 1>>, 10>>, <<"set", <<"g", 2>>, 12>>,
     <<"set", <<"g", 3>>, 14>> >>
  \o CreateJoin(NTHREADS, LAMBDA i : mutex1_worker(locking)) \o Leave

factorize(num) ==
  << <<"set", <<"gFactorial", 0>>, 1>> >>
  \o For(num, LAMBDA i : << <<"load", <<"gFactorial", 0>> >>,
                            <<"multo", <<"gFactorial", 0>>, i>> >>)
facto_worker(locking, i) ==
  Locked(locking, factorize(FACTO[i])
                  \o << <<"load", <<"gFactorial", 0>> >>, <<"emit", 0>> >>)
  \o Leave
facto_main(locking) ==
  << <<"try">> >> \o CreateJoin(2, LAMBDA i : facto_worker(locking, i)) \o Leave

MinCredit == 500
deposit(amt) == << <<"load", <<"gBalance", 0>> >>, <<"addto", <<"gBalance", 0>>, amt>> >>
withdraw(amt) ==
  << <<"load", <<"gBalance", 0>> >>,
     <<"ifless", MinCredit + amt, <<>>,
       << <<"load", <<"gBalance", 0>> >>, <<"addto", <<"gBalance", 0>>, -amt>> >> >> >>
bankacc_worker_keeps(locking, i) ==
  (IF locking THEN LOCK_MTX("mylock") ELSE <<>>)
  \o (IF i = 1 THEN deposit(3000) \o withdraw(250) ELSE withdraw(9000) \o deposit(1000)) \o Leave
bankacc_worker(locking, i) ==
  Locked(locking, IF i = 1 THEN deposit(3000) \o withdraw(250)
                           ELSE withdraw(9000) \o deposit(1000)) \o Leave
bankacc_main(locking) ==
  << <<"try">>, <<"set", <<"gBalance", 0>>, 12000>> >>
  \o CreateJoin(2, LAMBDA i : bankacc_worker(locking, i))
  \o << <<"load", <<"gBalance", 0>> >>, <<"emit", 0>> >> \o Leave

\* Thread B does its work and tells A; A waits before it looks at the flag.
workerB ==
  << <<"sleep">> >> \o LOCK_MTX("mycv_mutex")
  \o << <<"set", <<"gWorkDone", 0>>, 1>>, <<"signal", "mycv">> >>
  \o UNLOCK_MTX("mycv_mutex") \o Leave
workerA ==
  LOCK_MTX("mycv_mutex")
  \o << <<"until", <<"gWorkDone", 0>>, << <<"wait", "mycv", "mycv_mutex">> >> >> >>
  \o UNLOCK_MTX("mycv_mutex") \o << <<"set", <<"done", 1>>, 1>> >> \o Leave
cv_simple_main ==
  << <<"try">> >> \o CreateJoin(2, LAMBDA i : IF i = 1 THEN workerA ELSE workerB)
  \o << <<"exit">> >>

\* The worker thread and the forked child, here both tasks that share the
\* memory segments, write under the mutex that lies in one of them.
pshared_worker ==
  << <<"sleep">> >> \o LOCK_MTX("shmtx")
  \o << <<"set", <<"gshmbuf", 1>>, 1>> >> \o UNLOCK_MTX("shmtx") \o Leave
init_mutex == << <<"try">>, <<"load", <<"inits", 0>> >>, <<"addto", <<"inits", 0>>, 1>> >>
pthread_once(code) ==
  << <<"if", <<"once", 0>>, 1, <<>>, << <<"set", <<"once", 0>>, 1>> >> \o code>> >>
shmem_setup(x) == << <<"try">>, <<"malloc", x>>, <<"try">> >>
pshared_child ==
  pthread_once(init_mutex) \o << <<"sleep">> >> \o LOCK_MTX("shmtx")
  \o << <<"set", <<"gshmbuf", 2>>, 1>> >> \o UNLOCK_MTX("shmtx") \o Leave
pshared_main_no_join ==
  shmem_setup(<<"gshm", 0>>) \o shmem_setup(<<"gshmbuf", 0>>) \o pthread_once(init_mutex)
  \o << <<"create", 1, pshared_worker>>, <<"create", 2, pshared_child>>, <<"join", 2>>,
        <<"load", <<"gshmbuf", 1>> >>, <<"emit", 0>>, <<"load", <<"gshmbuf", 2>> >>, <<"emit", 0>>,
        <<"free", <<"gshm", 0>> >>, <<"free", <<"gshmbuf", 0>> >> >> \o Leave
pshared_main ==
  shmem_setup(<<"gshm", 0>>) \o shmem_setup(<<"gshmbuf", 0>>)
  \o pthread_once(init_mutex)
  \o << <<"create", 1, pshared_worker>>, <<"create", 2, pshared_child>>,
        <<"join", 2>>, <<"join", 1>>,
        <<"load", <<"gshmbuf", 1>> >>, <<"emit", 0>>,
        <<"load", <<"gshmbuf", 2>> >>, <<"emit", 0>>,
        <<"free", <<"gshm", 0>> >>, <<"free", <<"gshmbuf", 0>> >> >> \o Leave

-----------------------------------------------------------------------------
(* Chapters 16 and 17: thread safety, cancellation, signals, scheduling.    *)

\* What thread i reads in round r, and the parameters the threads are given.
Chunk(i, r) == 10 * i + r
GiveParameters(n, Prepare(_), worker(_)) ==
  For(n, LAMBDA i : << <<"malloc", <<"ToThread", i>> >> >> \o Prepare(i)
                    \o << <<"create", i, worker(i)>> >>)
JoinAndFree(n) ==
  For(n, LAMBDA i : << <<"join", i>>, <<"free", <<"ToThread", i>> >> >>)
Nothing(i) == <<>>

\* After a failing fwrite: the stream's end is seen, its error, or neither, and
\* then the round goes on.
FailedWrite(eof, error) == << <<"either", eof, << <<"either", error, <<>> >> >> >> >>

\* The buffer is global: read under the lock, written under the lock, with the
\* lock let go in between.  A failing fwrite frees the buffer and lets the lock
\* go; a thread that then does not leave lets it go once more and carries on.
testit_mt_mtx(i) ==
  For(NUMIO_MTX, LAMBDA r :
    LOCK_MTX("mylock") \o << <<"set", <<"gbuf", 0>>, Chunk(i, r)>> >>
    \o UNLOCK_MTX("mylock") \o << <<"try">> >> \o LOCK_MTX("mylock")
    \o << <<"load", <<"gbuf", 0>> >>,
          <<"either", << <<"emit", 0>> >>,
                      << <<"free", <<"gbuf", 0>> >> >> \o UNLOCK_MTX("mylock")
                      \o FailedWrite(Leave, << <<"fatal">> >>)>> >>
    \o UNLOCK_MTX("mylock"))
iobuf_mtx_wrapper(i) == testit_mt_mtx(i) \o Leave
iobuf_mtx_main ==
  << <<"try">>, <<"malloc", <<"gbuf", 0>> >>, <<"try">> >>
  \o GiveParameters(2, Nothing, iobuf_mtx_wrapper) \o JoinAndFree(2)
  \o << <<"free", <<"gbuf", 0>> >> >> \o Leave

\* The same with a thread-local buffer, and with one that is allocated.
testit_mt_static(i) ==
  << <<"set", <<"iobuf", 0>>, Chunk(i, 1)>>, <<"try">>, <<"load", <<"iobuf", 0>> >>, <<"emit", 0>> >>
testit_mt_tls(i) ==
  For(NUMIO, LAMBDA r :
    << <<"set", <<"iobuf", i>>, Chunk(i, r)>>, <<"try">>, <<"load", <<"iobuf", i>> >>,
       <<"either", << <<"emit", 0>> >>, FailedWrite(Leave, << <<"fatal">> >>)>> >>)
iobuf_tls_wrapper(i) == testit_mt_tls(i) \o Leave
iobuf_tls_main ==
  << <<"try">> >> \o GiveParameters(2, Nothing, iobuf_tls_wrapper) \o JoinAndFree(2)
  \o Leave

\* One that returns early goes on with the rest of its wrapper.
testit_mt_refactored(i, return) ==
  For(NUMIO, LAMBDA r :
    << <<"io">>, <<"set", <<"iobuf", i>>, Chunk(i, r)>>, <<"try">>, <<"io">>,
       <<"load", <<"iobuf", i>> >>,
       <<"either", << <<"emit", 0>> >>,
                   FailedWrite(return, << <<"free", <<"iobuf", i>> >>, <<"fatal">> >>)>> >>)
iobuf_rfct_rest(i) == << <<"free", <<"iobuf", i>> >> >> \o Leave
iobuf_rfct_wrapper(i) ==
  << <<"malloc", <<"iobuf", i>> >> >> \o testit_mt_refactored(i, iobuf_rfct_rest(i))
  \o iobuf_rfct_rest(i)
iobuf_rfct_main ==
  << <<"try">> >> \o GiveParameters(2, Nothing, iobuf_rfct_wrapper) \o JoinAndFree(2)
  \o Leave

cleanup_testit(i, return) ==
  For(NUMIO, LAMBDA r :
    << <<"io">>, <<"set", <<"iobuf", i>>, Chunk(i, r)>>, <<"try">>, <<"io">>,
       <<"load", <<"iobuf", i>> >>,
       <<"either", << <<"emit", 0>> >>,
                   FailedWrite(return, << <<"free", <<"iobuf", i>> >>, <<"fatal">> >>)>> >>)
cleanup_handler(i) == << <<"free", <<"iobuf", i>> >> >>
cleanup_rest(i) == << <<"pop">>, <<"free", <<"iobuf", i>> >> >> \o Leave
cleanup_wrapper(i) ==
  << <<"malloc", <<"iobuf", i>> >>, <<"push", cleanup_handler(i)>> >>
  \o cleanup_testit(i, cleanup_rest(i)) \o cleanup_rest(i)
cleanup_main ==
  << <<"try">> >> \o GiveParameters(2, Nothing, cleanup_wrapper)
  \o << <<"either", << <<"cancel", 1>> >>, <<>> >> >> \o JoinAndFree(2) \o Leave

\* Thread A cannot be cancelled while it does its work.
cancelit_worker_exposed(i) ==
  (IF i = 1 THEN << <<"set", <<"work", 0>>, 1>>, <<"sleep">>, <<"set", <<"work", 0>>, 2>> >> ELSE <<>>)
  \o << <<"sleep">>, <<"set", <<"done", i>>, 1>> >> \o Leave
cancelit_worker(i) ==
  (IF i = 1 THEN << <<"io">>, <<"cancelstate", FALSE>>, <<"set", <<"work", 0>>, 1>>, <<"sleep">>,
                    <<"set", <<"work", 0>>, 2>>, <<"cancelstate", TRUE>> >> ELSE <<>>)
  \o << <<"sleep">>, <<"set", <<"done", i>>, 1>> >> \o Leave
cancelit_main ==
  For(2, LAMBDA i : << <<"create", i, cancelit_worker(i)>> >>)
  \o << <<"cancel", 1>>, <<"join", 1>>, <<"join", 2>> >> \o Leave

\* All signals are blocked in every thread; one thread takes them.
tsig_signal_handler_once == << <<"sigwait", <<"sig", 0>> >> >> \o Leave
tsig_signal_handler == << <<"forever", << <<"sigwait", <<"sig", 0>> >> >> >> >>
tsig_work(i) == << <<"set", <<"done", i>>, 1>> >> \o Leave
tsig_main ==
  << <<"try">>, <<"create", 3, tsig_signal_handler>> >> \o CreateOnly(2, tsig_work)
  \o << <<"forever", << <<"pause">> >> >> >>

template_cleanup_handler(i) == << <<"set", <<"cleaned", i>>, 1>> >>
template_worker(i) ==
  << <<"push", template_cleanup_handler(i)>>, <<"load", <<"ToThread", i>> >>,
     <<"pop">> >> \o Leave
template_signal_handler ==
  << <<"forever",
       << <<"try">>, <<"sigwait", <<"sig", 0>> >>, <<"lock", "sig_mutex">>,
          <<"load", <<"sig", 0>> >>, <<"addto", <<"signal_handled", 0>>, 0>>,
          <<"unlock", "sig_mutex">> >> >> >>
template_main ==
  << <<"try">>, <<"create", 3, template_signal_handler>> >>
  \o GiveParameters(2, Nothing, template_worker) \o JoinAndFree(2)
  \o << <<"join", 3>> >> \o Leave

\* Every thread has a buffer for its primes, which main frees after the join.
simple_primegen(i) == << <<"set", <<"iobuf", i>>, i>> >>
primes1_worker(i) == simple_primegen(i) \o Leave
primes1_main ==
  GiveParameters(3, LAMBDA i : << <<"malloc", <<"iobuf", i>> >> >>, primes1_worker)
  \o For(3, LAMBDA i : << <<"join", i>>, <<"free", <<"iobuf", i>> >>,
                          <<"free", <<"ToThread", i>> >> >>)
  \o Leave

\* The third thread may be cancelled; its handler frees what it was given.
\* Threads are counted from 0 in gCanceledThread, which is 0 at the start.
primes2_primegen(i) == << <<"set", <<"iobuf", i>>, i>> >>
primes2_cleanup_handler(i) ==
  LOCK_MTX("mylock") \o << <<"set", <<"gCanceledThread", 0>>, i - 1>> >>
  \o UNLOCK_MTX("mylock")
  \o << <<"free", <<"iobuf", i>> >>, <<"free", <<"ToThread", i>> >> >>
primes2_worker(i) ==
  << <<"push", primes2_cleanup_handler(i)>>, <<"load", <<"ToThread", i>> >> >>
  \o (IF i = 3 THEN << <<"sleep">> >> ELSE <<>>)
  \o primes2_primegen(i) \o << <<"io">>, <<"load", <<"iobuf", i>> >>, <<"io">>, <<"pop">> >>
  \o Leave
UnlessCanceled(i, code) == << <<"if", <<"gCanceledThread", 0>>, i - 1, <<>>, code>> >>
write_the_primes ==
  For(3, LAMBDA i : UnlessCanceled(i, << <<"load", <<"iobuf", i>> >>, <<"emit", 0>> >>))
primes2_main ==
  << <<"try">> >>
  \o GiveParameters(3, LAMBDA i : << <<"malloc", <<"iobuf", i>> >> >>, primes2_worker)
  \o << <<"either", << <<"cancel", 3>> >>, <<>> >> >>
  \o For(3, LAMBDA i : << <<"join", i>> >>) \o write_the_primes
  \o For(3, LAMBDA i : UnlessCanceled(i, << <<"free", <<"iobuf", i>> >>,
                                            <<"free", <<"ToThread", i>> >> >>))
  \o Leave

\* A realtime priority, and one ten higher for the second thread.
SCHED_MIN == 1
SCHED_MAX == 99
rt_worker1 == << <<"load", <<"rt_prio", 0>> >>, <<"emit", 0>>, <<"sleep">> >> \o Leave
rt_worker2 == << <<"load", <<"rt_prio", 0>> >>, <<"emit", 10>>, <<"sleep">> >> \o Leave
sched_rt_main_to_max ==
  << <<"choose", <<"rt_prio", 0>>, {0, 1, 89, 90}>>, <<"load", <<"rt_prio", 0>> >>,
     <<"ifless", SCHED_MIN, << <<"fatal">> >>, <<>> >>,
     <<"ifless", SCHED_MAX + 1, <<>>, << <<"fatal">> >> >>,
     <<"create", 1, rt_worker1>>, <<"create", 2, rt_worker2>> >> \o Leave
sched_rt_main ==
  << <<"choose", <<"rt_prio", 0>>, {0, 1, 89, 90}>>, <<"load", <<"rt_prio", 0>> >>,
     <<"ifless", SCHED_MIN, << <<"fatal">> >>, <<>> >>,
     <<"ifless", SCHED_MAX - 10 + 1, <<>>, << <<"fatal">> >> >>,
     <<"create", 1, rt_worker1>>, <<"create", 2, rt_worker2>> >> \o Leave

\* A worker publishes its kernel id; main changes the policy of the chosen one.
assgn2_worker(i) ==
  << <<"set", <<"tpid", i>>, i>>, <<"push", <<>> >>, <<"sleep">>, <<"pop">> >> \o Leave
set_sched_unguarded(i) == << <<"load", <<"tpid", i>> >>, <<"sched">> >>
set_sched(i) ==
  << <<"if", <<"tpid", i>>, 0, <<>>,
       << <<"load", <<"tpid", i>> >>, <<"sched">> >> >> >>
change_sched_policy_prio(i) ==
  << <<"load", <<"tpid", i>> >>, <<"if", <<"thrdnum", 0>>, i, set_sched(i), <<>> >> >>
assgn2_main ==
  << <<"try">>, <<"choose", <<"thrdnum", 0>>, {1, 2}>> >>
  \o GiveParameters(2, Nothing, assgn2_worker) \o << <<"sleep">> >>
  \o For(2, change_sched_policy_prio) \o JoinAndFree(2) \o Leave

-----------------------------------------------------------------------------
(* The programs by name; 0 and 1 are those run without and with the lock.   *)
ProgramCode ==
  [ pthreads1 |-> pthreads1_main, pthreads2 |-> pthreads2_main,
    pthreads3 |-> pthreads3_main, cr8_so_many |-> cr8_so_many_main,
    see_tid |-> see_tid_main, named_threads |-> named_threads_main,
    joiner1 |-> joiner1_main, joiner2 |-> joiner2_main, joiner3 |-> joiner3_main,
    joiner4 |-> joiner4_main, buggy3 |-> buggy3_main, pthread_test |-> pthread_test_main,
    wrong |-> wrong_main, struct_as_param |-> struct_main, stack_test |-> stack_test_main,
    matrixmul |-> matrixmul_main, mutex0 |-> mutex1_main(FALSE),
    mutex1 |-> mutex1_main(TRUE), facto0 |-> facto_main(FALSE), facto1 |-> facto_main(TRUE),
    bankacc0 |-> bankacc_main(FALSE), bankacc1 |-> bankacc_main(TRUE),
    cv_simple |-> cv_simple_main, pshared |-> pshared_main, iobuf_mtx |-> iobuf_mtx_main,
    iobuf_tls |-> iobuf_tls_main, iobuf_rfct |-> iobuf_rfct_main, cleanup |-> cleanup_main,
    cancelit |-> cancelit_main, tsig |-> tsig_main, template |-> template_main,
    primes1 |-> primes1_main, primes2 |-> primes2_main, sched_rt |-> sched_rt_main,
    assgn2 |-> assgn2_main ]
=============================================================================
