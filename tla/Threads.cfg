SPECIFICATION Spec
CONSTANTS
  MaxSignals = 2
  Programs = {"pthreads1","pthreads2","pthreads3","cr8_so_many","see_tid","named_threads","joiner1","joiner2","joiner3","joiner4","buggy3","pthread_test","wrong","struct_as_param","stack_test","matrixmul","mutex0","mutex1","facto0","facto1","bankacc0","bankacc1","cv_simple","pshared","iobuf_mtx","iobuf_tls","iobuf_rfct","cleanup","cancelit","tsig","template","primes1","primes2","sched_rt","assgn2"}
INVARIANTS  AsIfSerial WorkKept
PROPERTIES Progress
CHECK_DEADLOCK FALSE
