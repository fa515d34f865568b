-------------------------- MODULE SignalPrograms ---------------------------
(***************************************************************************)
(* The example programs of booksrc about signals and timers (chapters 11,  *)
(* 12, 13, their solutions, the signal set-up of chapter 16's template and *)
(* the helpers of common.c), each written as the steps the process takes.  *)
(* Module Signals executes them and sends them signals.                    *)
(*                                                                         *)
(* A step is a tuple that starts with its operation:                       *)
(*   try              a call or an argument check whose failure ends the   *)
(*                    process (FATAL, usage)                               *)
(*   catch g c B      sigaction: c handles g, and B is blocked meanwhile   *)
(*   default g, block B, raise g                                           *)
(*   fault g          an instruction that the kernel answers with g        *)
(*   arm g n r        a timer sends g after n, and again when r            *)
(*   set x v, copy y x, negate x     the variables of the program          *)
(*   add x            x++, which loads and then stores                     *)
(*   stamp x          the time is taken                                    *)
(*   if x n c d       c when x is at least n and otherwise d               *)
(*   sleep c again    asleep for req units; interrupted, rem is what is    *)
(*                    left, c follows and, if again, the sleep once more   *)
(*   nap              work, or a sleep whose length does not matter        *)
(*   pause            until a handler has run                              *)
(*   sigwait B        takes a signal of B                                  *)
(*   timedwait B c    takes one in time or goes on with c                  *)
(*   either c d       an outcome the program does not control              *)
(*   forever c, choose x S, exit, fatal, abort                             *)
(*                                                                         *)
(* A definition named after the next one, with a suffix, is a variant of   *)
(* it with one fault, which the runs' properties must notice.              *)
(***************************************************************************)
EXTENDS Integers, Sequences

\* Bounds: the counter's limit in the handlers (9 or 10 in the source), and the
\* units of time that a program sleeps.
MAX == 3
NSEC == 2

RealTime == {"SIGRTMIN", "SIGRTMIN+5", "SIGRTMAX-5", "SIGRTMAX"}
CpuTimers == {"SIGVTALRM", "SIGPROF"}
Dumping == {"SIGQUIT", "SIGSEGV", "SIGFPE", "SIGABRT", "SIGBUS", "SIGILL"}
All == RealTime \cup CpuTimers \cup Dumping
         \cup {"SIGHUP", "SIGINT", "SIGUSR1", "SIGUSR2", "SIGALRM"}

Trap(sig, handler) == << <<"try">>, <<"catch", sig, handler, {sig}>> >>
TrapAlone(sig, handler) == << <<"try">>, <<"catch", sig, handler, All>> >>
TrapNoDefer(sig, handler) == << <<"try">>, <<"catch", sig, handler, {}>> >>
Forever(steps) == << <<"forever", steps>> >>
Pauses == Forever(<< <<"pause">> >>)
Naps == Forever(<< <<"nap">> >>)
Exit == << <<"exit">> >>
FATAL == << <<"fatal">> >>

-----------------------------------------------------------------------------
(* common.c                                                                *)
nanosleep_loop(between) == << <<"sleep", between, TRUE>> >>
\* It returns at once when nanosleep fails for another reason than a signal.
r_sleep ==
  << <<"set", "req", NSEC>>,
     <<"either", nanosleep_loop(<< <<"copy", "req", "rem">> >>), <<>> >> >>
show_blocked_signals == << <<"nap">> >>

-----------------------------------------------------------------------------
(* Chapter 11 and its solutions.                                           *)
sig1_main == Naps
sig2_siggy == << <<"nap">> >>
sig2_main == Trap("SIGINT", sig2_siggy) \o Trap("SIGQUIT", sig2_siggy) \o Naps

my_handler == show_blocked_signals \o << <<"try">>, <<"nap">> >>
query_mask_main_open == Trap("SIGINT", my_handler) \o Trap("SIGQUIT", my_handler) \o Naps
query_mask_main == TrapAlone("SIGINT", my_handler) \o TrapAlone("SIGQUIT", my_handler) \o Naps

donthup_siggy == << <<"nap">> >>
donthup_main_no_hup ==
  Trap("SIGINT", donthup_siggy) \o Trap("SIGQUIT", donthup_siggy) \o Naps
donthup_main ==
  Trap("SIGHUP", donthup_siggy) \o Trap("SIGINT", donthup_siggy)
  \o Trap("SIGQUIT", donthup_siggy) \o Naps

\* s++; t++; if (s >= MAX) s = 1; and s is shown.
count_to_max == << <<"add", "s">>, <<"add", "t">>, <<"if", "s", MAX + 1, << <<"set", "s", 1>> >>, <<>> >>,
                   <<"copy", "saved", "s">>, <<"nap">> >>
count_misses == << <<"add", "s">>, <<"if", "s", MAX, << <<"set", "s", 1>> >>, << <<"add", "t">> >> >>,
                   <<"copy", "saved", "s">>, <<"nap">> >>
count == << <<"add", "s">>, <<"add", "t">>, <<"if", "s", MAX, << <<"set", "s", 1>> >>, <<>> >>,
            <<"copy", "saved", "s">>, <<"nap">> >>

defer_or_not_sighdlr == << <<"nap">> >> \o count
defer_or_not_1_main == << <<"try">> >> \o Trap("SIGUSR1", defer_or_not_sighdlr) \o Pauses
defer_or_not_2_main == << <<"try">> >> \o TrapNoDefer("SIGUSR1", defer_or_not_sighdlr) \o Pauses

setup_altsigstack == << <<"try">>, <<"try">> >>
altstack_sighdlr(sig) ==
  CASE sig = "SIGUSR1" -> count
    [] sig = "SIGUSR2" -> << <<"nap">> >>
    [] sig = "SIGSEGV" -> << <<"abort">> >>
altstack_main ==
  << <<"try">> >> \o setup_altsigstack \o TrapNoDefer("SIGUSR1", altstack_sighdlr("SIGUSR1"))
  \o Trap("SIGUSR2", altstack_sighdlr("SIGUSR2"))
  \o Trap("SIGSEGV", altstack_sighdlr("SIGSEGV")) \o Pauses

\* atomic_A sends SIGUSR1 when it is done; atomic_B polls the flag.
handle_sigs == << <<"set", "gFlag", 1>> >>
poll_flag == << <<"copy", "shown", "gFlag">>, <<"nap">> >>
atomic_B_main_once == Trap("SIGUSR1", handle_sigs) \o poll_flag \o Pauses
atomic_B_main == Trap("SIGUSR1", handle_sigs) \o Forever(poll_flag)

-----------------------------------------------------------------------------
(* Chapter 12 and its solutions.                                           *)
rt_sighdlr == << <<"nap">> >> \o count
rtsigs_waiter_main == TrapAlone("SIGRTMAX-5", rt_sighdlr) \o TrapAlone("SIGRTMIN+5", rt_sighdlr)
                      \o TrapAlone("SIGRTMAX", rt_sighdlr) \o Pauses

sleeping_handler == << <<"nap">> >>
sleeping_init == << <<"try">> >> \o Trap("SIGINT", sleeping_handler)
                 \o Trap("SIGQUIT", sleeping_handler) \o << <<"set", "req", NSEC>> >>
sleeping_beauty_0_main == sleeping_init \o << <<"sleep", <<>>, FALSE>> >> \o Exit
sleeping_beauty_1_main_same_req == sleeping_init \o nanosleep_loop(<<>>) \o Exit
sleeping_beauty_1_main == sleeping_init \o nanosleep_loop(<< <<"copy", "req", "rem">> >>) \o Exit

\* The parts of a message are stored one by one and read one by one.
read_msg_no_flag == << <<"copy", "pid", "si">>, <<"copy", "data", "si">> >>
read_msg == << <<"copy", "pid", "si">>, <<"copy", "data", "si">>, <<"set", "data_recvd", 1>> >>
display_recv_data == << <<"copy", "shownpid", "pid">>, <<"copy", "shown", "data">> >>
sigq_recv_main ==
  TrapAlone("SIGRTMIN", read_msg)
  \o Forever(r_sleep \o << <<"if", "data_recvd", 1,
                             display_recv_data \o << <<"set", "data_recvd", 0>> >>, <<>> >> >>)

sigwt_siggy == << <<"nap">> >>
sigwt_0_main == << <<"try">>, <<"try">>, <<"block", All>> >> \o show_blocked_signals
                \o Forever(<< <<"sigwait", All>>, <<"nap">> >>)
sigwt_1_set == All \ {"SIGFPE", "SIGSEGV"}
sigwt_1_main_once ==
  << <<"try">> >> \o Trap("SIGFPE", sigwt_siggy) \o << <<"try">>, <<"block", sigwt_1_set>> >>
  \o show_blocked_signals \o << <<"sigwait", sigwt_1_set>> >> \o Naps
sigwt_1_main ==
  << <<"try">> >> \o Trap("SIGFPE", sigwt_siggy) \o << <<"try">>, <<"block", sigwt_1_set>> >>
  \o show_blocked_signals \o Forever(<< <<"sigwait", sigwt_1_set>>, <<"nap">> >>)

\* The handler of a fatal signal restores the default and raises it again.
myfault_keeps_handler == << <<"nap">>, <<"raise", "SIGSEGV">> >>
myfault == << <<"nap">>, <<"try">>, <<"default", "SIGSEGV">>, <<"raise", "SIGSEGV">> >>
handle_segv_setup_altsigstack == << <<"try">>, <<"try">> >>
handle_segv_main ==
  << <<"try">> >> \o handle_segv_setup_altsigstack \o Trap("SIGSEGV", myfault)
  \o << <<"choose", "bug", {0, 1}>>, <<"if", "bug", 1, << <<"fault", "SIGSEGV">> >>, <<>> >> >> \o Exit

sigtmwtinfo_fatal_sig_handler(sig) == IF sig = "SIGSEGV" THEN myfault ELSE <<>>
buggy == << <<"fault", "SIGSEGV">> >>
sigtmwtinfo_main(timeout) ==
  << <<"try">> >> \o Trap("SIGSEGV", sigtmwtinfo_fatal_sig_handler("SIGSEGV"))
  \o Trap("SIGFPE", sigtmwtinfo_fatal_sig_handler("SIGFPE"))
  \o << <<"try">>, <<"block", sigwt_1_set>> >> \o show_blocked_signals
  \o Forever(<< <<"timedwait", sigwt_1_set, timeout>> >>)

segv_altstack_sighdlr(sig) == IF sig = "SIGUSR1" THEN count ELSE << <<"nap">> >>
segv_altstack_fatal_sig_handler ==
  << <<"nap">>, <<"try">>, <<"default", "SIGSEGV">>, <<"raise", "SIGSEGV">> >>
segv_altstack_setup == << <<"try">>, <<"try">> >>
signal_init ==
  segv_altstack_setup \o TrapNoDefer("SIGUSR1", segv_altstack_sighdlr("SIGUSR1"))
  \o TrapAlone("SIGUSR2", segv_altstack_sighdlr("SIGUSR2"))
  \o TrapAlone("SIGSEGV", segv_altstack_fatal_sig_handler)
segv_altstack_main == << <<"try">> >> \o signal_init \o Pauses

-----------------------------------------------------------------------------
(* Chapter 16's template: what main sets up before it creates threads.     *)
Synchronous == {"SIGSEGV", "SIGBUS", "SIGABRT", "SIGFPE", "SIGILL"}
fatal_sigs_handler ==
  << <<"nap">>, <<"default", "SIGSEGV">>, <<"raise", "SIGSEGV">>, <<"fatal">> >>
template_altsigstack == << <<"try">>, <<"try">> >>
init_signal_handling_for_mt ==
  << <<"try">>, <<"block", All \ Synchronous>> >> \o template_altsigstack
  \o Trap("SIGSEGV", fatal_sigs_handler) \o Trap("SIGBUS", fatal_sigs_handler)
  \o Trap("SIGABRT", fatal_sigs_handler) \o Trap("SIGFPE", fatal_sigs_handler)
  \o Trap("SIGILL", fatal_sigs_handler)
template_main == init_signal_handling_for_mt \o Naps

-----------------------------------------------------------------------------
(* Chapter 13 and its solution: timers.                                    *)
alarm(n) == << <<"arm", "SIGALRM", n, FALSE>> >>
setitimer(sig) == << <<"try">>, <<"arm", sig, 1, TRUE>> >>

alarm1_handler == << <<"nap">> >>
alarm1_main == << <<"try">> >> \o Trap("SIGALRM", alarm1_handler) \o alarm(1)
               \o << <<"nap">>, <<"pause">> >> \o Exit
alarm2_handler == << <<"nap">> >>
alarm2_rep_init == << <<"try">> >> \o Trap("SIGALRM", alarm2_handler) \o alarm(1) \o << <<"nap">> >>
alarm2_rep_main_not_again == alarm2_rep_init \o Forever(<< <<"pause">>, <<"nap">> >>)
alarm2_rep_main == alarm2_rep_init \o Forever(<< <<"pause">> >> \o alarm(1) \o << <<"nap">> >>)

ticktock == << <<"try">>, <<"try">>, <<"nap">> >>
intv_clksimple_main == << <<"try">> >> \o TrapAlone("SIGALRM", ticktock) \o setitimer("SIGALRM") \o Pauses

intv3_ticktock == << <<"try">>, <<"nap">> >>
virtalrm == << <<"nap">> >>
profalrm == << <<"nap">> >>
intv3_traps == TrapAlone("SIGALRM", intv3_ticktock) \o TrapAlone("SIGVTALRM", virtalrm)
               \o TrapAlone("SIGPROF", profalrm)
intv3_loop == Forever(<< <<"nap">>, <<"pause">> >>)
intv3_main_cpu_only == intv3_traps \o setitimer("SIGVTALRM") \o setitimer("SIGPROF") \o intv3_loop
intv3_main ==
  intv3_traps \o setitimer("SIGALRM") \o setitimer("SIGVTALRM") \o setitimer("SIGPROF") \o intv3_loop

\* type is 0 to run and 1 to walk; the one-shot timer is armed for the part
\* that begins, 1 for a run and 2 for a walk.
settime(n) == << <<"try">>, <<"arm", "SIGRTMIN", n, FALSE>> >>
its_time_toggles_first ==
  << <<"nap">>, <<"negate", "type">>, <<"if", "type", 1, settime(1), settime(2)>> >>
its_time ==
  << <<"nap">>, <<"if", "type", 1, << <<"negate", "type">> >> \o settime(1),
                               << <<"negate", "type">> >> \o settime(2)>> >>
bye == << <<"nap">>, <<"exit">> >>
runwalk_timer_init_and_arm == TrapAlone("SIGRTMIN", its_time) \o << <<"set", "type", 0>>, <<"try">> >> \o settime(1)
runwalk_timer_main ==
  << <<"try">> >> \o Trap("SIGINT", bye) \o << <<"try">>, <<"choose", "verbose", {0, 1}>> >>
  \o runwalk_timer_init_and_arm
  \o Forever(<< <<"if", "verbose", 1, << <<"nap">> >>, << <<"pause">> >> >> >>)

\* react: the user is to press ^C (SIGINT) after SIGALRM and not before it.
\* c counts the timer's expiries; only whether there was one matters.
timer_handler == << <<"set", "c", 1>>, <<"nap">> >>
userpress ==
  << <<"stamp", "tm_end">>, <<"if", "jumped_the_gun", 1, FATAL, <<>> >>,
     <<"if", "first_time", 1,
        << <<"if", "c", 1, << <<"copy", "start", "tm_start">>, <<"copy", "end", "tm_end">> >>, <<>> >>,
           <<"set", "first_time", 0>> >>, <<>> >>,
     <<"set", "c", 0>>, <<"exit">> >>
arm_timer == << <<"try">>, <<"arm", "SIGRTMIN", 1, TRUE>>, <<"set", "jumped_the_gun", 0>> >>
startoff_no_stamp == arm_timer \o << <<"nap">> >>
startoff == arm_timer \o << <<"nap">>, <<"stamp", "tm_start">> >>
react_init == Trap("SIGRTMIN", timer_handler) \o Trap("SIGINT", userpress) \o Trap("SIGALRM", startoff)
              \o << <<"try">> >>
random_start == alarm(1)
react_main ==
  << <<"try">>, <<"set", "jumped_the_gun", 1>>, <<"set", "first_time", 1>> >> \o react_init
  \o random_start \o Pauses

-----------------------------------------------------------------------------
ProgramCode ==
  [sig1 |-> sig1_main, sig2 |-> sig2_main, query_mask |-> query_mask_main,
   donthup |-> donthup_main, defer_or_not_1 |-> defer_or_not_1_main,
   defer_or_not_2 |-> defer_or_not_2_main, altstack |-> altstack_main,
   atomic_B |-> atomic_B_main, rtsigs_waiter |-> rtsigs_waiter_main,
   sleeping_beauty_0 |-> sleeping_beauty_0_main, sleeping_beauty_1 |-> sleeping_beauty_1_main,
   sigq_recv |-> sigq_recv_main, sigwt_0 |-> sigwt_0_main, sigwt_1 |-> sigwt_1_main,
   handle_segv |-> handle_segv_main, sigtmwtinfo_0 |-> sigtmwtinfo_main(<<>>),
   sigtmwtinfo_1 |-> sigtmwtinfo_main(buggy), segv_altstack |-> segv_altstack_main,
   template |-> template_main, alarm1 |-> alarm1_main, alarm2_rep |-> alarm2_rep_main,
   intv_clksimple |-> intv_clksimple_main, intv3 |-> intv3_main,
   runwalk_timer |-> runwalk_timer_main, react |-> react_main]

\* The signals others send to each program: with kill, from the terminal, from
\* atomic_A, or with a value from sigq_sender.
Sent ==
  [p \in DOMAIN ProgramCode |->
     CASE p \in {"sig1", "runwalk_timer", "react"} -> {"SIGINT"}
       [] p \in {"sig2", "query_mask", "sleeping_beauty_0", "sleeping_beauty_1"} -> {"SIGINT", "SIGQUIT"}
       [] p = "donthup" -> {"SIGHUP", "SIGINT", "SIGQUIT"}
       [] p \in {"defer_or_not_1", "defer_or_not_2", "atomic_B"} -> {"SIGUSR1"}
       [] p \in {"altstack", "segv_altstack"} -> {"SIGUSR1", "SIGUSR2", "SIGSEGV"}
       [] p = "rtsigs_waiter" -> {"SIGRTMIN+5", "SIGRTMAX-5", "SIGRTMAX"}
       [] p = "sigq_recv" -> {"SIGRTMIN"}
       [] p \in {"sigwt_0", "sigwt_1", "sigtmwtinfo_0", "sigtmwtinfo_1"} -> {"SIGINT", "SIGFPE", "SIGSEGV"}
       [] p = "template" -> {"SIGSEGV", "SIGFPE"}
       [] OTHER -> {}]
=============================================================================
