-------------------------- MODULE ProcessPrograms --------------------------
(***************************************************************************)
(* The example programs of booksrc that fork, exec and wait (chapters 9    *)
(* and 10, some of 11, 12 and 14, the appendices on file I/O and daemons,  *)
(* and the solutions), each written as the steps its processes take.       *)
(* Module Processes executes them.                                         *)
(*                                                                         *)
(* A step is a tuple that starts with its operation:                       *)
(*   try              a call or an argument check whose failure ends the   *)
(*                    process (FATAL, usage)                               *)
(*   fork c p e       c in the child, p in the parent, e when it fails;    *)
(*                    then both go on with the steps that follow           *)
(*   wait got none    wait for the end of a child; none without children   *)
(*   waitchange got none    waitpid that also returns when one stops or    *)
(*                    continues                                            *)
(*   exec c e         the program c replaces this one; e when it fails     *)
(*   command          a program of the user's, which ends when it likes    *)
(*   prompt a b c d   a line is asked for: end of file, quit, nothing, or  *)
(*                    the name of a command                                *)
(*   print x, part x, flush   a line, a piece of one, fflush; a print that *)
(*                    only an exit follows in its process is left out      *)
(*   add x n, set x v         the process's own memory                     *)
(*   seek n, write c          the open file all processes share            *)
(*   catch c, kill    SIGINT's handler, SIGINT to the child                *)
(*   autoreap c       children that end leave no zombie; c is the handler  *)
(*                    of SIGCHLD                                           *)
(*   null             what stdout still writes from now on disappears      *)
(*   setsid, either a b, forever c, sleep, pause, exit, fatal              *)
(*                                                                         *)
(* A definition named after the next one, with a suffix, is a variant of   *)
(* it with one fault, which the runs' properties must notice.              *)
(***************************************************************************)
EXTENDS Integers, Sequences, SequencesExt

\* Bounds: the lines each process writes in fork_r6_of (100 in the source), the
\* rounds of forkbomb and fork_test, and those of smallbomb (3 in the source).
NUMLINES == 3
NFORKS == 2
BOMBS == 2

Times(n, steps) == FlattenSeq([k \in 1 .. n |-> steps])
Exit == << <<"exit">> >>
FATAL == << <<"fatal">> >>

-----------------------------------------------------------------------------
(* Chapter 10: fork.                                                       *)
fork1_main == << <<"fork", <<>>, <<>>, <<>> >> >> \o Exit
fork2_main == << <<"fork", <<>>, <<>>, FATAL>> >> \o Exit
fork3_main == << <<"fork", <<>>, <<>>, FATAL>> >> \o Exit

fork4_foo == << <<"sleep">> >>
fork4_bar == << <<"sleep">> >>
fork4_main == << <<"try">>, <<"fork", fork4_foo \o Exit, fork4_bar, FATAL>> >> \o Exit
fork4_prnum_main == << <<"try">>, <<"fork", Exit, <<>>, FATAL>> >> \o Exit

\* Each process changes its copy of a global and a local variable.
fork5_main ==
  << <<"set", "loc", 8>>, <<"set", "g", 7>>,
     <<"fork", << <<"add", "loc", 1>>, <<"add", "g", -1>> >> \o Exit,
               << <<"sleep">>, <<"add", "loc", -1>>, <<"add", "g", 1>> >>, FATAL>> >>
  \o Exit

WORK_ON_MEM(loc, g) == << <<"add", "loc", loc>>, <<"add", "g", g>> >>
fork_malloc_test_main ==
  << <<"try">>, <<"set", "loc", 8>>, <<"set", "g", 5>>, <<"print", "init">>,
     <<"fork", << <<"set", "gptr", 3>> >> \o WORK_ON_MEM(1, -1) \o Exit,
               << <<"sleep">>, <<"set", "gptr", 4>> >> \o WORK_ON_MEM(-1, 1), FATAL>> >>
  \o Exit

\* Both processes seek and then write, at the one position of the open file.
work_on_file(whom, at) ==
  << <<"try">>, <<"seek", at>> >> \o Times(NUMLINES, << <<"try">>, <<"write", whom>> >>)
fork_r6_of_main_same_place ==
  << <<"try">>, <<"fork", work_on_file("c", 0) \o Exit, work_on_file("p", 0), FATAL>> >>
  \o Exit
fork_r6_of_main ==
  << <<"try">>, <<"fork", work_on_file("c", 0) \o Exit, work_on_file("p", NUMLINES), FATAL>> >>
  \o Exit

-----------------------------------------------------------------------------
(* Chapter 10: the simple shell, in three versions that differ in how they  *)
(* wait, each run with -v; without it VPRINT prints nothing.  getcmd flushes *)
(* the prompt, and so all that was printed before it.                       *)
VPRINT(x) == << <<"print", x>> >>
getcmd == << <<"flush">> >>
Shell(wait, failure) ==
  << <<"try">>,
     <<"forever", getcmd \o
                  << <<"prompt", FATAL, Exit, <<>>,
                       << <<"fork", VPRINT("exec") \o << <<"exec", << <<"command">> >>, failure>> >>,
                                    VPRINT("wait") \o wait, FATAL>> >>
                  >> >> >> >>
interpret_wait == VPRINT("status")
do_wait == << <<"wait", <<>>, FATAL>> >>
do_wait_status == << <<"wait", interpret_wait, FATAL>> >>
do_waitpid == << <<"waitchange", interpret_wait, FATAL>> >>
simpsh_v1_main_no_exit == Shell(do_wait, <<>>)
simpsh_v1_main == Shell(do_wait, FATAL)
simpsh_v2_main_waitpid == Shell(do_waitpid, FATAL)
simpsh_v2_main == Shell(do_wait_status, FATAL)
simpsh_v3_main == Shell(do_waitpid, FATAL)

-----------------------------------------------------------------------------
(* Solutions of chapter 10.                                                *)
createChild == << <<"fork", << <<"sleep">> >> \o Exit, <<>>, FATAL>> >>
fork2c_main_one_wait ==
  << <<"try">>, <<"fork", << <<"sleep">> >> \o Exit, createChild \o << <<"wait", <<>>, <<>> >> >>,
                  FATAL>> >> \o Exit
fork2c_main ==
  << <<"try">>, <<"fork", << <<"sleep">> >> \o Exit,
                  createChild \o << <<"forever", << <<"wait", <<>>, Exit>> >> >> >>, FATAL>> >>

\* The parent sleeps for a month; its child goes on with the loop.
forkbomb_main ==
  << <<"try">>, <<"print", 0>> >>
  \o FlattenSeq([k \in 1 .. NFORKS |->
                   << <<"fork", <<>>, << <<"print", k>>, <<"sleep">> >>, FATAL>> >>])
  \o Exit

exec_pdf_reader_app == << <<"exec", << <<"command">> >>, FATAL>> >>
pdf_rdr_main ==
  << <<"try">>, <<"fork", << <<"print", "exec">> >> \o exec_pdf_reader_app,
                          << <<"wait", <<>>, FATAL>> >>, FATAL>> >>
  \o Exit

FORK_AND_PRINT_buffered(k) == << <<"fork", <<>>, <<>>, FATAL>>, <<"print", k>> >>
FORK_AND_PRINT(k) == << <<"fork", <<>>, <<>>, FATAL>>, <<"print", k>>, <<"flush">> >>
Bomb(n) == FlattenSeq([k \in 1 .. n |-> FORK_AND_PRINT(k)]) \o << <<"pause">> >> \o Exit
smallbomb_main_short == Bomb(BOMBS - 1)
smallbomb_main == Bomb(BOMBS)

zombie_main == << <<"fork", Exit, << <<"sleep">> >>, FATAL>> >> \o Exit

-----------------------------------------------------------------------------
(* Chapter 9 and its solution: exec without fork.                          *)
execl_eg_main == << <<"try">>, <<"exec", << <<"command">> >>, FATAL>> >> \o Exit
pdfrdr_exec_main == << <<"try">> >> \o exec_pdf_reader_app \o Exit
exec_pid_poc_main == << <<"print", "predecessor">>, <<"exec", << <<"command">> >>, FATAL>> >> \o Exit
successor_setnm_main ==
  << <<"try">>, <<"print", "parameters">>, <<"print", "name">>,
     <<"either", << <<"try">> >>, <<>> >>, <<"print", "pausing">>, <<"pause">> >> \o Exit
predcs_name_main == << <<"try">>, <<"exec", successor_setnm_main, FATAL>> >> \o Exit

-----------------------------------------------------------------------------
(* Chapters 11, 12 and 14, the appendices.                                 *)
child_dies == << <<"print", "dies">> >>
zombies_clear_rest ==
  << <<"print", "parent">>,
     <<"fork", << <<"print", "child">> >> \o Exit, << <<"forever", << <<"pause">> >> >> >>, FATAL>> >>
zombies_clear_main_default == << <<"try">> >> \o zombies_clear_rest
zombies_clear_main ==
  << <<"try">>, <<"either", << <<"autoreap", child_dies>> >>, << <<"autoreap", <<>> >> >> >> >>
  \o zombies_clear_rest

\* SIGINT is caught before the fork, so that it cannot miss the child.
catchit_returns == << <<"sleep">> >>
catchit == Exit
killer_main ==
  << <<"try">>, <<"catch", catchit>>,
     <<"fork", << <<"pause">> >> \o Exit,
               << <<"sleep">>, <<"kill">>, <<"wait", <<>>, FATAL>> >>, FATAL>> >> \o Exit

fork_test_do_nothing == <<>>
fork_test_main ==
  Times(NFORKS, << <<"fork", fork_test_do_nothing \o Exit, << <<"wait", <<>>, <<>> >> >>, FATAL>> >>)
  \o Exit

fork_printf_1_main == << <<"fork", <<>>, <<>>, <<>> >>, <<"part", "hello">> >> \o Exit
fork_printf_2_main == << <<"part", "hello">>, <<"fork", <<>>, <<>>, <<>> >> >> \o Exit

\* Any step that fails ends the process that takes it, with status 0.
OrReturn == << <<"either", <<>>, Exit>> >>
the_daemon ==
  << <<"print", "daemon">> >> \o OrReturn \o << <<"null">> >> \o OrReturn \o << <<"pause">> >> \o Exit
new_session == << <<"print", "session">> >> \o OrReturn \o << <<"setsid">> >>
daemonize_traditional_once ==
  << <<"print", "steps">> >> \o OrReturn
  \o << <<"fork", new_session \o the_daemon, Exit, Exit>> >>
daemonize_traditional_waits ==
  << <<"print", "steps">> >> \o OrReturn
  \o << <<"fork", new_session \o << <<"fork", the_daemon, <<>>, Exit>>,
                                    <<"forever", << <<"wait", <<>>, Exit>> >> >> >>, Exit, Exit>> >>
daemonize_traditional ==
  << <<"print", "steps">> >> \o OrReturn
  \o << <<"fork", new_session \o << <<"print", "second">>, <<"fork", the_daemon, <<>>, Exit>> >>
                  \o Exit, Exit, Exit>> >>
daemon_trad_main == daemonize_traditional \o Exit

ProgramCode ==
  [fork1 |-> fork1_main, fork2 |-> fork2_main, fork3 |-> fork3_main, fork4 |-> fork4_main,
   fork4_prnum |-> fork4_prnum_main, fork5 |-> fork5_main,
   fork_malloc_test |-> fork_malloc_test_main, fork_r6_of |-> fork_r6_of_main,
   simpsh_v1 |-> simpsh_v1_main, simpsh_v2 |-> simpsh_v2_main, simpsh_v3 |-> simpsh_v3_main,
   fork2c |-> fork2c_main, forkbomb |-> forkbomb_main, pdf_rdr |-> pdf_rdr_main,
   smallbomb |-> smallbomb_main, zombie |-> zombie_main, execl_eg |-> execl_eg_main,
   pdfrdr_exec |-> pdfrdr_exec_main, exec_pid_poc |-> exec_pid_poc_main,
   predcs_name |-> predcs_name_main, zombies_clear |-> zombies_clear_main,
   killer |-> killer_main, fork_test |-> fork_test_main,
   fork_printf_1 |-> fork_printf_1_main, fork_printf_2 |-> fork_printf_2_main,
   daemon_trad |-> daemon_trad_main]
=============================================================================
