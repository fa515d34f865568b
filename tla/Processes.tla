----------------------------- MODULE Processes -----------------------------
(***************************************************************************)
(* What the kernel and the C library do for the programs of                *)
(* ProcessPrograms: processes with memory and output buffers of their own, *)
(* copied by fork, and with an open file in common.  code[p] is what       *)
(* process p has still to do; process 1 is the program that was started    *)
(* and 0 is init.  All of it is external to the repository.                *)
(***************************************************************************)
EXTENDS ProcessPrograms, FiniteSets, TLC

CONSTANTS Programs,     \* the programs to run, fields of ProgramCode
          MaxProcs,     \* the processes there can be
          MaxFailures,  \* processes that may fail before no fork fails any more
          MaxJobs       \* how often a command is stopped or continued

ASSUME ProgramsAssumption == Programs \subseteq DOMAIN ProgramCode
ASSUME BoundsAssumption == MaxProcs \in Nat \ {0} /\ MaxFailures \in Nat /\ MaxJobs \in Nat

VARIABLES prog, tty, code, st, parent, mem, buf, out, twice, lost, file, pos,
          changed, jobs, handler, signalled, reaper, failed
vars == <<prog, tty, code, st, parent, mem, buf, out, twice, lost, file, pos,
          changed, jobs, handler, signalled, reaper, failed>>

Procs == 1 .. MaxProcs
Shells == {"simpsh_v1", "simpsh_v2", "simpsh_v3"}

\* Only the shells start so many processes that an identity is used again.
Unused == {p \in Procs \ {1} : st[p] = "none" \/ (st[p] = "gone" /\ prog \in Shells)}
Alive(p) == st[p] \in {"running", "stopped"}
Children(p) == {q \in Procs : parent[q] = p}
Zombies == {q \in Procs : st[q] = "zombie"}

TypeOK ==
  /\ prog \in Programs /\ tty \in BOOLEAN
  /\ st \in [Procs -> {"none", "running", "stopped", "zombie", "gone"}]
  /\ parent \in [Procs -> Procs \cup {0}]
  /\ \A p \in Procs : st[p] \in {"none", "gone"} => parent[p] = 0 /\ code[p] = <<>> /\ buf[p] = <<>>
  /\ \A p \in Procs : parent[p] # 0 => Alive(parent[p])
  /\ pos \in Nat /\ jobs \in 0 .. MaxJobs
  /\ changed \cup signalled \cup reaper \cup failed \subseteq Procs

Init ==
  /\ prog \in Programs /\ tty \in BOOLEAN
  /\ code = [p \in Procs |-> IF p = 1 THEN ProgramCode[prog] ELSE <<>>]
  /\ st = [p \in Procs |-> IF p = 1 THEN "running" ELSE "none"]
  /\ parent = [p \in Procs |-> 0]
  /\ mem = [p \in Procs |-> <<>>] /\ buf = [p \in Procs |-> <<>>]
  /\ out = {} /\ twice = {} /\ lost = {}
  /\ file = <<>> /\ pos = 0
  /\ changed = {} /\ jobs = 0
  /\ handler = [p \in Procs |-> <<>>] /\ signalled = {} /\ reaper = {} /\ failed = {}

-----------------------------------------------------------------------------
Op(p) == Head(code[p])
At(p, op) == st[p] = "running" /\ p \notin signalled /\ Op(p)[1] = op
Then(p, next) == code' = [code EXCEPT ![p] = next \o Tail(@)]
Continue(p) == Then(p, <<>>)

output == <<buf, out, twice, lost>>
files == <<file, pos>>
signals == <<changed, jobs, handler, signalled, reaper>>
family == <<st, parent, failed>>

\* Steps that only choose where to go on.
Branch(p) ==
  /\ \/ \E op \in {"try", "sleep"} : At(p, op) /\ Continue(p)
     \/ At(p, "try") /\ Then(p, FATAL)
     \/ At(p, "either") /\ \E k \in {2, 3} : Then(p, Op(p)[k])
     \/ At(p, "prompt") /\ \E k \in 2 .. 5 : Then(p, Op(p)[k])
     \/ At(p, "forever") /\ Then(p, Op(p)[2] \o <<Op(p)>>)
     \/ At(p, "pause") /\ Then(p, << <<"paused">> >>)
     \/ At(p, "command") /\ \E end \in {Exit, FATAL} : Then(p, end)
  /\ UNCHANGED <<prog, tty, family, mem, output, files, signals>>

Fork(p) ==
  /\ At(p, "fork")
  /\ \E c \in Unused :
       /\ \A q \in Unused : c <= q
       /\ code' = [code EXCEPT ![p] = Op(p)[3] \o Tail(@), ![c] = Op(p)[2] \o Tail(code[p])]
       /\ st' = [st EXCEPT ![c] = "running"] /\ parent' = [parent EXCEPT ![c] = p]
       /\ mem' = [mem EXCEPT ![c] = mem[p]] /\ buf' = [buf EXCEPT ![c] = buf[p]]
       /\ handler' = [handler EXCEPT ![c] = handler[p]] /\ failed' = failed \ {c}
       /\ reaper' = IF p \in reaper THEN reaper \cup {c} ELSE reaper
  /\ UNCHANGED <<prog, tty, out, twice, lost, files, changed, jobs, signalled>>

ForkFails(p) ==
  /\ At(p, "fork") /\ Then(p, Op(p)[4]) /\ Cardinality(failed) < MaxFailures
  /\ UNCHANGED <<prog, tty, family, mem, output, files, signals>>

Exec(p) ==
  /\ At(p, "exec")
  /\ \/ /\ code' = [code EXCEPT ![p] = Op(p)[2]]
        /\ mem' = [mem EXCEPT ![p] = <<>>]
        /\ lost' = lost \cup ToSet(buf[p]) /\ buf' = [buf EXCEPT ![p] = <<>>]
        /\ handler' = [handler EXCEPT ![p] = <<>>]
     \/ Then(p, Op(p)[3]) /\ UNCHANGED <<mem, lost, buf, handler>>
  /\ UNCHANGED <<prog, tty, family, out, twice, files, changed, jobs, signalled, reaper>>

-----------------------------------------------------------------------------
(* The end of a process: its buffer is written, its own children are init's *)
(* from now on, which waits for them, and it is a zombie until its parent   *)
(* has waited for it.                                                       *)
\* A line that is already out came from a copy of the buffer.
FlushBuffer(p) ==
  LET lines == ToSet(buf[p])
      null == "null" \in DOMAIN mem[p]
  IN /\ out' = IF null THEN out ELSE out \cup lines
     /\ twice' = IF null THEN twice ELSE twice \cup (lines \cap out)
     /\ lost' = IF null THEN lost \cup lines ELSE lost
     /\ buf' = [buf EXCEPT ![p] = <<>>]

\* Process p ends and the zombies among its children vanish; it vanishes itself
\* when nobody is to wait for it.
Finish(p) ==
  LET vanish == {q \in Children(p) : st[q] = "zombie"}
                  \cup (IF parent[p] = 0 \/ parent[p] \in reaper THEN {p} ELSE {})
  IN /\ st' = [q \in Procs |-> IF q \in vanish THEN "gone" ELSE IF q = p THEN "zombie" ELSE st[q]]
     /\ parent' = [q \in Procs |-> IF q \in vanish \/ parent[q] = p THEN 0 ELSE parent[q]]
     /\ code' = [code EXCEPT ![p] = <<>>]
     /\ mem' = [mem EXCEPT ![p] = <<>>]
     /\ handler' = [handler EXCEPT ![p] = <<>>]
     /\ changed' = changed \ {p} /\ reaper' = reaper \ {p}
     /\ signalled' = (signalled \ {p}) \cup {q \in reaper : q = parent[p] /\ handler[q] # <<>>}

EndProcess(p) ==
  /\ At(p, "exit") \/ At(p, "fatal")
  /\ Finish(p) /\ FlushBuffer(p)
  /\ failed' = IF At(p, "fatal") THEN failed \cup {p} ELSE failed
  /\ UNCHANGED <<prog, tty, files, jobs>>

Reap(q) ==
  /\ st' = [st EXCEPT ![q] = "gone"] /\ parent' = [parent EXCEPT ![q] = 0]
  /\ UNCHANGED <<mem, changed, failed>>

Wait(p) ==
  /\ At(p, "wait") \/ At(p, "waitchange")
  /\ \/ \E q \in Children(p) : st[q] = "zombie" /\ Reap(q) /\ Then(p, Op(p)[2])
     \/ /\ At(p, "waitchange")
        /\ \E q \in Children(p) \cap changed : changed' = changed \ {q}
        /\ Then(p, Op(p)[2]) /\ UNCHANGED <<family, mem>>
     \/ Children(p) = {} /\ Then(p, Op(p)[3]) /\ UNCHANGED <<family, mem, changed>>
  /\ UNCHANGED <<prog, tty, output, files, jobs, handler, signalled, reaper>>

-----------------------------------------------------------------------------
(* Output, memory and the shared file.                                     *)
\* A line that is printed again is a new one.
Write(x, p) == buf' = [buf EXCEPT ![p] = Append(@, <<x, p>>)] /\ out' = out \ {<<x, p>>}

Output(p) ==
  /\ \/ /\ At(p, "part") \/ (At(p, "print") /\ ~tty)
        /\ Write(Op(p)[2], p) /\ UNCHANGED <<twice, lost>>
     \/ /\ At(p, "print") /\ tty
        /\ out' = out \cup {<<Op(p)[2], p>>} /\ UNCHANGED <<buf, twice, lost>>
     \/ At(p, "flush") /\ FlushBuffer(p)
  /\ Continue(p)
  /\ UNCHANGED <<prog, tty, family, mem, files, signals>>

Assign(p, x, v) == mem' = [mem EXCEPT ![p] = (x :> v) @@ @]

Memory(p) ==
  /\ \/ At(p, "set") /\ Assign(p, Op(p)[2], Op(p)[3])
     \/ At(p, "add") /\ Assign(p, Op(p)[2], mem[p][Op(p)[2]] + Op(p)[3])
     \/ At(p, "setsid") /\ Assign(p, "session", p)
     \/ At(p, "null") /\ Assign(p, "null", TRUE)
  /\ Continue(p)
  /\ UNCHANGED <<prog, tty, family, output, files, signals>>

SharedFile(p) ==
  /\ \/ At(p, "seek") /\ pos' = Op(p)[2] /\ UNCHANGED file
     \/ At(p, "write") /\ file' = (pos :> Op(p)[2]) @@ file /\ pos' = pos + 1
  /\ Continue(p)
  /\ UNCHANGED <<prog, tty, family, mem, output, signals>>

-----------------------------------------------------------------------------
(* Signals: SIGINT between the processes of killer, SIGCHLD to the parent in *)
(* zombies_clear, the dispositions these set, and job control of a shell's  *)
(* commands from outside.                                                   *)
SetSignals(p) ==
  /\ \/ At(p, "catch") /\ handler' = [handler EXCEPT ![p] = Op(p)[2]] /\ UNCHANGED <<signalled, reaper>>
     \/ /\ At(p, "autoreap") /\ reaper' = reaper \cup {p} /\ UNCHANGED signalled
        /\ handler' = [handler EXCEPT ![p] = Op(p)[2]]
     \/ At(p, "kill") /\ signalled' = signalled \cup {q \in Children(p) : Alive(q)}
                      /\ UNCHANGED <<reaper, handler>>
  /\ Continue(p)
  /\ UNCHANGED <<prog, tty, family, mem, output, files, changed, jobs>>

\* The handler, or the default action, whose end writes no buffer.
TakeSignal(p) ==
  /\ p \in signalled /\ st[p] = "running"
  /\ IF handler[p] # <<>>
     THEN /\ code' = [code EXCEPT ![p] = handler[p] \o (IF Op(p)[1] = "paused" THEN Tail(@) ELSE @)]
          /\ signalled' = signalled \ {p}
          /\ UNCHANGED <<family, mem, output, changed, handler, reaper>>
     ELSE Finish(p) /\ lost' = lost \cup ToSet(buf[p]) /\ buf' = [buf EXCEPT ![p] = <<>>]
                    /\ UNCHANGED <<out, twice, failed>>
  /\ UNCHANGED <<prog, tty, files, jobs>>

JobControl(p) ==
  /\ jobs < MaxJobs /\ jobs' = jobs + 1
  /\ Alive(p) /\ Op(p)[1] = "command" /\ changed' = changed \cup {p}
  /\ st' = [st EXCEPT ![p] = IF @ = "running" THEN "stopped" ELSE "running"]
  /\ UNCHANGED <<prog, tty, code, parent, mem, output, files, handler, signalled, reaper, failed>>

Step(p) ==
  \/ Branch(p) \/ Fork(p) \/ ForkFails(p) \/ Exec(p) \/ EndProcess(p) \/ Wait(p)
  \/ Output(p) \/ Memory(p) \/ SharedFile(p) \/ SetSignals(p) \/ TakeSignal(p)
Next == \E p \in Procs : Step(p) \/ JobControl(p)

\* The kernel goes on scheduling every process that can run.  A command ends:
\* nothing is assumed of one that was stopped.
Spec == Init /\ [][Next]_vars /\ \A p \in Procs : WF_vars(Step(p))

-----------------------------------------------------------------------------
(* Properties of the programs.                                             *)
Waiters == {"simpsh_v1", "simpsh_v2", "fork2c", "pdf_rdr", "killer", "fork_test"}
Pausers == {"smallbomb", "predcs_name", "zombies_clear", "daemon_trad"}
EndedWell == st[1] = "gone" /\ 1 \notin failed
AllEnded == \A p \in Procs : st[p] \in {"none", "gone"}
Paused(p) == st[p] = "running" /\ Op(p)[1] = "paused"

\* A program that waits for its children leaves none behind, running or dead,
\* when it ends well: fork2c waits for both in whatever order they die, and the
\* shells for each command.  Only the third shell may leave commands behind, and
\* only after one was stopped.
NoneLeft ==
  EndedWell /\ (prog \in Waiters \/ (prog = "simpsh_v3" /\ jobs = 0)) => AllEnded

\* A shell that prompts has no command running or unwaited for, whether the
\* last one failed, was stopped and continued, or could not be executed; but the
\* third shell, once a command was stopped, may (simpsh_v3.c:116-118).
PromptsAlone ==
  prog \in Shells /\ st[1] = "running" /\ Op(1)[1] = "prompt" =>
    Children(1) = {} \/ (prog = "simpsh_v3" /\ jobs > 0)

\* No process stays a zombie because its parent pauses for ever.  In
\* zombies_clear none becomes one, and in smallbomb only those whose own fork
\* has failed.
NoZombieStays ==
  \A q \in Zombies : Paused(parent[q]) => prog = "smallbomb" /\ q \in failed

\* On a terminal all that is printed comes out once, and a process that pauses,
\* and may be killed there, has written it; but fork_printf_2, which prints no
\* newline, writes it twice.  Into a pipe it comes out twice only where a fork
\* copies a buffer that was not flushed, is lost only where exec discards one or
\* the daemon has turned to /dev/null, and is held back only in a process that
\* pauses.  The shells fork with an empty buffer and write nothing twice.
Copies == {"fork_malloc_test", "forkbomb", "daemon_trad"}
Discards == {"pdf_rdr", "exec_pid_poc", "daemon_trad"} \cup Shells
Holds == {"zombies_clear", "predcs_name", "daemon_trad"}
OutputOnce ==
  /\ twice # {} => prog = "fork_printf_2" \/ (~tty /\ prog \in Copies)
  /\ lost # {} => ~tty /\ prog \in Discards
  /\ \A p \in Procs : Paused(p) /\ buf[p] # <<>> => ~tty /\ prog \in Holds

\* The processes of fork_r6_of share the position in the file.  When both have
\* written all their lines some may have been overwritten, but never more than
\* a quarter of them.
LinesKept ==
  prog = "fork_r6_of" /\ AllEnded /\ failed = {} =>
    2 * Cardinality(DOMAIN file) >= 3 * NUMLINES

\* The forks of each process double their number, unless one fails, and all of
\* them are there at the end.
AllAlive ==
  prog = "smallbomb" /\ failed = {} /\ (\A p \in Procs : Paused(p) \/ ~Alive(p)) =>
    Cardinality({p \in Procs : Paused(p)}) = 2 ^ BOMBS

\* The daemon can never get a terminal: it is in a session of its own and not
\* the leader of it, whichever steps failed on the way.
DaemonDetached ==
  prog = "daemon_trad" =>
    \A p \in Procs : Paused(p) => "session" \in DOMAIN mem[p] /\ mem[p]["session"] # p

\* Each program that does not pause or prompt ends with all its processes, as
\* long as nobody stops a command: killer's signal reaches the child however
\* late it pauses, and fork2c and fork_test wait for no more children than there
\* are.
Terminates ==
  prog \notin Pausers \cup Shells ~> AllEnded \/ \E p \in Procs : st[p] = "stopped"

\* A shell comes back to its prompt after each command that ends, or leaves.
PromptsAgain ==
  prog \in Shells /\ st[1] = "running" ~>
    \/ st[1] = "gone" \/ Op(1)[1] = "prompt" \/ \E p \in Procs : st[p] = "stopped"

\* The daemon's parent leaves it to init.
DaemonOrphaned ==
  \A p \in Procs : prog = "daemon_trad" /\ Paused(p) ~> parent[p] = 0

\* Parents and children: each program waits for those it must wait for, leaves
\* the others to init, and starts as many as it means to.
FamilyKept ==
  TypeOK /\ NoneLeft /\ PromptsAlone /\ NoZombieStays /\ AllAlive /\ DaemonDetached


\* The programs end, the shells prompt again and the daemon is left to init.
Progress == Terminates /\ PromptsAgain /\ DaemonOrphaned
=============================================================================
