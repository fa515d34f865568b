------------------------------ MODULE Signals ------------------------------
(***************************************************************************)
(* What the kernel does for the programs of SignalPrograms: one process,   *)
(* whose remaining steps are code, the signals sent to it, and its timers. *)
(* A signal that is not blocked is delivered before the next step: its     *)
(* handler's steps are put in front, followed by the return that restores  *)
(* the mask.  All of it is external to the repository.                     *)
(***************************************************************************)
EXTENDS SignalPrograms, SequencesExt, FiniteSets

CONSTANTS Programs,     \* the programs to run, fields of ProgramCode
          MaxSignals    \* how many signals others send

ASSUME ProgramsAssumption == Programs \subseteq DOMAIN ProgramCode
ASSUME BoundsAssumption == MaxSignals \in Nat

VARIABLES
  prog, code, mem,
  disp,       \* the signals that are caught: their steps and what they block
  mask, pend, \* blocked signals, and the pending ones with their values
  timers,     \* the signals of the armed timers
  expired,    \* the timers that expired since the program's own last step
  ended,      \* how the process ended
  sent,       \* how many signals were sent
  looped,     \* whether the program has come to its endless loop
  handled, slept, clock, raced, struck  \* history, for the properties
vars == <<prog, code, mem, disp, mask, pend, timers, expired, ended, sent, looped, handled,
          slept, clock, raced, struck>>

Variables == {"s", "t", "saved", "gFlag", "shown", "req", "rem", "si", "pid", "data", "shownpid",
              "data_recvd", "bug", "type", "verbose", "c", "jumped_the_gun", "first_time",
              "tm_start", "tm_end", "start", "end"}
Counted == {"SIGUSR1", "SIGRTMIN+5", "SIGRTMAX-5", "SIGRTMAX"}

\* The signals whose handlers are running, the innermost first, and those that
\* are pending.
Handlers == SelectSeq(code, LAMBDA step : step[1] = "sigreturn")
Running == {Handlers[k][3] : k \in DOMAIN Handlers}
Pending(sig) == \E k \in 1 .. Len(pend) : pend[k][1] = sig

TypeOK ==
  /\ prog \in Programs /\ ended \in {"no", "success", "failure", "killed", "core"}
  /\ ended # "no" <=> code = <<>>
  /\ mem \in [Variables -> Nat]
  /\ DOMAIN disp \subseteq All /\ mask \subseteq All /\ Running \subseteq All
  /\ pend \in Seq(All \X (0 .. MaxSignals))
  /\ \A sig \in All \ RealTime : Cardinality({k \in 1 .. Len(pend) : pend[k][1] = sig}) <= 1
  /\ DOMAIN timers \subseteq All
  /\ sent \in 0 .. MaxSignals /\ looped \in BOOLEAN

Init ==
  /\ prog \in Programs
  /\ code = ProgramCode[prog] /\ mem = [x \in Variables |-> 0]
  /\ disp = <<>> /\ mask = {} /\ pend = <<>> /\ timers = <<>> /\ expired = {}
  /\ ended = "no" /\ sent = 0 /\ looped = FALSE
  /\ handled = 0 /\ slept = 0 /\ clock = 0 /\ raced = FALSE /\ struck = {}

-----------------------------------------------------------------------------
history == <<handled, slept, clock, raced, struck>>
kernel == <<disp, mask, pend, timers, ended>>

Op == Head(code)
Then(next) == code' = next \o Tail(code)
Continue == Then(<<>>)
Assign(x, v) == mem' = [mem EXCEPT ![x] = v]
Deliverable == {k \in 1 .. Len(pend) : pend[k][1] \notin mask}

\* A signal that is pending already is not made pending again, unless it is a
\* real-time signal sent with a value.
Post_coalesces(sig, val) == pend' = IF Pending(sig) THEN pend ELSE Append(pend, <<sig, val>>)
Post(sig, val) ==
  pend' = IF Pending(sig) /\ (sig \notin RealTime \/ val = 0) THEN pend ELSE Append(pend, <<sig, val>>)

End(how) ==
  /\ ended' = how /\ code' = <<>> /\ pend' = <<>> /\ timers' = <<>>
  /\ UNCHANGED <<disp, mask, mem>>
Kill(sig) == End(IF sig \in Dumping THEN "core" ELSE "killed")

\* Where the process goes on after a handler: a call that waits was interrupted.
Interrupted ==
  CASE Op[1] = "paused"      -> Tail(code)
    [] Op[1] = "asleep"      -> Op[2] \o (IF Op[3] THEN << <<"sleep", Op[2], Op[3]>> >> ELSE <<>>) \o Tail(code)
    [] Op[1] = "timedwait"   -> FATAL \o Tail(code)
    [] OTHER                 -> code

\* For the properties: whether a sleep was ever interrupted, and whether the last
\* message came after the consumer had read a part of the one before and before
\* it had reset its flag.
Strikes ==
  {x \in {"asleep", "showing"} :
     IF x = "asleep" THEN Op[1] = "asleep"
                     ELSE Op \in {<<"copy", "shown", "data">>, <<"set", "data_recvd", 0>>}}

Handle(sig, resume) ==
  /\ code' = disp[sig].code \o << <<"sigreturn", mask, sig>> >> \o resume
  /\ mask' = mask \cup disp[sig].blocked
  /\ handled' = IF sig \in Counted THEN handled + 1 ELSE handled
  /\ raced' = (raced \/ {"SIGINT", "SIGALRM"} \subseteq Running \cup {sig})
  /\ struck' = IF Running = {} THEN (struck \ {"showing"}) \cup Strikes ELSE struck
  /\ UNCHANGED <<disp, timers, ended, slept, clock>>

Deliver(sig) ==
  /\ ended = "no"
  /\ \E k \in Deliverable :
          /\ pend[k][1] = sig /\ \A j \in 1 .. k - 1 : pend[j][1] # sig
          /\ IF sig \in DOMAIN disp
             THEN /\ Handle(sig, Interrupted)
                  /\ pend' = RemoveAt(pend, k)
                  /\ mem' = [mem EXCEPT !.si = pend[k][2],
                               !.rem = IF Op[1] = "asleep" THEN Op[4] ELSE @]
             ELSE Kill(sig) /\ UNCHANGED history
  /\ UNCHANGED <<prog, expired, sent, looped>>

-----------------------------------------------------------------------------
(* The steps of the program.                                               *)
At(op) == Op[1] = op

Branch ==
  /\ \/ \E op \in {"try", "nap"} : At(op) /\ Continue
     \/ At("try") /\ Then(FATAL)
     \/ At("if") /\ Then(IF mem[Op[2]] >= Op[3] THEN Op[4] ELSE Op[5])
     \/ At("either") /\ \E k \in {2, 3} : Then(Op[k])
     \/ At("forever") /\ Then(Op[2] \o <<Op>>)
     \/ At("pause") /\ Then(<< <<"paused">> >>)
     \/ At("add") /\ Then(<< <<"set", Op[2], mem[Op[2]] + 1>> >>)
  /\ looped' = (looped \/ At("forever"))
  /\ UNCHANGED <<mem, kernel, history>>

Memory ==
  /\ \/ At("set") /\ Assign(Op[2], Op[3]) /\ UNCHANGED clock
     \/ At("copy") /\ Assign(Op[2], mem[Op[3]]) /\ UNCHANGED clock
     \/ At("negate") /\ Assign(Op[2], 1 - mem[Op[2]]) /\ UNCHANGED clock
     \/ At("choose") /\ (\E v \in Op[3] : Assign(Op[2], v)) /\ UNCHANGED clock
     \/ At("stamp") /\ Assign(Op[2], clock + 1) /\ clock' = clock + 1
  /\ Continue
  /\ UNCHANGED <<looped, kernel, handled, slept, raced, struck>>

Settings ==
  /\ \/ /\ At("catch")
        /\ disp' = [sig \in DOMAIN disp \cup {Op[2]} |->
                      IF sig = Op[2] THEN [code |-> Op[3], blocked |-> Op[4]] ELSE disp[sig]]
        /\ UNCHANGED <<mask, timers, pend>>
     \/ /\ At("default") /\ disp' = [sig \in DOMAIN disp \ {Op[2]} |-> disp[sig]]
        /\ UNCHANGED <<mask, timers, pend>>
     \/ At("block") /\ mask' = mask \cup Op[2] /\ UNCHANGED <<disp, timers, pend>>
     \/ At("sigreturn") /\ mask' = Op[2] /\ UNCHANGED <<disp, timers, pend>>
     \/ At("raise") /\ Post(Op[2], 0) /\ UNCHANGED <<disp, mask, timers>>
     \/ /\ At("arm")
        /\ timers' = [sig \in DOMAIN timers \cup {Op[2]} |->
                        IF sig = Op[2] THEN [after |-> Op[3], again |-> Op[4]] ELSE timers[sig]]
        /\ UNCHANGED <<disp, mask, pend>>
  /\ Continue
  /\ UNCHANGED <<looped, mem, ended, history>>

Sleep ==
  /\ \/ At("sleep") /\ Then(<< <<"asleep", Op[2], Op[3], mem["req"]>> >>) /\ slept' = slept
     \/ /\ At("asleep") /\ Op[4] > 0
        /\ Then(<< <<"asleep", Op[2], Op[3], Op[4] - 1>> >>)
        /\ slept' = IF looped THEN slept ELSE slept + 1
     \/ At("asleep") /\ Op[4] = 0 /\ Continue /\ slept' = slept
  /\ UNCHANGED <<looped, mem, kernel, handled, clock, raced, struck>>

\* The first pending signal of those waited for is taken.
Wait ==
  /\ \/ /\ At("sigwait") \/ At("timedwait")
        /\ \E k \in 1 .. Len(pend) :
             /\ pend[k][1] \in Op[2] /\ \A j \in 1 .. k - 1 : pend[j][1] \notin Op[2]
             /\ pend' = RemoveAt(pend, k)
        /\ Continue
     \/ /\ At("timedwait") /\ \A sig \in Op[2] : ~Pending(sig)
        /\ Then(Op[3]) /\ UNCHANGED pend
  /\ UNCHANGED <<looped, mem, disp, mask, timers, ended, history>>

\* A fault that is blocked or not caught ends the process; the handler of
\* another returns to the same instruction.
Fault ==
  /\ At("fault")
  /\ IF Op[2] \in mask \/ Op[2] \notin DOMAIN disp
     THEN Kill(Op[2]) /\ UNCHANGED history
     ELSE Handle(Op[2], code) /\ UNCHANGED <<pend, mem>>
  /\ UNCHANGED looped

EndProcess ==
  /\ \/ At("exit") /\ End("success")
     \/ At("fatal") /\ End("failure")
     \/ At("abort") /\ End("core")
  /\ UNCHANGED <<looped, history>>

Step ==
  /\ ended = "no" /\ Deliverable = {}
  /\ Branch \/ Memory \/ Settings \/ Sleep \/ Wait \/ Fault \/ EndProcess
  /\ expired' = IF Running = {} THEN {} ELSE expired
  /\ UNCHANGED <<prog, sent>>

-----------------------------------------------------------------------------
(* What happens to the process.                                            *)
Send ==
  /\ ended = "no" /\ sent < MaxSignals /\ sent' = sent + 1
  /\ \E sig \in Sent[prog] : Post(sig, IF sig \in RealTime THEN sent' ELSE 0)
  /\ UNCHANGED <<prog, code, mem, disp, mask, timers, expired, ended, looped, history>>

\* Two of the timers run only while the process does.  The periods are longer
\* than the handlers take: none expires twice before the program goes on.
Expire(sig) ==
  /\ ended = "no" /\ sig \in DOMAIN timers /\ ~(sig \in CpuTimers /\ Op[1] = "paused")
  /\ sig \notin expired /\ expired' = expired \cup {sig}
  /\ Post(sig, 0)
  /\ timers' = IF timers[sig].again THEN timers ELSE [x \in DOMAIN timers \ {sig} |-> timers[x]]
  /\ UNCHANGED <<prog, code, mem, disp, mask, ended, sent, looped, history>>

Next == Step \/ Send \/ \E sig \in All : Deliver(sig) \/ Expire(sig)

\* The process runs and signals reach it.  Timers expire: those that run with
\* the process keep the time they have run when it stops, so that they expire if
\* it runs again and again.
Spec ==
  /\ Init /\ [][Next]_vars
  /\ WF_vars(Step \/ \E sig \in All : Deliver(sig))
  /\ WF_vars(Expire("SIGALRM")) /\ WF_vars(Expire("SIGRTMIN"))
  /\ \A sig \in CpuTimers : SF_vars(Expire(sig))

-----------------------------------------------------------------------------
(* Properties of the programs.                                             *)
Alive == ended = "no"
AtRest == Alive /\ Running = {} /\ Op[1] \in {"paused", "asleep"} /\ pend = <<>>
Survivors == {"sig2", "query_mask", "donthup", "defer_or_not_1", "defer_or_not_2", "atomic_B",
              "rtsigs_waiter", "sigq_recv", "sigwt_0", "alarm2_rep", "intv3", "intv_clksimple"}
NoDefer == {"defer_or_not_2", "altstack", "segv_altstack"}

\* A program that has come to its loop is ended by none of the signals sent to
\* it: donthup has caught all three before.  Only a call that fails in a
\* handler ends it.
Survives == looped /\ prog \in Survivors => ended \in {"no", "failure"}

\* Handlers interrupt each other only where their masks let them: a handler
\* never itself but for SA_NODEFER, and nothing interrupts those that block all.
NestsOnlyWhere ==
  \A j, k \in DOMAIN Handlers : j < k =>
    LET inner == Handlers[j][3]  outer == Handlers[k][3]
    IN /\ inner = outer => prog \in NoDefer /\ outer = "SIGUSR1"
       /\ prog \notin {"query_mask", "rtsigs_waiter", "sigq_recv", "intv_clksimple", "intv3"}
       /\ <<prog, outer>> \notin {<<"runwalk_timer", "SIGRTMIN">>, <<"segv_altstack", "SIGUSR2">>,
                                 <<"segv_altstack", "SIGSEGV">>}

\* The handlers count each signal they are called for.  Where they may interrupt
\* each other counts are lost, but never the first.
CountsAll ==
  Alive /\ Running = {} /\ prog # "atomic_B" =>
    /\ handled > 0 => mem["t"] \in 1 .. handled
    /\ prog \notin NoDefer => mem["t"] = handled

\* No real-time signal sent to rtsigs_waiter is lost: each is queued.
NoneLost == prog = "rtsigs_waiter" /\ AtRest => mem["t"] = sent

\* What a handler shows of s is a digit below MAX, even when handlers interrupt
\* each other between the increment, the test and the reset.
DigitInRange == mem["saved"] \in 0 .. MAX - 1

\* nanosleep in a loop sleeps for the whole time whichever signals interrupt it;
\* sleep alone is cut short by them and by nothing else.
FullSleep ==
  ended = "success" =>
    /\ prog = "sleeping_beauty_1" => slept = NSEC
    /\ prog = "sleeping_beauty_0" => slept = NSEC \/ "asleep" \in struck

\* When the consumer sleeps with no message to show, it has shown the last one
\* it got, whole, if that one came at any other time than between the first
\* reading of the message before it and the reset of the flag.
LastShown ==
  prog = "sigq_recv" /\ AtRest /\ mem["data_recvd"] = 0 /\ "showing" \notin struck =>
    mem["shown"] = mem["data"] /\ mem["shownpid"] = mem["pid"]

\* runwalk_timer's one-shot timer is running, or about to be armed again, as
\* long as the program runs, and for the part, run or walk, that is on.
TimerLives ==
  prog = "runwalk_timer" /\ Alive /\ looped =>
    \/ "SIGRTMIN" \in Running \/ Pending("SIGRTMIN")
    \/ "SIGRTMIN" \in DOMAIN timers /\ timers["SIGRTMIN"].after = 1 + mem["type"]

\* The reaction time react shows lies between the start and the press, in this
\* order, when neither of the two handlers has interrupted the other.
Measured == 0 < mem["start"] /\ mem["start"] < mem["end"]
ReactionMeasured == prog = "react" /\ ended = "success" /\ mem["end"] > 0 /\ ~raced => Measured

\* A fault ends the process, once its handler has run, and not as a success.
FaultEnds ==
  prog \in {"handle_segv", "sigtmwtinfo_1", "segv_altstack", "template"} /\ "SIGSEGV" \in Running ~>
    ended \notin {"no", "success"}

\* All pending signals are delivered or waited for, in the programs without
\* timers that would send them again and again.
AllTaken == pend # <<>> /\ timers = <<>> ~> pend = <<>> \/ timers # <<>>

\* The clocks never stop: each of their timers' handlers runs again and again,
\* and alarm2_rep arms its alarm again after each one that it paused for.
KeepsTicking ==
  /\ prog \in {"intv3", "intv_clksimple"} => []<>("SIGALRM" \in Running \/ ~Alive)
  /\ prog = "intv3" => \A sig \in CpuTimers : []<>(sig \in Running \/ ~Alive)
  /\ prog = "runwalk_timer" => []<>("SIGRTMIN" \in Running \/ ~Alive)
  /\ prog = "alarm2_rep" /\ AtRest /\ timers # <<>> ~> Alive /\ Op[1] = "arm"

\* What a handler has noted for the loop that polls, the loop shows.
Noticed ==
  /\ prog = "atomic_B" /\ mem["gFlag"] = 1 ~> mem["shown"] = 1 \/ ~Alive
  /\ prog = "sigq_recv" /\ mem["data_recvd"] = 1 ~> mem["data_recvd"] = 0 \/ ~Alive

\* Handlers: what they may interrupt, what they count, and that a signal with a
\* handler does not end the program.
HandlersSound ==
  TypeOK /\ NestsOnlyWhere /\ CountsAll /\ NoneLost /\ DigitInRange /\ Survives

\* Time: sleeps are as long as asked for and one-shot timers are armed again.
TimeKept == FullSleep /\ TimerLives

\* What a handler leaves in memory for the program to show is whole and in order,
\* but where a handler strikes in the middle of what uses it.
ShownRight == LastShown /\ ReactionMeasured

\* Faults end the process, signals are taken, clocks tick and flags are seen.
Progress == FaultEnds /\ AllTaken /\ KeepsTicking /\ Noticed

-----------------------------------------------------------------------------
(* Claims of the sources that their code does not keep; no configuration    *)
(* lists them, and the README says how each is refuted.                     *)

\* "we just enhance the previous code [...] to have the timeout continually
\* repeat" (alarm2_rep.c:12-13), and alarm1 "just pauses, awaiting the signal"
\* (alarm1.c:14).  Not so when the alarm goes off before pause is called.
AlarmAwaited == prog \in {"alarm1", "alarm2_rep"} /\ AtRest => timers # <<>>

\* "Your reaction time is precisely" (react.c:128).  Not so when ^C comes while
\* startoff runs and has not taken the time, or when startoff interrupts userpress.
ReactionPrecise == prog = "react" /\ ended = "success" /\ mem["end"] > 0 => Measured

\* "The signal's receipt implies a producer has sent us data; read and place the
\* details in the rcv_data_t structure" (sigq_recv.c:45-46): what is placed there
\* is shown.  Not so for a message that comes while another one is shown.
AllShown ==
  prog = "sigq_recv" /\ AtRest /\ mem["data_recvd"] = 0 =>
    mem["shown"] = mem["data"] /\ mem["shownpid"] = mem["pid"]
=============================================================================
