------------------------------- MODULE MtCopy -------------------------------
(***************************************************************************)
(* mt_copy: a file copied by several threads, each its own segment, with   *)
(* pread and pwrite loops (booksrc/solutions_to_assgn/ch18/mt_copy.c).     *)
(* The byte at position p of the source is the number p + 1, 0 is a byte   *)
(* of a hole, Old one the destination held before and Junk one of a buffer *)
(* that nothing filled.                                                    *)
(*                                                                         *)
(* A definition named after the next one, with a suffix, is a variant of   *)
(* it with one fault, which the runs' properties must notice.              *)
(***************************************************************************)
EXTENDS Integers, FiniteSets

CONSTANTS FileSizes,    \* sizes the source may have
          OldSizes,     \* sizes the destination may have had before
          ThreadCounts, \* what the command line may ask for
          MaxFaults     \* threads that may meet failing or short transfers

\* fd_read returns its count of bytes as an int: up to this size of the source no
\* count is beyond it, for a thread is given at most half of the file and a short
\* read at most doubles what it counts.
INT_MAX == 2147483647

ASSUME SizesAssumption == FileSizes \subseteq 0 .. INT_MAX /\ OldSizes \subseteq Nat
ASSUME CountsAssumption == ThreadCounts \subseteq Nat
ASSUME FaultsAssumption == MaxFaults \in Nat

VARIABLES main, i, numthrds, fsize, pc, seg, buf, tr, tw, dest, faulty, overread, leaked
vars == <<main, i, numthrds, fsize, pc, seg, buf, tr, tw, dest, faulty, overread, leaked>>

MIN_THRDS == 2
MAX_THRDS == 5
Threads == 0 .. MAX_THRDS - 1
Old == -1
Junk == -2
Bytes == Junk .. fsize

rem == fsize % numthrds

\* The segment a thread works on: its share of the file, and for the last one
\* then what the division leaves over.
start_offset_product(t) == (t * fsize) \div numthrds
start_offset(t) == t * (fsize \div numthrds)
len(t) == fsize \div numthrds
Offset(t) == IF seg[t] = "share" THEN start_offset(t) ELSE start_offset(t) + len(t)
Length(t) == IF seg[t] = "share" THEN len(t) ELSE rem

TypeOK ==
  /\ main \in {"start", "create", "join", "success", "failure"}
  /\ i \in 0 .. MAX_THRDS /\ numthrds \in ThreadCounts /\ fsize \in FileSizes
  /\ pc \in [Threads -> {"none", "malloc", "read", "write", "gone", "joined"}]
  /\ seg \in [Threads -> {"share", "rem"}]
  /\ DOMAIN buf = Threads
  /\ \A t \in Threads : \A p \in DOMAIN buf[t] : buf[t][p] \in Bytes
  /\ tr \in [Threads -> Nat] /\ tw \in [Threads -> Nat]
  /\ \A p \in DOMAIN dest : p \in Nat /\ dest[p] \in Bytes
  /\ faulty \subseteq Threads /\ leaked \subseteq Threads

Init ==
  /\ main = "start" /\ i = 0
  /\ numthrds \in ThreadCounts /\ fsize \in FileSizes
  /\ \E size \in OldSizes : dest = [p \in 0 .. size - 1 |-> Old]
  /\ pc = [t \in Threads |-> "none"] /\ seg = [t \in Threads |-> "share"]
  /\ buf = [t \in Threads |-> <<>>] /\ tr = [t \in Threads |-> 0] /\ tw = [t \in Threads |-> 0]
  /\ faulty = {} /\ overread = {} /\ leaked = {}

threadVars == <<pc, seg, buf, tr, tw, dest, faulty, overread, leaked>>
Runs == main \in {"create", "join"}

\* The destination is opened and not truncated.
Main ==
  /\ main = "start"
  /\ main' \in (IF numthrds \in MIN_THRDS .. MAX_THRDS THEN {"create", "failure"}
                                                       ELSE {"failure"})
  /\ UNCHANGED <<i, numthrds, fsize, threadVars>>

Create ==
  /\ main = "create"
  /\ \/ i < numthrds /\ pc' = [pc EXCEPT ![i] = "malloc"] /\ i' = i + 1 /\ UNCHANGED main
     \/ i < numthrds /\ main' = "failure" /\ UNCHANGED <<pc, i>>
     \/ i = numthrds /\ main' = "join" /\ i' = 0 /\ UNCHANGED pc
  /\ UNCHANGED <<numthrds, fsize, seg, buf, tr, tw, dest, faulty, overread, leaked>>

Join ==
  /\ main = "join"
  /\ \/ /\ i < numthrds /\ pc[i] = "gone"
        /\ pc' = [pc EXCEPT ![i] = "joined"] /\ i' = i + 1 /\ UNCHANGED main
     \/ i = numthrds /\ main' = "success" /\ UNCHANGED <<pc, i>>
  /\ UNCHANGED <<numthrds, fsize, seg, buf, tr, tw, dest, faulty, overread, leaked>>

-----------------------------------------------------------------------------
mainVars == <<main, i, numthrds, fsize>>

\* The worker looks at no result of a segment: it goes on to the bytes left over
\* when it is the last, and leaves.
worker_any(t) ==
  IF rem > 0 /\ seg[t] = "share"
  THEN seg' = [seg EXCEPT ![t] = "rem"] /\ pc' = [pc EXCEPT ![t] = "malloc"]
  ELSE pc' = [pc EXCEPT ![t] = "gone"] /\ UNCHANGED seg
worker(t) ==
  IF rem > 0 /\ t = numthrds - 1 /\ seg[t] = "share"
  THEN seg' = [seg EXCEPT ![t] = "rem"] /\ pc' = [pc EXCEPT ![t] = "malloc"]
  ELSE pc' = [pc EXCEPT ![t] = "gone"] /\ UNCHANGED seg

\* The end of a segment, good or bad.
Leave(t) ==
  /\ worker(t)
  /\ buf' = [buf EXCEPT ![t] = <<>>]
  /\ tr' = [tr EXCEPT ![t] = 0] /\ tw' = [tw EXCEPT ![t] = 0]

\* A failing malloc, read or write: the segment, or the rest of it, is missing.
CanFail(t) == t \in faulty \/ Cardinality(faulty) < MaxFaults
Fail(t) ==
  /\ Runs /\ pc[t] \in {"malloc", "read", "write"} /\ CanFail(t)
  /\ faulty' = faulty \cup {t} /\ Leave(t)
  /\ UNCHANGED <<mainVars, dest, overread, leaked>>

Malloc(t) ==
  /\ Runs /\ pc[t] = "malloc"
  /\ buf' = [buf EXCEPT ![t] = [p \in 0 .. Length(t) - 1 |-> Junk]]
  /\ pc' = [pc EXCEPT ![t] = "read"]
  /\ UNCHANGED <<mainVars, seg, tr, tw, dest, faulty, overread, leaked>>

\* A transfer of n bytes moves them all, or fewer and the thread is faulty.
Transfer(t, n, k) ==
  /\ k \in 1 .. n
  /\ IF k = n THEN UNCHANGED faulty ELSE CanFail(t) /\ faulty' = faulty \cup {t}

\* One round of fd_read: every round asks for all bytes from the same offset
\* into the same place, until that many have been read in all.
fd_read(t) ==
  /\ Runs /\ pc[t] = "read" /\ Length(t) > 0
  /\ \E k \in 1 .. fsize :
       /\ Transfer(t, Length(t), k)
       /\ buf' = [buf EXCEPT ![t] =
                    [p \in DOMAIN @ |-> IF p < k THEN Offset(t) + p + 1 ELSE @[p]]]
       /\ tr' = [tr EXCEPT ![t] = @ + k]
       /\ pc' = [pc EXCEPT ![t] = IF tr[t] + k < Length(t) THEN "read" ELSE "write"]
  /\ UNCHANGED <<mainVars, seg, tw, dest, overread, leaked>>

\* The source has become shorter: pread finds its end, and what was read before is
\* written.  If that is nothing the segment ends, and its buffer is not freed.
ReadEnd(t) ==
  /\ Runs /\ pc[t] = "read" /\ Length(t) > 0 /\ CanFail(t)
  /\ faulty' = faulty \cup {t}
  /\ IF tr[t] = 0
     THEN leaked' = leaked \cup {t} /\ Leave(t)
     ELSE pc' = [pc EXCEPT ![t] = "write"] /\ UNCHANGED <<seg, buf, tr, tw, leaked>>
  /\ UNCHANGED <<mainVars, dest, overread>>

\* A share of no bytes ends at once, and its buffer is not freed either.
ReadNothing_retries(t) ==
  /\ Runs /\ pc[t] = "read" /\ Length(t) = 0
  /\ UNCHANGED vars
ReadNothing(t) ==
  /\ Runs /\ pc[t] = "read" /\ Length(t) = 0
  /\ leaked' = leaked \cup {t} /\ Leave(t)
  /\ UNCHANGED <<mainVars, dest, faulty, overread>>

\* One round of fd_write, for the number of bytes the reads added up to: more
\* than the buffer has when a short read was followed by a longer one.
nr_counts_from_one(t) == tr[t] + 1
nr(t) == tr[t]
Byte(t, p) == IF p \in DOMAIN buf[t] THEN buf[t][p] ELSE Junk
fd_write(t) ==
  /\ Runs /\ pc[t] = "write"
  /\ \E k \in 1 .. nr(t) :
       /\ Transfer(t, nr(t), k)
       /\ dest' = [p \in DOMAIN dest \cup (0 .. Offset(t) + k - 1) |->
                     IF p \in Offset(t) .. Offset(t) + k - 1 THEN Byte(t, p - Offset(t))
                     ELSE IF p \in DOMAIN dest THEN dest[p] ELSE 0]
       /\ overread' = IF k > Length(t) THEN overread \cup {t} ELSE overread
       /\ IF tw[t] + k >= nr(t)
          THEN Leave(t)
          ELSE tw' = [tw EXCEPT ![t] = @ + k] /\ UNCHANGED <<pc, seg, buf, tr>>
  /\ UNCHANGED <<mainVars, leaked>>

Work(t) == Malloc(t) \/ fd_read(t) \/ ReadEnd(t) \/ ReadNothing(t) \/ fd_write(t) \/ Fail(t)
Next == Main \/ Create \/ Join \/ \E t \in Threads : Work(t)

\* The kernel goes on scheduling main and every thread, and a transfer returns.
Spec == /\ Init /\ [][Next]_vars
        /\ WF_vars(Main \/ Create \/ Join) /\ \A t \in Threads : WF_vars(Work(t))

-----------------------------------------------------------------------------
Right(p) == dest[p] = p + 1
Range(t) == Offset(t) .. Offset(t) + Length(t) - 1

\* A thread that meets a failing or short transfer does no harm to what the threads
\* before it copy: when mt_copy ends, the destination holds the source from its
\* beginning to the share of the first such thread, to its end if there is none.
Copied ==
  main = "success" => \A p \in 0 .. fsize - 1 :
    (\A t \in faulty : p < start_offset(t)) => p \in DOMAIN dest /\ Right(p)

\* mt_copy.c:22 of the destination: "always just overwritten", and :351 "Create /
\* overwrite destination"; :61 shows that diff finds no difference after success.
\* The code does not keep this: worker looks at no result of a segment, and open
\* does not truncate a longer destination.  See the disagreements in the README.
CopiedWhole ==
  main = "success" => DOMAIN dest = 0 .. fsize - 1 /\ \A p \in DOMAIN dest : Right(p)

\* As long as no transfer is short or fails, no byte of the destination is
\* written twice: neither two shares nor a share and the bytes left over meet.
EachByteOnce ==
  faulty = {} => \A t \in Threads : Runs /\ pc[t] = "write" =>
                   \A p \in Range(t) \cap DOMAIN dest : ~Right(p)

\* Only a thread whose read was short writes from beyond the end of its buffer,
\* and only a thread that finds the end of the source, where it is shorter than the
\* number of threads or has become shorter, leaves its buffer behind.
BuffersKept == overread \subseteq faulty /\ (leaked \subseteq faulty \/ fsize < numthrds)

\* mt_copy comes to an end, for a source of any size.
Terminates == main = "start" ~> main \in {"success", "failure"}

-----------------------------------------------------------------------------
\* Main counts up the threads it creates, and then the ones it joined.
MainKept ==
  /\ main = "start" => i = 0
  /\ main \in {"create", "join", "success"} =>
       numthrds \in MIN_THRDS .. MAX_THRDS /\ i <= numthrds
  /\ \A t \in Threads :
       /\ main = "start" \/ (main = "create" /\ i <= t) => pc[t] = "none"
       /\ main = "join" /\ t < i => pc[t] = "joined"
       /\ main = "success" /\ t < numthrds => pc[t] = "joined"

\* Only the last thread turns to the bytes left over, and only if there are any;
\* it does not leave without having done so.
ThreadsKept ==
  \A t \in Threads :
    /\ pc[t] = "none" => seg[t] = "share" /\ t \notin faulty
    /\ pc[t] # "none" => numthrds \in MIN_THRDS .. MAX_THRDS /\ t < numthrds
    /\ seg[t] = "rem" => rem > 0 /\ t = numthrds - 1
    /\ pc[t] \in {"gone", "joined"} =>
         (rem > 0 /\ t = numthrds - 1 => seg[t] = "rem")

\* A thread that met no failing or short transfer has read its segment in one
\* round when it writes, and its buffer holds exactly those bytes.
TransfersKept ==
  \A t \in Threads :
    /\ DOMAIN buf[t] = IF pc[t] \in {"read", "write"} THEN 0 .. Length(t) - 1 ELSE {}
    /\ t \notin faulty =>
         /\ tw[t] = 0
         /\ tr[t] = IF pc[t] = "write" THEN Length(t) ELSE 0
         /\ pc[t] = "write" => \A p \in 0 .. Length(t) - 1 : buf[t][p] = Offset(t) + p + 1

\* A thread is done with byte p: it lies in the share of the thread that went on
\* to the bytes left over, or in the last segment of one that left.
Done(t, p) ==
  \/ seg[t] = "rem" /\ p \in start_offset(t) .. start_offset(t) + len(t) - 1
  \/ pc[t] \in {"gone", "joined"} /\ p \in Range(t)

\* What the threads without a fault are done with is in the destination, before
\* the segments of the threads with one; and without any fault nobody writes
\* anything else or beyond the end of the source.
DestKept ==
  /\ \A t \in Threads \ faulty : \A p \in 0 .. fsize - 1 :
       Done(t, p) /\ (\A f \in faulty : p < start_offset(f)) => p \in DOMAIN dest /\ Right(p)
  /\ faulty = {} => \A p \in DOMAIN dest :
       /\ Right(p) => \E t \in Threads : Done(t, p)
       /\ p >= fsize => dest[p] = Old

\* Every thread keeps to its segment of the file and to its buffer.
SegmentsKept == /\ TypeOK /\ EachByteOnce /\ BuffersKept
                /\ MainKept /\ ThreadsKept /\ TransfersKept /\ DestKept
=============================================================================
