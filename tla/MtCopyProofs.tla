---------------------------- MODULE MtCopyProofs ----------------------------
(***************************************************************************)
(* The threads of mt_copy keep to their segments, and what it reports as   *)
(* copied is copied: for sources and destinations of any size, any number  *)
(* of threads the program accepts and any number of failing transfers.     *)
(***************************************************************************)
EXTENDS MtCopy, TLAPS

\* The inductive part of SegmentsKept: EachByteOnce follows from the others.
Kept == TypeOK /\ BuffersKept /\ MainKept /\ ThreadsKept /\ TransfersKept /\ DestKept

-----------------------------------------------------------------------------
\* Division by one of the thread counts that main accepts.
LEMMA Division ==
  ASSUME NEW f \in Nat, NEW n \in MIN_THRDS .. MAX_THRDS
  PROVE  /\ f \div n \in Nat /\ f % n \in Nat
         /\ f % n < n
         /\ f = n * (f \div n) + (f % n)
<1>1. n = 2 \/ n = 3 \/ n = 4 \/ n = 5
  BY DEF MIN_THRDS, MAX_THRDS
<1>2. CASE n = 2  BY <1>2
<1>3. CASE n = 3  BY <1>3
<1>4. CASE n = 4  BY <1>4
<1>5. CASE n = 5  BY <1>5
<1> QED BY <1>1, <1>2, <1>3, <1>4, <1>5

\* The shares lie one after the other in the source, and the bytes left over
\* after the last one are its end.
LEMMA Shares ==
  ASSUME TypeOK, numthrds \in MIN_THRDS .. MAX_THRDS
  PROVE  /\ fsize \in Nat /\ rem \in Nat
         /\ \A t \in Threads : len(t) \in Nat /\ start_offset(t) \in Nat
         /\ \A t \in Threads : t < numthrds => start_offset(t) + len(t) <= fsize - rem
         /\ \A t \in Threads : t = numthrds - 1 => start_offset(t) + len(t) + rem = fsize
         /\ \A t, u \in Threads : t < u => start_offset(t) + len(t) <= start_offset(u)
         /\ \A t \in Threads : len(t) = 0 => fsize < numthrds
<1> DEFINE q == fsize \div numthrds
<1>1. fsize \in Nat  BY SizesAssumption DEF TypeOK
<1>2. /\ q \in Nat /\ rem \in Nat /\ rem < numthrds
      /\ fsize = numthrds * q + rem
  BY <1>1, Division DEF rem
<1>3. \A t : start_offset(t) = t * q /\ len(t) = q
  BY DEF start_offset, len
<1>4. \A t \in Threads : t = 0 \/ t = 1 \/ t = 2 \/ t = 3 \/ t = 4
  BY DEF Threads, MAX_THRDS
<1>5. numthrds = 2 \/ numthrds = 3 \/ numthrds = 4 \/ numthrds = 5
  BY DEF MIN_THRDS, MAX_THRDS
<1> HIDE DEF q
<1>6. \A t \in Threads : len(t) \in Nat /\ start_offset(t) \in Nat
  BY <1>2, <1>3, <1>4
<1>7. \A t, u \in Threads : t < u => start_offset(t) + len(t) <= start_offset(u)
  BY <1>2, <1>3, <1>4
<1>8. \A t \in Threads : t < numthrds => start_offset(t) + len(t) <= fsize - rem
  BY <1>1, <1>2, <1>3, <1>4, <1>5
<1>9. \A t \in Threads : t = numthrds - 1 => start_offset(t) + len(t) + rem = fsize
  BY <1>1, <1>2, <1>3, <1>4, <1>5
<1>10. \A t \in Threads : len(t) = 0 => fsize < numthrds
  BY <1>1, <1>2, <1>3, <1>5
<1> QED BY <1>1, <1>2, <1>6, <1>7, <1>8, <1>9, <1>10


-----------------------------------------------------------------------------
\* Where a segment lies that a thread works on or left: no two segments meet.
LEMMA Segments ==
  ASSUME TypeOK, ThreadsKept, NEW t \in Threads, pc[t] # "none"
  PROVE  /\ Length(t) \in Nat /\ Offset(t) \in Nat
         /\ Offset(t) >= start_offset(t) /\ Offset(t) + Length(t) <= fsize
         /\ fsize \in Nat /\ start_offset(t) \in Nat
<1>1. numthrds \in MIN_THRDS .. MAX_THRDS /\ t < numthrds
  BY DEF ThreadsKept
<1>2. seg[t] \in {"share", "rem"} /\ (seg[t] = "rem" => t = numthrds - 1)
  BY DEF ThreadsKept, TypeOK
<1> QED BY <1>1, <1>2, Shares DEF Length, Offset, Threads, MAX_THRDS

\* A byte of the segment a thread is at work on is one nobody is done with.
LEMMA Disjoint ==
  ASSUME TypeOK, ThreadsKept, NEW t \in Threads, pc[t] \in {"malloc", "read", "write"},
         NEW u \in Threads, NEW p \in Range(t)
  PROVE  ~Done(u, p)
<1>1. numthrds \in MIN_THRDS .. MAX_THRDS /\ t < numthrds
  BY DEF ThreadsKept
<1>2. Length(t) \in Nat /\ Offset(t) \in Nat
  BY Segments
<1>3. p \in Int /\ Offset(t) <= p /\ p < Offset(t) + Length(t)
  BY <1>2 DEF Range
<1>4. seg[t] \in {"share", "rem"} /\ (seg[t] = "rem" => t = numthrds - 1)
  BY DEF ThreadsKept, TypeOK
<1>5. CASE u = t
  <2>1. pc[u] \notin {"gone", "joined"}
    BY <1>5
  <2>2. seg[t] = "rem" => p >= start_offset(t) + len(t)
    BY <1>3, <1>4 DEF Offset
  <2> QED BY <2>1, <2>2, <1>1, <1>3, <1>5, Shares DEF Done
<1>6. CASE u # t
  <2>1. SUFFICES ASSUME Done(u, p) PROVE FALSE
    OBVIOUS
  <2>2. pc[u] # "none" /\ u < numthrds
    BY <2>1 DEF Done, ThreadsKept
  <2>3. seg[u] \in {"share", "rem"} /\ (seg[u] = "rem" => u = numthrds - 1)
    BY DEF ThreadsKept, TypeOK
  <2>4. start_offset(u) <= p /\ p < Offset(u) + Length(u)
    <3>1. CASE seg[u] = "rem" /\ p \in start_offset(u) .. start_offset(u) + len(u) - 1
      BY <3>1, <1>1, <1>3, Shares DEF Offset, Length
    <3>2. CASE pc[u] \in {"gone", "joined"} /\ p \in Range(u)
      BY <3>2, <1>3, <2>2, Segments DEF Range
    <3> QED BY <2>1, <3>1, <3>2 DEF Done
  <2>5. t \in Int /\ u \in Int
    BY DEF Threads, MAX_THRDS
  <2>6. CASE t < u
    <3>1. seg[t] = "share"  BY <1>4, <2>2, <2>5, <2>6, <1>1 DEF MIN_THRDS, MAX_THRDS
    <3> QED BY <3>1, <2>4, <2>6, <1>1, <1>3, Shares DEF Offset, Length
  <2>7. CASE u < t
    <3>1. seg[u] = "share"  BY <1>1, <2>3, <2>5, <2>7 DEF MIN_THRDS, MAX_THRDS
    <3>2. Offset(t) >= start_offset(t) /\ start_offset(t) \in Nat
      BY Segments
    <3> QED BY <3>1, <3>2, <2>4, <2>7, <1>1, <1>2, <1>3, Shares DEF Offset, Length
  <2> QED BY <2>5, <2>6, <2>7, <1>6
<1> QED BY <1>5, <1>6

\* EachByteOnce needs nothing else.
LEMMA KeptImpliesOnce == Kept => EachByteOnce
<1>1. SUFFICES ASSUME Kept, faulty = {}, NEW t \in Threads, pc[t] = "write",
                      NEW p \in Range(t), p \in DOMAIN dest, Right(p)
               PROVE  FALSE
  BY DEF EachByteOnce
<1>2. PICK u \in Threads : Done(u, p)
  BY <1>1 DEF Kept, DestKept
<1> QED BY <1>1, <1>2, Disjoint DEF Kept

\* What Copied says of the end.
LEMMA KeptImpliesCopied == Kept => Copied
<1>1. SUFFICES ASSUME Kept, main = "success" PROVE Copied
  BY DEF Copied
<1>2. numthrds \in MIN_THRDS .. MAX_THRDS
      /\ \A t \in Threads : t < numthrds => pc[t] = "joined"
  BY <1>1 DEF Kept, MainKept
<1>3. fsize \in Nat
  BY <1>1, SizesAssumption DEF Kept, TypeOK
<1>4. ASSUME NEW p \in 0 .. fsize - 1, \A t \in faulty : p < start_offset(t)
      PROVE  p \in DOMAIN dest /\ Right(p)
  <2>1. PICK t \in Threads : Done(t, p) /\ start_offset(t) <= p
    <3> DEFINE q == fsize \div numthrds
    <3>1. /\ q \in Nat /\ rem \in Nat /\ fsize = numthrds * q + rem
      BY <1>2, <1>3, Division DEF rem
    <3>2. \A t : start_offset(t) = t * q /\ len(t) = q
      BY DEF start_offset, len
    <3>3. numthrds = 2 \/ numthrds = 3 \/ numthrds = 4 \/ numthrds = 5
      BY <1>2 DEF MIN_THRDS, MAX_THRDS
    <3>4. \A t \in {0, 1, 2, 3, 4} : t \in Threads
      BY DEF Threads, MAX_THRDS
    <3> HIDE DEF q
    <3>5. CASE p < numthrds * q
      <4>1. PICK t \in {0, 1, 2, 3, 4} :
              t < numthrds /\ start_offset(t) <= p /\ p < start_offset(t) + len(t)
        BY <3>1, <3>2, <3>3, <3>5
      <4>2. t \in Threads /\ pc[t] = "joined"
        BY <4>1, <3>4, <1>2
      <4>3. len(t) \in Nat /\ start_offset(t) \in Nat
        BY <4>2, <1>1, <1>2, Shares DEF Kept
      <4>4. seg[t] = "rem" \/ seg[t] = "share"
        BY <4>2, <1>1 DEF Kept, TypeOK
      <4>5. p \in start_offset(t) .. start_offset(t) + len(t) - 1
        BY <4>1, <4>3, <1>3
      <4> QED BY <4>1, <4>2, <4>4, <4>5 DEF Done, Range, Offset, Length
    <3>6. CASE p >= numthrds * q
      <4>1. PICK t \in {0, 1, 2, 3, 4} : t = numthrds - 1
        BY <3>3
      <4>2. t \in Threads /\ pc[t] = "joined" /\ t < numthrds
        BY <4>1, <3>3, <3>4, <1>2
      <4>3. len(t) \in Nat /\ start_offset(t) \in Nat
        BY <4>2, <1>1, <1>2, Shares DEF Kept
      <4>4. rem > 0
        BY <3>1, <3>3, <3>6, <1>3
      <4>5. seg[t] = "rem"
        BY <1>1, <4>1, <4>2, <4>4 DEF Kept, ThreadsKept
      <4>6. start_offset(t) + len(t) = numthrds * q
        BY <4>1, <3>1, <3>2, <3>3
      <4>7. p \in start_offset(t) + len(t) .. start_offset(t) + len(t) + rem - 1
        BY <4>6, <3>1, <3>6, <1>3, <4>3
      <4>8. Done(t, p)
        BY <4>2, <4>5, <4>7 DEF Done, Range, Offset, Length
      <4> QED BY <4>2, <4>3, <4>7, <4>8, <1>3
    <3> QED BY <3>1, <3>3, <3>5, <3>6, <1>3
  <2>2. t \notin faulty
    <3>1. start_offset(t) \in Nat
      BY <1>1, <1>2, Shares DEF Kept
    <3> QED BY <3>1, <1>4, <2>1
  <2> QED BY <1>1, <1>4, <2>1, <2>2 DEF Kept, DestKept
<1> QED BY <1>4 DEF Copied


-----------------------------------------------------------------------------
\* Initially nothing is read, written or left behind.
LEMMA KeptInit == Init => Kept
<1> SUFFICES ASSUME Init PROVE Kept
  OBVIOUS
<1>1. PICK size \in OldSizes : dest = [p \in 0 .. size - 1 |-> Old]
  BY DEF Init
<1>2. size \in Nat /\ fsize \in Nat
  BY SizesAssumption DEF Init
<1>3. \A t \in Threads : DOMAIN buf[t] = {}
  BY DEF Init
<1>4. TypeOK
  BY <1>1, <1>2, <1>3 DEF Init, TypeOK, Bytes, Junk, Old, MAX_THRDS
<1>5. DestKept
  <2>1. \A t \in Threads : \A p : ~Done(t, p)
    BY DEF Init, Done
  <2>2. \A p \in DOMAIN dest : dest[p] = Old /\ p \in Nat
    BY <1>1, <1>2
  <2> QED BY <2>1, <2>2 DEF DestKept, Init, Right, Old
<1> QED BY <1>3, <1>4, <1>5
        DEF Kept, BuffersKept, MainKept, ThreadsKept, TransfersKept, Init, Threads, MAX_THRDS

\* The sizes that a segment depends on never change.
LEMMA SameSizes ==
  ASSUME UNCHANGED <<numthrds, fsize>>
  PROVE  /\ rem' = rem /\ Bytes' = Bytes
         /\ \A t : start_offset(t)' = start_offset(t) /\ len(t)' = len(t)
BY DEF rem, Bytes, start_offset, len

\* A step that leaves a thread at its segment, or done with it, changes nothing
\* of what it is done with.
LEMMA SameDone ==
  ASSUME UNCHANGED <<numthrds, fsize>>, NEW t \in Threads, NEW p,
         seg'[t] = seg[t], pc'[t] \in {"gone", "joined"} <=> pc[t] \in {"gone", "joined"}
  PROVE  Done(t, p)' <=> Done(t, p)
BY SameSizes DEF Done, Range, Offset, Length

\* Main starts and joins threads, and touches nothing of theirs.
LEMMA MainSteps ==
  ASSUME Kept, Main \/ Create \/ Join
  PROVE  Kept'
<1>1. UNCHANGED <<numthrds, fsize, seg, buf, tr, tw, dest, faulty, overread, leaked>>
  BY DEF Main, Create, Join, threadVars
<1>2. TypeOK'
  <2>1. numthrds \in Nat /\ i \in 0 .. MAX_THRDS
    BY CountsAssumption DEF Kept, TypeOK
  <2>2. i < numthrds /\ main \in {"create", "join"} => i \in Threads
    BY <2>1 DEF Kept, MainKept, Threads, MIN_THRDS, MAX_THRDS
  <2> QED BY <1>1, <2>1, <2>2, SameSizes
          DEF Kept, MainKept, TypeOK, Main, Create, Join, threadVars, MIN_THRDS, MAX_THRDS
<1>3. \A t \in Threads : pc'[t] \in {"gone", "joined"} <=> pc[t] \in {"gone", "joined"}
  BY DEF Kept, TypeOK, MainKept, Main, Create, Join, threadVars
<1>4. MainKept'
  <2>1. numthrds \in Nat /\ i \in Nat /\ \A t \in Threads : t \in Nat
    BY CountsAssumption DEF Kept, TypeOK, Threads, MAX_THRDS
  <2>2. CASE Main
    BY <1>1, <2>1, <2>2 DEF Kept, TypeOK, MainKept, Main, threadVars, MIN_THRDS, MAX_THRDS
  <2>3. CASE Create
    BY <1>1, <2>1, <2>3 DEF Kept, TypeOK, MainKept, Create, MIN_THRDS, MAX_THRDS
  <2>4. CASE Join
    BY <1>1, <2>1, <2>4 DEF Kept, TypeOK, MainKept, Join, MIN_THRDS, MAX_THRDS
  <2> QED BY <2>2, <2>3, <2>4
<1>5. ThreadsKept'
  BY <1>1, <1>3, SameSizes, CountsAssumption
     DEF Kept, TypeOK, MainKept, ThreadsKept, Main, Create, Join, threadVars, Threads, MIN_THRDS, MAX_THRDS
<1>6. TransfersKept'
  <2>1. \A t \in Threads : pc'[t] \in {"read", "write"} <=> pc[t] \in {"read", "write"}
    BY DEF Kept, TypeOK, MainKept, Main, Create, Join, threadVars
  <2>2. \A t \in Threads : pc'[t] = "write" <=> pc[t] = "write"
    BY DEF Kept, TypeOK, MainKept, Main, Create, Join, threadVars
  <2>3. \A t \in Threads : Offset(t)' = Offset(t) /\ Length(t)' = Length(t)
    BY <1>1, SameSizes DEF Offset, Length
  <2> QED BY <1>1, <2>1, <2>2, <2>3 DEF Kept, TransfersKept
<1>7. DestKept'
  <2>1. \A t \in Threads : \A p : Done(t, p)' <=> Done(t, p)
    BY <1>1, <1>3, SameDone
  <2> QED BY <1>1, <2>1, SameSizes DEF Kept, DestKept, Right
<1> QED BY <1>1, <1>2, <1>4, <1>5, <1>6, <1>7 DEF Kept, BuffersKept


-----------------------------------------------------------------------------
\* What is common to the steps of a thread t: main's state and that of the
\* other threads stay, and t goes on to other work or leaves.
Others(t) ==
  /\ UNCHANGED mainVars
  /\ pc' \in [Threads -> {"none", "malloc", "read", "write", "gone", "joined"}]
  /\ seg' \in [Threads -> {"share", "rem"}] /\ DOMAIN buf' = Threads
  /\ tr' \in [Threads -> Nat] /\ tw' \in [Threads -> Nat]
  /\ \A u \in Threads \ {t} : /\ pc'[u] = pc[u] /\ seg'[u] = seg[u] /\ buf'[u] = buf[u]
                              /\ tr'[u] = tr[u] /\ tw'[u] = tw[u]
  /\ pc'[t] \in {"malloc", "read", "write", "gone"}
  /\ faulty' \in {faulty, faulty \cup {t}}

\* Main's part of the invariant survives such a step.
LEMMA OthersKeepMain ==
  ASSUME Kept, NEW t \in Threads, Others(t), pc[t] \in {"malloc", "read", "write"}
  PROVE  MainKept'
<1>1. \A u \in Threads : pc[u] \in {"none", "joined"} => pc'[u] = pc[u]
  BY DEF Others
<1> QED BY <1>1 DEF Kept, MainKept, Others, mainVars

\* The other threads' part of the invariant survives it too.
LEMMA OthersKeep ==
  ASSUME Kept, NEW t \in Threads, Others(t), NEW u \in Threads \ {t}
  PROVE  /\ pc'[u] = "none" => seg'[u] = "share" /\ u \notin faulty'
         /\ pc'[u] # "none" => numthrds' \in MIN_THRDS .. MAX_THRDS /\ u < numthrds'
         /\ seg'[u] = "rem" => rem' > 0 /\ u = numthrds' - 1
         /\ pc'[u] \in {"gone", "joined"} =>
              (rem' > 0 /\ u = numthrds' - 1 => seg'[u] = "rem")
         /\ Offset(u)' = Offset(u) /\ Length(u)' = Length(u)
         /\ \A p : Done(u, p)' <=> Done(u, p)
         /\ u \in faulty' <=> u \in faulty
         /\ DOMAIN buf'[u] = IF pc'[u] \in {"read", "write"} THEN 0 .. Length(u)' - 1 ELSE {}
         /\ \A p \in DOMAIN buf'[u] : buf'[u][p] \in Bytes'
         /\ u \notin faulty' =>
              /\ tw'[u] = 0
              /\ tr'[u] = IF pc'[u] = "write" THEN Length(u)' ELSE 0
              /\ pc'[u] = "write" =>
                   \A p \in 0 .. Length(u)' - 1 : buf'[u][p] = Offset(u)' + p + 1
<1>1. UNCHANGED <<numthrds, fsize>>
  BY DEF Others, mainVars
<1>2. /\ pc'[u] = pc[u] /\ seg'[u] = seg[u] /\ buf'[u] = buf[u]
      /\ tr'[u] = tr[u] /\ tw'[u] = tw[u]
  BY DEF Others
<1>3. u \in faulty' <=> u \in faulty
  BY DEF Others
<1>4. rem' = rem /\ Bytes' = Bytes
  BY <1>1, SameSizes
<1>5. Offset(u)' = Offset(u) /\ Length(u)' = Length(u)
  BY <1>1, <1>2, SameSizes DEF Offset, Length
<1>6. \A p : Done(u, p)' <=> Done(u, p)
  BY <1>1, <1>2, SameDone
<1>7. /\ pc'[u] = "none" => seg'[u] = "share" /\ u \notin faulty'
      /\ pc'[u] # "none" => numthrds' \in MIN_THRDS .. MAX_THRDS /\ u < numthrds'
      /\ seg'[u] = "rem" => rem' > 0 /\ u = numthrds' - 1
      /\ pc'[u] \in {"gone", "joined"} =>
              (rem' > 0 /\ u = numthrds' - 1 => seg'[u] = "rem")
  BY <1>1, <1>2, <1>3, <1>4 DEF Kept, ThreadsKept
<1>8. /\ DOMAIN buf'[u] = IF pc'[u] \in {"read", "write"} THEN 0 .. Length(u)' - 1 ELSE {}
      /\ u \notin faulty' =>
              /\ tw'[u] = 0
              /\ tr'[u] = IF pc'[u] = "write" THEN Length(u)' ELSE 0
              /\ pc'[u] = "write" =>
                   \A p \in 0 .. Length(u)' - 1 : buf'[u][p] = Offset(u)' + p + 1
  BY <1>2, <1>3, <1>5 DEF Kept, TransfersKept
<1>9. \A p \in DOMAIN buf'[u] : buf'[u][p] \in Bytes'
  BY <1>2, <1>4 DEF Kept, TypeOK
<1> QED BY <1>3, <1>5, <1>6, <1>7, <1>8, <1>9

\* The end of a segment: the thread leaves, or turns to the bytes left over.
LEMMA Leaving ==
  ASSUME Kept, NEW t \in Threads, Leave(t), UNCHANGED mainVars,
         faulty' \in {faulty, faulty \cup {t}}, pc[t] \in {"malloc", "read", "write"}
  PROVE  /\ Others(t) /\ ThreadsKept' /\ TransfersKept'
         /\ \A u \in Threads : \A p \in DOMAIN buf'[u] : buf'[u][p] \in Bytes'
         /\ \A p : Done(t, p)' <=> Done(t, p) \/ p \in Range(t)
<1>1. UNCHANGED <<numthrds, fsize>> /\ rem' = rem
  BY SameSizes DEF mainVars
<1>2. /\ tr' = [tr EXCEPT ![t] = 0] /\ tw' = [tw EXCEPT ![t] = 0]
      /\ buf' = [buf EXCEPT ![t] = <<>>]
  BY DEF Leave
<1>3. \/ /\ rem > 0 /\ t = numthrds - 1 /\ seg[t] = "share"
         /\ seg' = [seg EXCEPT ![t] = "rem"] /\ pc' = [pc EXCEPT ![t] = "malloc"]
      \/ /\ ~(rem > 0 /\ t = numthrds - 1 /\ seg[t] = "share")
         /\ pc' = [pc EXCEPT ![t] = "gone"] /\ seg' = seg
  BY DEF Leave, worker
<1>4. Others(t)
  BY <1>1, <1>2, <1>3 DEF Others, Kept, TypeOK
<1>5. /\ tr'[t] = 0 /\ tw'[t] = 0 /\ DOMAIN buf'[t] = {}
  BY <1>2 DEF Kept, TypeOK
<1>6. \/ /\ rem > 0 /\ t = numthrds - 1 /\ seg[t] = "share"
         /\ seg'[t] = "rem" /\ pc'[t] = "malloc"
      \/ /\ (rem > 0 /\ t = numthrds - 1 => seg[t] = "rem")
         /\ pc'[t] = "gone" /\ seg'[t] = seg[t]
  BY <1>3 DEF Kept, TypeOK
<1>7. ThreadsKept'
  <2>1. /\ pc'[t] # "none"
        /\ numthrds' \in MIN_THRDS .. MAX_THRDS /\ t < numthrds'
        /\ seg'[t] = "rem" => rem' > 0 /\ t = numthrds' - 1
        /\ pc'[t] \in {"gone", "joined"} =>
              (rem' > 0 /\ t = numthrds' - 1 => seg'[t] = "rem")
    BY <1>1, <1>6 DEF Kept, ThreadsKept
  <2> QED BY <2>1, <1>4, OthersKeep DEF ThreadsKept
<1>8. TransfersKept'
  <2>1. pc'[t] \notin {"read", "write"}
    BY <1>6
  <2> QED BY <2>1, <1>4, <1>5, OthersKeep DEF TransfersKept
<1>9. \A u \in Threads : \A p \in DOMAIN buf'[u] : buf'[u][p] \in Bytes'
  BY <1>4, <1>5, OthersKeep
<1>10. \A p : Done(t, p)' <=> Done(t, p) \/ p \in Range(t)
  BY <1>1, <1>6, SameSizes DEF Done, Range, Offset, Length
<1> QED BY <1>4, <1>7, <1>8, <1>9, <1>10


-----------------------------------------------------------------------------
\* A segment that is given up: the thread is faulty from now on, and nothing more is
\* said of the bytes from its share on.
LEMMA FaultyLeaves ==
  ASSUME Kept, NEW t \in Threads, Leave(t), UNCHANGED mainVars, faulty' = faulty \cup {t},
         UNCHANGED <<dest, overread>>, leaked' \in {leaked, leaked \cup {t}},
         pc[t] \in {"malloc", "read", "write"}
  PROVE  Kept'
<1>1. /\ Leave(t) /\ UNCHANGED mainVars /\ faulty' = faulty \cup {t}
      /\ UNCHANGED <<dest, overread>> /\ leaked' \in {leaked, leaked \cup {t}}
      /\ pc[t] \in {"malloc", "read", "write"}
  OBVIOUS
<1>2. /\ Others(t) /\ ThreadsKept' /\ TransfersKept'
      /\ \A u \in Threads : \A p \in DOMAIN buf'[u] : buf'[u][p] \in Bytes'
  BY <1>1, Leaving
<1>3. UNCHANGED <<numthrds, fsize>> /\ Bytes' = Bytes /\ \A u : start_offset(u)' = start_offset(u)
  BY <1>1, SameSizes DEF mainVars
<1>4. TypeOK'
  BY <1>1, <1>2, <1>3 DEF Kept, TypeOK, Others, mainVars
<1>5. MainKept'
  BY <1>1, <1>2, OthersKeepMain
<1>6. BuffersKept'
  BY <1>1, <1>3 DEF Kept, BuffersKept
<1>7. DestKept'
  <2>1. \A u \in Threads \ faulty' : \A p : Done(u, p)' <=> Done(u, p)
    BY <1>1, <1>2, OthersKeep
  <2>2. faulty' # {} /\ Threads \ faulty' \subseteq Threads \ faulty /\ faulty \subseteq faulty'
    BY <1>1
  <2> QED BY <1>1, <1>3, <2>1, <2>2 DEF Kept, DestKept, Right
<1> QED BY <1>2, <1>4, <1>5, <1>6, <1>7 DEF Kept

\* A failing call.
LEMMA FailStep ==
  ASSUME Kept, NEW t \in Threads, Fail(t)
  PROVE  Kept'
BY FaultyLeaves DEF Fail

\* The end of the source where there should be more of it.
LEMMA ReadEndStep ==
  ASSUME Kept, NEW t \in Threads, ReadEnd(t)
  PROVE  Kept'
<1>1. /\ pc[t] = "read" /\ UNCHANGED <<mainVars, dest, overread>> /\ faulty' = faulty \cup {t}
  BY DEF ReadEnd
<1>2. CASE tr[t] = 0
  <2>1. leaked' = leaked \cup {t} /\ Leave(t)
    BY <1>2 DEF ReadEnd
  <2> QED BY <1>1, <2>1, FaultyLeaves
<1>3. CASE tr[t] # 0
  <2>1. pc' = [pc EXCEPT ![t] = "write"] /\ UNCHANGED <<seg, buf, tr, tw, leaked>>
    BY <1>3 DEF ReadEnd
  <2>2. Others(t)
    BY <1>1, <2>1 DEF Others, Kept, TypeOK
  <2>3. /\ UNCHANGED <<numthrds, fsize>> /\ rem' = rem /\ Bytes' = Bytes
        /\ \A u : start_offset(u)' = start_offset(u)
    BY <1>1, SameSizes DEF mainVars
  <2>4. Length(t)' = Length(t) /\ pc'[t] = "write"
    BY <2>1, <2>3, SameSizes DEF Length, Kept, TypeOK
  <2>5. TypeOK'
    BY <1>1, <2>1, <2>2, <2>3 DEF Kept, TypeOK, Others, mainVars
  <2>6. ThreadsKept'
    <3>1. /\ numthrds' \in MIN_THRDS .. MAX_THRDS /\ t < numthrds'
          /\ seg'[t] = "rem" => rem' > 0 /\ t = numthrds' - 1
      BY <1>1, <2>1, <2>3 DEF Kept, ThreadsKept
    <3> QED BY <3>1, <2>2, <2>4, OthersKeep DEF ThreadsKept
  <2>7. TransfersKept'
    <3>1. DOMAIN buf'[t] = 0 .. Length(t)' - 1 /\ t \in faulty'
      BY <1>1, <2>1, <2>4 DEF Kept, TransfersKept
    <3> QED BY <3>1, <2>2, <2>4, OthersKeep DEF TransfersKept
  <2>8. DestKept'
    <3>1. \A u \in Threads \ faulty' : \A p : Done(u, p)' <=> Done(u, p)
      BY <1>1, <2>2, OthersKeep
    <3>2. /\ faulty' # {} /\ Threads \ faulty' \subseteq Threads \ faulty
          /\ faulty \subseteq faulty'
      BY <1>1
    <3> QED BY <1>1, <2>3, <3>1, <3>2 DEF Kept, DestKept, Right
  <2>9. BuffersKept'
    BY <1>1, <2>1, <2>3 DEF Kept, BuffersKept
  <2> QED BY <1>1, <2>2, <2>5, <2>6, <2>7, <2>8, <2>9, OthersKeepMain DEF Kept
<1> QED BY <1>2, <1>3

\* The buffer of a segment has its length.
LEMMA MallocStep ==
  ASSUME Kept, NEW t \in Threads, Malloc(t)
  PROVE  Kept'
<1>1. /\ pc[t] = "malloc" /\ UNCHANGED <<mainVars, seg, tr, tw, dest, faulty, overread, leaked>>
      /\ buf' = [buf EXCEPT ![t] = [p \in 0 .. Length(t) - 1 |-> Junk]]
      /\ pc' = [pc EXCEPT ![t] = "read"]
  BY DEF Malloc
<1>2. Others(t)
  BY <1>1 DEF Others, Kept, TypeOK
<1>3. /\ UNCHANGED <<numthrds, fsize>> /\ rem' = rem /\ Bytes' = Bytes
      /\ \A u : start_offset(u)' = start_offset(u)
  BY <1>1, SameSizes DEF mainVars
<1>4. /\ pc'[t] = "read" /\ seg'[t] = seg[t] /\ tr'[t] = tr[t] /\ tw'[t] = tw[t]
      /\ buf'[t] = [p \in 0 .. Length(t) - 1 |-> Junk]
  BY <1>1 DEF Kept, TypeOK
<1>5. Length(t)' = Length(t) /\ Offset(t)' = Offset(t)
  BY <1>3, <1>4, SameSizes DEF Length, Offset
<1>6. \A u \in Threads : \A p \in DOMAIN buf'[u] : buf'[u][p] \in Bytes'
  <2>1. fsize \in Nat  BY SizesAssumption DEF Kept, TypeOK
  <2>2. Junk \in Bytes  BY <2>1 DEF Bytes, Junk
  <2>3. \A p \in DOMAIN buf'[t] : buf'[t][p] \in Bytes'
    BY <1>3, <1>4, <2>2
  <2> QED BY <1>2, <2>3, OthersKeep
<1>7. TypeOK'
  BY <1>1, <1>2, <1>3, <1>6 DEF Kept, TypeOK, Others, mainVars
<1>8. ThreadsKept'
  <2>1. /\ pc'[t] # "none" /\ pc'[t] \notin {"gone", "joined"}
        /\ numthrds' \in MIN_THRDS .. MAX_THRDS /\ t < numthrds'
        /\ seg'[t] = "rem" => rem' > 0 /\ t = numthrds' - 1
    BY <1>1, <1>3, <1>4 DEF Kept, ThreadsKept
  <2> QED BY <2>1, <1>2, OthersKeep DEF ThreadsKept
<1>9. TransfersKept'
  <2>1. DOMAIN buf'[t] = 0 .. Length(t)' - 1
    BY <1>4, <1>5
  <2>2. t \notin faulty' => tw'[t] = 0 /\ tr'[t] = 0
    BY <1>1, <1>4 DEF Kept, TransfersKept
  <2> QED BY <2>1, <2>2, <1>2, <1>4, OthersKeep DEF TransfersKept
<1>10. DestKept'
  <2>1. \A u \in Threads : \A p : Done(u, p)' <=> Done(u, p)
    BY <1>1, <1>3, <1>4, <1>2, OthersKeep, SameDone
  <2> QED BY <1>1, <1>3, <2>1 DEF Kept, DestKept, Right
<1> QED BY <1>1, <1>2, <1>3, <1>7, <1>8, <1>9, <1>10, OthersKeepMain DEF Kept, BuffersKept

\* A share of no bytes: only a source shorter than the number of threads has one.
LEMMA ReadNothingStep ==
  ASSUME Kept, NEW t \in Threads, ReadNothing(t)
  PROVE  Kept'
<1>1. /\ Leave(t) /\ UNCHANGED mainVars /\ pc[t] = "read" /\ Length(t) = 0
      /\ UNCHANGED <<dest, faulty, overread>> /\ leaked' = leaked \cup {t}
  BY DEF ReadNothing
<1>2. /\ Others(t) /\ ThreadsKept' /\ TransfersKept'
      /\ \A u \in Threads : \A p \in DOMAIN buf'[u] : buf'[u][p] \in Bytes'
      /\ \A p : Done(t, p)' <=> Done(t, p) \/ p \in Range(t)
  BY <1>1, Leaving
<1>3. UNCHANGED <<numthrds, fsize>> /\ Bytes' = Bytes /\ \A u : start_offset(u)' = start_offset(u)
  BY <1>1, SameSizes DEF mainVars
<1>4. TypeOK'
  BY <1>1, <1>2, <1>3 DEF Kept, TypeOK, Others, mainVars
<1>5. MainKept'
  BY <1>1, <1>2, OthersKeepMain
<1>6. BuffersKept'
  <2>1. numthrds \in MIN_THRDS .. MAX_THRDS /\ (seg[t] = "rem" => rem > 0)
    BY <1>1 DEF Kept, ThreadsKept
  <2>2. seg[t] = "share" /\ len(t) = 0
    BY <1>1, <2>1, Shares DEF Kept, TypeOK, Length
  <2>3. fsize < numthrds
    BY <2>1, <2>2, Shares DEF Kept
  <2> QED BY <1>1, <1>3, <2>3 DEF Kept, BuffersKept
<1>7. DestKept'
  <2>1. Range(t) = {}
    BY <1>1, Segments DEF Range, Kept
  <2>2. \A u \in Threads : \A p : Done(u, p)' <=> Done(u, p)
    BY <1>2, <2>1, OthersKeep
  <2> QED BY <1>1, <1>3, <2>2 DEF Kept, DestKept, Right
<1> QED BY <1>2, <1>4, <1>5, <1>6, <1>7 DEF Kept

\* A round of reading: a whole one fills the buffer, a short one marks the thread.
LEMMA ReadStep ==
  ASSUME Kept, NEW t \in Threads, fd_read(t)
  PROVE  Kept'
<1>1. PICK k \in 1 .. fsize :
        /\ Transfer(t, Length(t), k)
        /\ buf' = [buf EXCEPT ![t] =
                    [p \in DOMAIN buf[t] |-> IF p < k THEN Offset(t) + p + 1 ELSE buf[t][p]]]
        /\ tr' = [tr EXCEPT ![t] = tr[t] + k]
        /\ pc' = [pc EXCEPT ![t] = IF tr[t] + k < Length(t) THEN "read" ELSE "write"]
  BY DEF fd_read
<1>2. /\ pc[t] = "read" /\ UNCHANGED <<mainVars, seg, tw, dest, overread, leaked>>
  BY DEF fd_read
<1>3. /\ Length(t) \in Nat /\ Offset(t) \in Nat /\ fsize \in Nat
      /\ Offset(t) + Length(t) <= fsize
  BY <1>2, Segments DEF Kept
<1>4. k \in Nat /\ k >= 1 /\ k <= Length(t) /\ faulty' \in {faulty, faulty \cup {t}}
      /\ (t \notin faulty' => k = Length(t) /\ t \notin faulty)
  BY <1>1, <1>3 DEF Transfer
<1>5. Others(t)
  BY <1>1, <1>2, <1>4 DEF Others, Kept, TypeOK
<1>6. /\ UNCHANGED <<numthrds, fsize>> /\ rem' = rem /\ Bytes' = Bytes
      /\ \A u : start_offset(u)' = start_offset(u)
  BY <1>2, SameSizes DEF mainVars
<1>7. /\ pc'[t] = (IF tr[t] + k < Length(t) THEN "read" ELSE "write")
      /\ seg'[t] = seg[t] /\ tr'[t] = tr[t] + k /\ tw'[t] = tw[t]
      /\ buf'[t] = [p \in DOMAIN buf[t] |-> IF p < k THEN Offset(t) + p + 1 ELSE buf[t][p]]
  BY <1>1, <1>2 DEF Kept, TypeOK
<1>8. Length(t)' = Length(t) /\ Offset(t)' = Offset(t)
  BY <1>6, <1>7, SameSizes DEF Length, Offset
<1>9. DOMAIN buf[t] = 0 .. Length(t) - 1
  BY <1>2 DEF Kept, TransfersKept
<1>10. \A u \in Threads : \A p \in DOMAIN buf'[u] : buf'[u][p] \in Bytes'
  <2>1. \A p \in DOMAIN buf[t] : buf[t][p] \in Bytes
    BY DEF Kept, TypeOK
  <2>2. \A p \in 0 .. Length(t) - 1 : Offset(t) + p + 1 \in Bytes
    BY <1>3 DEF Bytes, Junk
  <2>3. \A p \in DOMAIN buf'[t] : buf'[t][p] \in Bytes'
    BY <1>6, <1>7, <1>9, <2>1, <2>2
  <2> QED BY <1>5, <2>3, OthersKeep
<1>11. TypeOK'
  BY <1>2, <1>4, <1>5, <1>6, <1>10 DEF Kept, TypeOK, Others, mainVars
<1>12. ThreadsKept'
  <2>1. /\ pc'[t] # "none" /\ pc'[t] \notin {"gone", "joined"}
        /\ numthrds' \in MIN_THRDS .. MAX_THRDS /\ t < numthrds'
        /\ seg'[t] = "rem" => rem' > 0 /\ t = numthrds' - 1
    BY <1>2, <1>6, <1>7 DEF Kept, ThreadsKept
  <2> QED BY <2>1, <1>5, OthersKeep DEF ThreadsKept
<1>13. TransfersKept'
  <2>1. pc'[t] \in {"read", "write"} /\ DOMAIN buf'[t] = 0 .. Length(t)' - 1
    BY <1>7, <1>8, <1>9
  <2>2. ASSUME t \notin faulty'
        PROVE  /\ tw'[t] = 0 /\ tr'[t] = Length(t)' /\ pc'[t] = "write"
               /\ \A p \in 0 .. Length(t)' - 1 : buf'[t][p] = Offset(t)' + p + 1
    <3>1. tw[t] = 0 /\ tr[t] = 0 /\ k = Length(t)
      BY <1>2, <1>4, <2>2 DEF Kept, TransfersKept
    <3> QED BY <3>1, <1>3, <1>7, <1>8, <1>9
  <2> QED BY <2>1, <2>2, <1>5, OthersKeep DEF TransfersKept
<1>14. DestKept'
  <2>1. \A u \in Threads : \A p : Done(u, p)' <=> Done(u, p)
    BY <1>2, <1>5, <1>6, <1>7, OthersKeep, SameDone
  <2>2. Threads \ faulty' \subseteq Threads \ faulty /\ faulty \subseteq faulty'
    BY <1>4
  <2> QED BY <1>2, <1>6, <2>1, <2>2 DEF Kept, DestKept, Right
<1>15. BuffersKept'
  BY <1>2, <1>4, <1>6 DEF Kept, BuffersKept
<1> QED BY <1>2, <1>5, <1>11, <1>12, <1>13, <1>14, <1>15, OthersKeepMain DEF Kept


\* A round of writing puts bytes at the thread's segment and behind it only, and
\* a thread without a fault puts the source's bytes exactly at its segment.
LEMMA WriteStep ==
  ASSUME Kept, NEW t \in Threads, fd_write(t)
  PROVE  Kept'
<1>1. PICK k \in 1 .. tr[t] :
        /\ Transfer(t, tr[t], k)
        /\ dest' = [p \in DOMAIN dest \cup (0 .. Offset(t) + k - 1) |->
                     IF p \in Offset(t) .. Offset(t) + k - 1 THEN Byte(t, p - Offset(t))
                     ELSE IF p \in DOMAIN dest THEN dest[p] ELSE 0]
        /\ overread' = IF k > Length(t) THEN overread \cup {t} ELSE overread
        /\ IF tw[t] + k >= tr[t]
           THEN Leave(t)
           ELSE tw' = [tw EXCEPT ![t] = tw[t] + k] /\ UNCHANGED <<pc, seg, buf, tr>>
  BY DEF fd_write, nr
<1>2. pc[t] = "write" /\ UNCHANGED <<mainVars, leaked>>
  BY DEF fd_write
<1>3. /\ Length(t) \in Nat /\ Offset(t) \in Nat /\ fsize \in Nat /\ start_offset(t) \in Nat
      /\ Offset(t) + Length(t) <= fsize /\ start_offset(t) <= Offset(t)
  BY <1>2, Segments DEF Kept
<1>4. /\ k \in Nat /\ k >= 1 /\ faulty' \in {faulty, faulty \cup {t}}
      /\ tr[t] \in Nat /\ tw[t] \in Nat
      /\ (t \notin faulty' => k = tr[t] /\ t \notin faulty)
  BY <1>1 DEF Transfer, Kept, TypeOK
<1>5. /\ UNCHANGED <<numthrds, fsize>> /\ rem' = rem /\ Bytes' = Bytes
      /\ \A u : start_offset(u)' = start_offset(u)
  BY <1>2, SameSizes DEF mainVars
<1>6. t \notin faulty' =>
        /\ k = Length(t) /\ Leave(t)
        /\ \A p \in Range(t) : Byte(t, p - Offset(t)) = p + 1
  <2>1. SUFFICES ASSUME t \notin faulty'
                 PROVE  /\ k = Length(t) /\ Leave(t)
                        /\ \A p \in Range(t) : Byte(t, p - Offset(t)) = p + 1
    OBVIOUS
  <2>2. /\ tw[t] = 0 /\ tr[t] = Length(t) /\ k = tr[t]
        /\ DOMAIN buf[t] = 0 .. Length(t) - 1
        /\ \A p \in 0 .. Length(t) - 1 : buf[t][p] = Offset(t) + p + 1
    BY <1>2, <1>4, <2>1 DEF Kept, TransfersKept
  <2>3. \A p \in Range(t) : p - Offset(t) \in 0 .. Length(t) - 1
                            /\ Offset(t) + (p - Offset(t)) + 1 = p + 1
    BY <1>3 DEF Range
  <2>4. \A p \in Range(t) : Byte(t, p - Offset(t)) = p + 1
    BY <2>2, <2>3 DEF Byte
  <2>5. tw[t] + k >= tr[t]
    BY <1>4, <2>2
  <2> QED BY <1>1, <2>2, <2>4, <2>5
<1>7. /\ Others(t) /\ ThreadsKept' /\ TransfersKept'
      /\ \A u \in Threads : \A p \in DOMAIN buf'[u] : buf'[u][p] \in Bytes'
      /\ \/ \A p : Done(t, p)' <=> Done(t, p) \/ p \in Range(t)
         \/ t \in faulty'
  <2>1. CASE Leave(t)
    BY <1>2, <1>4, <2>1, Leaving
  <2>2. CASE ~Leave(t)
    <3>1. tw' = [tw EXCEPT ![t] = tw[t] + k] /\ UNCHANGED <<pc, seg, buf, tr>>
      BY <1>1, <2>2
    <3>2. t \in faulty'
      BY <1>6, <2>2
    <3>3. Others(t)
      BY <1>2, <1>4, <3>1 DEF Others, Kept, TypeOK
    <3>4. Length(t)' = Length(t) /\ Offset(t)' = Offset(t)
      BY <1>5, <3>1, SameSizes DEF Length, Offset
    <3>5. \A u \in Threads : \A p \in DOMAIN buf'[u] : buf'[u][p] \in Bytes'
      BY <1>5, <3>1 DEF Kept, TypeOK
    <3>6. ThreadsKept'
      <4>1. /\ pc'[t] # "none" /\ pc'[t] \notin {"gone", "joined"}
            /\ numthrds' \in MIN_THRDS .. MAX_THRDS /\ t < numthrds'
            /\ seg'[t] = "rem" => rem' > 0 /\ t = numthrds' - 1
        BY <1>2, <1>5, <3>1 DEF Kept, ThreadsKept
      <4> QED BY <4>1, <3>3, OthersKeep DEF ThreadsKept
    <3>7. TransfersKept'
      <4>1. pc'[t] = "write" /\ DOMAIN buf'[t] = 0 .. Length(t)' - 1
        BY <1>2, <3>1, <3>4 DEF Kept, TransfersKept
      <4> QED BY <4>1, <3>2, <3>3, OthersKeep DEF TransfersKept
    <3> QED BY <3>2, <3>3, <3>5, <3>6, <3>7
  <2> QED BY <2>1, <2>2
<1>8. /\ DOMAIN dest' = DOMAIN dest \cup (0 .. Offset(t) + k - 1)
      /\ \A p \in DOMAIN dest' :
           dest'[p] = IF p \in Offset(t) .. Offset(t) + k - 1 THEN Byte(t, p - Offset(t))
                      ELSE IF p \in DOMAIN dest THEN dest[p] ELSE 0
  BY <1>1
<1>9. TypeOK'
  <2>1. \A p : Byte(t, p) \in Bytes
    BY <1>3 DEF Kept, TypeOK, Byte, Bytes, Junk
  <2>2. 0 \in Bytes
    BY <1>3 DEF Bytes, Junk
  <2>3. \A p \in DOMAIN dest : p \in Nat /\ dest[p] \in Bytes
    BY DEF Kept, TypeOK
  <2>4. \A p \in DOMAIN dest' : p \in Nat
    BY <1>3, <1>4, <1>8, <2>3
  <2>5. \A p \in DOMAIN dest' : dest'[p] \in Bytes
    BY <1>8, <2>1, <2>2, <2>3
  <2> QED BY <1>2, <1>4, <1>5, <1>7, <2>4, <2>5 DEF Kept, TypeOK, Others, mainVars
<1>10. BuffersKept'
  <2>1. k > Length(t) => t \in faulty'
    BY <1>3, <1>6
  <2> QED BY <1>1, <1>2, <1>4, <1>5, <2>1 DEF Kept, BuffersKept
<1>11. DestKept'
  <2>1. Threads \ faulty' \subseteq Threads \ faulty /\ faulty \subseteq faulty'
    BY <1>4
  <2>2. \A u \in Threads \ {t} : \A p : Done(u, p)' <=> Done(u, p)
    BY <1>7, OthersKeep
  <2>3. ASSUME NEW u \in Threads \ faulty', NEW p \in 0 .. fsize - 1, Done(u, p)',
               \A f \in faulty' : p < start_offset(f)
        PROVE  p \in DOMAIN dest' /\ dest'[p] = p + 1
    <3>1. Done(u, p) => p \in DOMAIN dest /\ dest[p] = p + 1
      BY <2>1, <2>3 DEF Kept, DestKept, Right
    <3>2. Done(u, p) \/ (u = t /\ p \in Range(t))
      BY <1>7, <2>2, <2>3
    <3>3. CASE t \in faulty'
      <4>1. p \notin Offset(t) .. Offset(t) + k - 1
        BY <1>3, <1>4, <2>3, <3>3
      <4> QED BY <1>8, <2>3, <3>1, <3>2, <3>3, <4>1
    <3>4. CASE t \notin faulty'
      <4>1. Range(t) = Offset(t) .. Offset(t) + k - 1 /\ \A q \in Range(t) : q \in DOMAIN dest'
        BY <1>3, <1>4, <1>6, <1>8, <3>4 DEF Range
      <4> QED BY <1>6, <1>8, <3>1, <3>2, <3>4, <4>1
    <3> QED BY <3>3, <3>4
  <2>4. ASSUME faulty' = {}, NEW p \in DOMAIN dest'
        PROVE  /\ dest'[p] = p + 1 => \E u \in Threads : Done(u, p)'
               /\ p >= fsize => dest'[p] = Old
    <3>1. faulty = {} /\ t \notin faulty' /\ p \in Nat
      BY <2>1, <2>4, <1>9 DEF TypeOK
    <3>2. Range(t) = Offset(t) .. Offset(t) + k - 1 /\ k = Length(t)
      BY <1>6, <3>1 DEF Range
    <3>3. \A u \in Threads : \A q : Done(u, q)' <=> Done(u, q) \/ (u = t /\ q \in Range(t))
      BY <1>7, <2>2, <3>1
    <3>4. CASE p \in Range(t)
      BY <1>3, <3>3, <3>4 DEF Range
    <3>5. CASE p \notin Range(t) /\ p \in DOMAIN dest
      <4>1. dest'[p] = dest[p]
        BY <1>8, <3>2, <3>5
      <4>2. /\ dest[p] = p + 1 => \E u \in Threads : Done(u, p)
            /\ p >= fsize => dest[p] = Old
        BY <3>1, <3>5 DEF Kept, DestKept, Right
      <4> QED BY <3>3, <4>1, <4>2
    <3>6. CASE p \notin Range(t) /\ p \notin DOMAIN dest
      <4>1. dest'[p] = 0 /\ p \in 0 .. Offset(t) + k - 1
        BY <1>8, <3>2, <3>6
      <4> QED BY <4>1, <1>3, <3>1, <3>2
    <3> QED BY <3>4, <3>5, <3>6
  <2> QED BY <1>5, <2>3, <2>4 DEF DestKept, Right
<1> QED BY <1>2, <1>7, <1>9, <1>10, <1>11, OthersKeepMain DEF Kept

-----------------------------------------------------------------------------
\* No step of main or of a thread breaks the invariant.
LEMMA KeptNext == Kept /\ [Next]_vars => Kept'
<1> SUFFICES ASSUME Kept, [Next]_vars PROVE Kept'
  OBVIOUS
<1>1. CASE Main \/ Create \/ Join
  BY <1>1, MainSteps
<1>2. ASSUME NEW t \in Threads, Work(t) PROVE Kept'
  BY <1>2, MallocStep, ReadStep, ReadEndStep, ReadNothingStep, WriteStep, FailStep DEF Work
<1>3. CASE UNCHANGED vars
  BY <1>3 DEF vars, Kept, TypeOK, BuffersKept, MainKept, ThreadsKept, TransfersKept, DestKept,
              Done, Range, Right, Offset, Length, start_offset, len, rem, Bytes
<1> QED BY <1>1, <1>2, <1>3 DEF Next

\* Every thread of mt_copy keeps to its segment and its buffer, and as long as
\* no transfer is short or fails no byte of the destination is written twice.
THEOREM SegmentsInvariant == Spec => []SegmentsKept
<1>1. Kept => SegmentsKept
  BY KeptImpliesOnce DEF Kept, SegmentsKept
<1> QED BY <1>1, KeptInit, KeptNext, PTL DEF Spec

\* When mt_copy ends, the destination holds the source up to the share of the first
\* thread that met a failing or short transfer, and all of it if none did.
THEOREM CopyIsRight == Spec => []Copied
BY KeptInit, KeptNext, KeptImpliesCopied, PTL DEF Spec
=============================================================================
