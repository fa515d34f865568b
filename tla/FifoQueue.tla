----------------------------- MODULE FifoQueue -----------------------------
(***************************************************************************)
(* What src/queue.h promises to the callers of the request queue, without  *)
(* nodes, mutex or condition variable: a first-in first-out buffer that    *)
(* can be closed, whose queue_dequeue returns NULL only when the buffer is *)
(* closed and empty, and which owns a request from the moment it accepts   *)
(* it until it hands it to exactly one caller or frees it on destruction.  *)
(* Queue.tla, the model of src/queue.c, is shown to implement this module. *)
(***************************************************************************)
EXTENDS Naturals, Sequences

CONSTANTS Threads,   \* the threads that call the queue
          Requests,  \* the request_t objects passed to it, each passed once
          NULL       \* the null pointer

VARIABLES buf,       \* the accepted requests not yet taken, oldest first
          closed,    \* the queue was closed
          result,    \* result[t]: <<v>> when t's queue_dequeue has fixed its
                     \* return value v and not returned yet, << >> otherwise
          fate       \* fate[r]: where the request r is in its life

fifoVars == <<buf, closed, result, fate>>

Init ==
    /\ buf = << >>
    /\ closed = FALSE
    /\ result = [t \in Threads |-> << >>]
    /\ fate = [r \in Requests |-> "fresh"]

\* A caller passes the request r to queue_enqueue.
Offer(r) ==
    /\ fate[r] = "fresh"
    /\ fate' = [fate EXCEPT ![r] = "calling"]
    /\ UNCHANGED <<buf, closed, result>>

\* The queue accepts r at its back; it must not be closed.
Put(r) ==
    /\ fate[r] = "calling"
    /\ ~closed
    /\ buf' = Append(buf, r)
    /\ fate' = [fate EXCEPT ![r] = "queued"]
    /\ UNCHANGED <<closed, result>>

\* A closed queue refuses r, and leaves it to nobody.
Refuse(r) ==
    /\ fate[r] = "calling"
    /\ closed
    /\ fate' = [fate EXCEPT ![r] = "refused"]
    /\ UNCHANGED <<buf, closed, result>>

\* A dequeuing thread takes the oldest request.
Take(t) ==
    /\ result[t] = << >>
    /\ buf # << >>
    /\ result' = [result EXCEPT ![t] = <<Head(buf)>>]
    /\ buf' = Tail(buf)
    /\ UNCHANGED <<closed, fate>>

\* A dequeuing thread finds the queue closed and empty: its result is NULL.
TakeNull(t) ==
    /\ result[t] = << >>
    /\ buf = << >>
    /\ closed
    /\ result' = [result EXCEPT ![t] = <<NULL>>]
    /\ UNCHANGED <<buf, closed, fate>>

\* queue_dequeue returns to its caller, which now owns the request.
Return(t) ==
    /\ result[t] # << >>
    /\ LET r == result[t][1] IN
         IF r = NULL THEN UNCHANGED fate
         ELSE /\ fate[r] = "queued"
              /\ fate' = [fate EXCEPT ![r] = "delivered"]
    /\ result' = [result EXCEPT ![t] = << >>]
    /\ UNCHANGED <<buf, closed>>

Close ==
    /\ closed' = TRUE
    /\ UNCHANGED <<buf, result, fate>>

\* Destruction frees the requests still in the queue, oldest first, when no
\* thread is inside queue_dequeue.
Drop ==
    /\ buf # << >>
    /\ \A t \in Threads : result[t] = << >>
    /\ fate[Head(buf)] = "queued"
    /\ fate' = [fate EXCEPT ![Head(buf)] = "freed"]
    /\ buf' = Tail(buf)
    /\ UNCHANGED <<closed, result>>

Next ==
    \/ \E r \in Requests : Offer(r) \/ Put(r) \/ Refuse(r)
    \/ \E t \in Threads : Take(t) \/ TakeNull(t) \/ Return(t)
    \/ Close
    \/ Drop

Spec == Init /\ [][Next]_fifoVars
=============================================================================
