------------------------------ MODULE PrioQueue ------------------------------
(***************************************************************************)
(* The job queue of lib/prio_queue.c as a value: the sequence of the jobs  *)
(* reached from head by following next.  The C queue is a singly linked    *)
(* list; module PrioList models its pointers and is shown to implement     *)
(* these operators.  Every queue of the program (the job queue, the        *)
(* waiting queue, one queue per cluster worker) is one of these.           *)
(*                                                                         *)
(* A job (lib/h/job.h) carries nothing but its request.  The elements of   *)
(* Job are the individual jobs, so that two jobs with equal requests stay  *)
(* apart; Request gives the 32-bit word each of them carries.              *)
(***************************************************************************)
EXTENDS Naturals, Sequences, FiniteSetsExt, SequencesExt

CONSTANTS Job,      \* the jobs
          Request   \* Request[j] is node->value->request of job j

ASSUME RequestAssumption == Request \in [Job -> Nat]

\* The positions at which the walk of prio_queue_enqueue stops: an item that is
\* not smaller than the new one.
StopsAt(q, el) == {i \in 1..Len(q) : Request[q[i]] >= Request[el]}

\* Seeded defect: a plain FIFO queue.
enqueue_last(q, el) == Append(q, el)

\* prio_queue_enqueue: the new element goes in front of the first item that is
\* not smaller, and to the bottom when every item is smaller.  Among equal
\* requests the newcomer is therefore the first to leave.
prio_queue_enqueue(q, el) ==
    LET stops == StopsAt(q, el)
        pos   == IF stops = {} THEN Len(q) + 1 ELSE Min(stops)
    IN  InsertAt(q, pos, el)

\* prio_queue_fifo_dequeue removes the head; its callers find NULL in an empty
\* queue and Head(q) otherwise.
prio_queue_fifo_dequeue(q) == IF q = <<>> THEN q ELSE Tail(q)

\* The order every queue is meant to keep: smallest request first.
Sorted(q) == \A i, k \in 1..Len(q) : i < k => Request[q[i]] <= Request[q[k]]
==============================================================================
