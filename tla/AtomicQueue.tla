------------------------------ MODULE AtomicQueue ------------------------------
(***************************************************************************)
(* What the users of lib/prio_queue.c rely on: under its mutex a queue is  *)
(* a sorted sequence of jobs that threads add to and take from in single   *)
(* steps.  Module Pronto is written in terms of this queue, and module     *)
(* PrioList, the linked list with its pointers, implements it.             *)
(***************************************************************************)
EXTENDS PrioQueue

CONSTANTS Threads, NULL

VARIABLES queue,   \* the jobs, first to leave first
          node     \* per thread: the job it dequeued and has not freed yet

vars == <<queue, node>>

Init == queue = <<>> /\ node = [t \in Threads |-> NULL]

Enqueue(j) ==
    /\ j \notin ToSet(queue) /\ \A t \in Threads : node[t] # j
    /\ queue' = prio_queue_enqueue(queue, j)
    /\ UNCHANGED node

Dequeue(t) ==
    /\ node[t] = NULL /\ queue # <<>>
    /\ node' = [node EXCEPT ![t] = Head(queue)]
    /\ queue' = prio_queue_fifo_dequeue(queue)

Free(t) ==
    /\ node[t] # NULL
    /\ node' = [node EXCEPT ![t] = NULL]
    /\ UNCHANGED queue

Next == (\E j \in Job : Enqueue(j)) \/ (\E t \in Threads : Dequeue(t) \/ Free(t))

Spec == Init /\ [][Next]_vars
================================================================================
