------------------------------- MODULE PrioList -------------------------------
(***************************************************************************)
(* lib/prio_queue.c: a singly linked list with head, tail and size, used   *)
(* by several threads under one mutex, the way pronto.c, scheduler_worker.c*)
(* and cluster_worker.c use every queue of the program.  The walk of an    *)
(* enqueue is taken one node at a time.                                    *)
(***************************************************************************)
EXTENDS PrioQueue

CONSTANTS Threads, NULL

ASSUME PrioListAssumption ==
    /\ IsFiniteSet(Job)
    /\ NULL \notin Job /\ NULL \notin Threads

VARIABLES
    head, tail, size,   \* struct prio_queue
    next,               \* el->next of every node
    mutex,              \* the thread that holds the queue's mutex, or NULL
    thread              \* per thread: pc, its locals and the node it holds

listVars == <<head, tail, size, next>>
vars == <<listVars, mutex, thread>>

Asleep == [pc |-> "idle", el |-> NULL, curr_item |-> NULL,
           prev_of_curr_item |-> NULL, node |-> NULL]

\* The nodes met by following next from head, at most k of them.
Reached[k \in 0..Cardinality(Job)] ==
    IF k = 0 THEN <<>>
    ELSE LET q == Reached[k - 1]
             n == IF q = <<>> THEN head ELSE next[Last(q)]
         IN  IF n = NULL THEN q ELSE Append(q, n)
Chain == Reached[Cardinality(Job)]

\* prio_queue_init
Init ==
    /\ head = NULL /\ tail = NULL /\ size = 0
    /\ next = [n \in Job |-> NULL]
    /\ mutex = NULL
    /\ thread = [t \in Threads |-> Asleep]

\* Memory that calloc may hand out.
Unused(n) ==
    /\ n \notin ToSet(Chain)
    /\ \A t \in Threads : thread[t].el # n /\ thread[t].node # n

\* pronto_add_job and its two twins: calloc a node, then enqueue it.
CallEnqueue(t, n) ==
    /\ thread[t].pc = "idle" /\ Unused(n)
    /\ next' = [next EXCEPT ![n] = NULL]
    /\ thread' = [thread EXCEPT ![t].pc = "enqueue", ![t].el = n]
    /\ UNCHANGED <<head, tail, size, mutex>>

\* With the mutex taken: the empty list, or the start of the walk at the head.
EnqueueFirst(t) ==
    LET el == thread[t].el IN
    /\ thread[t].pc = "enqueue" /\ mutex = NULL /\ size = 0
    /\ head' = el /\ tail' = el
    /\ next' = [next EXCEPT ![el] = NULL]
    /\ mutex' = t
    /\ thread' = [thread EXCEPT ![t].pc = "grow"]
    /\ UNCHANGED size

EnqueueWalk(t) ==
    /\ thread[t].pc = "enqueue" /\ mutex = NULL /\ size # 0
    /\ mutex' = t
    /\ thread' = [thread EXCEPT ![t].pc = "walk", ![t].curr_item = head,
                                ![t].prev_of_curr_item = NULL]
    /\ UNCHANGED listVars

\* Seeded defect: the walk also passes equal requests.
AtPlaceBehindEquals(t) == thread[t].curr_item # NULL =>
                            Request[thread[t].curr_item] > Request[thread[t].el]

\* Is the walk at the end of the smaller requests?
AtPlace(t) == thread[t].curr_item # NULL =>
                 Request[thread[t].curr_item] >= Request[thread[t].el]

Walk(t) ==
    /\ thread[t].pc = "walk" /\ ~AtPlace(t)
    /\ thread' = [thread EXCEPT ![t].prev_of_curr_item = thread[t].curr_item,
                                ![t].curr_item = next[thread[t].curr_item]]
    /\ UNCHANGED <<listVars, mutex>>

\* Seeded defect: linking at the bottom leaves tail behind.
InsertKeepsTail(t) ==
    LET el == thread[t].el  prev == thread[t].prev_of_curr_item IN
    /\ thread[t].pc = "walk" /\ AtPlace(t)
    /\ head' = IF prev = NULL THEN el ELSE head
    /\ next' = IF prev = NULL THEN [next EXCEPT ![el] = thread[t].curr_item]
               ELSE [next EXCEPT ![prev] = el, ![el] = thread[t].curr_item]
    /\ thread' = [thread EXCEPT ![t].pc = "grow"]
    /\ UNCHANGED <<tail, size, mutex>>

\* Link the new node in: on top, at the bottom, or between two nodes.
Insert(t) ==
    LET el   == thread[t].el
        curr == thread[t].curr_item
        prev == thread[t].prev_of_curr_item
    IN
    /\ thread[t].pc = "walk" /\ AtPlace(t)
    /\ \/ /\ prev = NULL
          /\ head' = el /\ next' = [next EXCEPT ![el] = curr]
          /\ UNCHANGED tail
       \/ /\ prev # NULL /\ curr = NULL
          /\ next' = [next EXCEPT ![el] = NULL, ![tail] = el]
          /\ tail' = el
          /\ UNCHANGED head
       \/ /\ prev # NULL /\ curr # NULL
          /\ next' = [next EXCEPT ![prev] = el, ![el] = curr]
          /\ UNCHANGED <<head, tail>>
    /\ thread' = [thread EXCEPT ![t].pc = "grow"]
    /\ UNCHANGED <<size, mutex>>

\* size++, and the mutex is released.
Grow(t) ==
    /\ thread[t].pc = "grow"
    /\ size' = size + 1
    /\ mutex' = NULL
    /\ thread' = [thread EXCEPT ![t] = Asleep]
    /\ UNCHANGED <<head, tail, next>>

\* prio_queue_fifo_dequeue under the mutex; NULL when the list is empty.
Dequeue(t) ==
    /\ thread[t].pc = "idle" /\ mutex = NULL
    /\ \/ /\ size = 0
          /\ UNCHANGED <<listVars, thread>>
       \/ /\ size # 0
          /\ head' = next[head]
          /\ size' = size - 1
          /\ tail' = IF head' = NULL THEN NULL ELSE tail
          /\ thread' = [thread EXCEPT ![t].pc = "dequeued", ![t].node = head]
          /\ UNCHANGED next
    /\ UNCHANGED mutex

\* The caller frees the node: "dequeue doesn't free" (scheduler_worker.c).
Free(t) ==
    /\ thread[t].pc = "dequeued"
    /\ thread' = [thread EXCEPT ![t] = Asleep]
    /\ UNCHANGED <<listVars, mutex>>

Next == \E t \in Threads :
    \/ \E n \in Job : CallEnqueue(t, n)
    \/ EnqueueFirst(t) \/ EnqueueWalk(t) \/ Walk(t) \/ Insert(t) \/ Grow(t)
    \/ Dequeue(t) \/ Free(t)

Spec == Init /\ [][Next]_vars

-------------------------------------------------------------------------------
\* The list is well formed whatever the order of the calls: it ends at tail, all
\* its nodes are counted once nobody is inside, and the assertion that closes
\* every insertion ("list->tail->next == NULL", prio_queue.c) never fails.
ListShape ==
    /\ tail = IF Chain = <<>> THEN NULL ELSE Last(Chain)
    /\ mutex = NULL => size = Len(Chain)
    /\ \A t \in Threads : thread[t].pc = "grow" => next[tail] = NULL

\* The linked list is the queue that the other modules use, walk and all.
Atomic == INSTANCE AtomicQueue WITH
    queue <- Chain, node <- [t \in Threads |-> thread[t].node]
ImplementsAtomicQueue == Atomic!Spec
===============================================================================
