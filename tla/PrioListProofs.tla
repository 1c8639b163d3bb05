---------------------------- MODULE PrioListProofs ----------------------------
(***************************************************************************)
(* The linked list of PrioList keeps its shape and implements the queue of *)
(* AtomicQueue, whatever threads, nodes and requests there are.            *)
(***************************************************************************)
EXTENDS PrioList, PrioQueueProofs

-------------------------------------------------------------------------------
(* The inductive invariant. *)

Node == Job \cup {NULL}
Pc   == {"idle", "enqueue", "walk", "grow", "dequeued"}

TypeOK ==
    /\ size \in Nat
    /\ next \in [Job -> Node]
    /\ mutex \in Threads \cup {NULL}
    /\ thread \in [Threads -> [pc : Pc, el : Node, curr_item : Node,
                               prev_of_curr_item : Node, node : Node]]

\* The nodes of q, each of them once, are those from head along next to NULL.
Links(q) ==
    /\ q \in Seq(Job)
    /\ \A i, k \in 1..Len(q) : q[i] = q[k] => i = k
    /\ head = IF q = <<>> THEN NULL ELSE q[1]
    /\ \A i \in 1..Len(q) : next[q[i]] = IF i = Len(q) THEN NULL ELSE q[i + 1]

\* The mutex is held from the start of an insertion to its end, and the size is
\* behind by the node that has been linked in and not yet counted.
Counted(q) ==
    /\ \A t \in Threads : mutex = t <=> thread[t].pc \in {"walk", "grow"}
    /\ size = IF \E t \in Threads : thread[t].pc = "grow" THEN Len(q) - 1 ELSE Len(q)
    /\ \A t \in Threads : thread[t].pc \in {"walk", "grow"} => q # <<>>

\* A thread that enqueues has a node of its own, in the list of nobody and in
\* the hands of nobody else; a thread holds a dequeued node until it frees it.
HandsApart(q) == \A t \in Threads :
    /\ thread[t].node # NULL <=> thread[t].pc = "dequeued"
    /\ thread[t].pc \in {"enqueue", "walk"} =>
         /\ thread[t].el \in Job \ ToSet(q)
         /\ \A u \in Threads :
              /\ thread[u].node # thread[t].el
              /\ u # t /\ thread[u].pc \in {"enqueue", "walk"}
                   => thread[u].el # thread[t].el

\* A walk has passed the first i nodes, all of them smaller than its own.
HasPassed(t, q, i) ==
    /\ thread[t].prev_of_curr_item = IF i = 0 THEN NULL ELSE q[i]
    /\ thread[t].curr_item = IF i = Len(q) THEN NULL ELSE q[i + 1]
    /\ \A k \in 1..i : Request[q[k]] < Request[thread[t].el]
Walks(q) == \A t \in Threads :
    thread[t].pc = "walk" => \E i \in 0..Len(q) : HasPassed(t, q, i)

EndsAtTail(q) == tail = IF q = <<>> THEN NULL ELSE q[Len(q)]

ListOf(q) == Links(q) /\ Counted(q) /\ HandsApart(q) /\ Walks(q) /\ EndsAtTail(q)
ListInv == TypeOK /\ ListOf(Chain)

-------------------------------------------------------------------------------
(* The recursive definition of Chain, once and for all. *)

\* No sequence without repetitions is longer than the number of jobs.
LEMMA ShortEnough ==
    ASSUME NEW q \in Seq(Job), \A i, k \in 1..Len(q) : q[i] = q[k] => i = k
    PROVE  Len(q) <= Cardinality(Job) /\ Cardinality(Job) \in Nat
<1>1. IsFiniteSet(Job) /\ Cardinality(Job) \in Nat
  BY PrioListAssumption, FS_CardinalityType
<1>2. IsFiniteSet(1..Len(q)) /\ Cardinality(1..Len(q)) = Len(q)
  <2>1. PICK n \in Nat : n = Len(q)
    OBVIOUS
  <2>2. IsFiniteSet(1..n) /\ Cardinality(1..n) = n
    BY FS_Interval
  <2> QED  BY <2>1, <2>2
<1>3. q \in [1..Len(q) -> Job]
  OBVIOUS
<1>4. ~(Cardinality(Job) < Len(q))
  BY <1>1, <1>2, <1>3, FS_PigeonHole
<1> QED  BY <1>1, <1>4

\* What is linked from head along next is Chain.
ChainIsLinked == \A q : Links(q) => Chain = q

\* Following next from head yields the sequence the nodes are linked in.
LEMMA LinksAreChain == ChainIsLinked
<1> SUFFICES ASSUME NEW q, Links(q)  PROVE Chain = q
  BY DEF ChainIsLinked
<1> DEFINE N == Cardinality(Job)
           first(k) == SubSeq(q, 1, IF k <= Len(q) THEN k ELSE Len(q))
           after(p) == IF p = <<>> THEN head ELSE next[Last(p)]
           longer(p) == IF after(p) = NULL THEN p ELSE Append(p, after(p))
           step(f) == [k \in 0..N |-> IF k = 0 THEN <<>> ELSE longer(f[k - 1])]
<1>1. /\ q \in Seq(Job) /\ NULL \notin Job
      /\ head = IF q = <<>> THEN NULL ELSE q[1]
      /\ \A i \in 1..Len(q) : next[q[i]] = IF i = Len(q) THEN NULL ELSE q[i + 1]
  BY PrioListAssumption DEF Links
<1>2. Len(q) \in 0..N /\ N \in Nat
  BY ShortEnough DEF Links
<1> HIDE DEF N
<1>3. ASSUME NEW k \in 1..N
      PROVE  first(k) = longer(first(k - 1))
  <2>1. CASE k <= Len(q)
    <3>1. /\ first(k) = SubSeq(q, 1, k) /\ first(k - 1) = SubSeq(q, 1, k - 1)
          /\ k - 1 \in 0..Len(q)
      BY <1>2, <2>1
    <3>2. after(first(k - 1)) = q[k]
      <4>1. CASE k = 1
        BY <1>1, <2>1, <3>1, <4>1
      <4>2. CASE k # 1
        BY <1>1, <2>1, <3>1, <4>2 DEF Last
      <4> QED  BY <4>1, <4>2
    <3>3. q[k] \in Job
      BY <1>1, <2>1
    <3>4. SubSeq(q, 1, k) = Append(SubSeq(q, 1, k - 1), q[k])
      BY <1>1, <2>1
    <3> QED  BY <1>1, <3>1, <3>2, <3>3, <3>4
  <2>2. CASE k > Len(q)
    <3>1. first(k) = q /\ first(k - 1) = q
      BY <1>1, <1>2, <2>2
    <3>2. CASE q = <<>>
      BY <1>1, <3>1, <3>2
    <3>3. CASE q # <<>>
      <4>1. Len(q) \in 1..Len(q)
        BY <1>1, <3>3
      <4>2. next[Last(q)] = NULL
        BY <1>1, <4>1 DEF Last
      <4>3. longer(q) = q
        BY <3>3, <4>2
      <4> HIDE DEF first, longer
      <4> QED  BY <3>1, <4>3
    <3> QED  BY <3>2, <3>3
  <2> QED  BY <1>1, <2>1, <2>2
<1> HIDE DEF longer
<1>4. first(0) = <<>> /\ first(N) = q
  BY <1>1, <1>2
<1>5. PICK g : g = [k \in 0..N |-> first(k)]
  OBVIOUS
<1> HIDE DEF first
<1>6. g = step(g)
  <2>1. \A k \in 1..N : k - 1 \in 0..N /\ k \in 0..N
    BY <1>2
  <2>2. \A k \in 0..N : g[k] = IF k = 0 THEN <<>> ELSE longer(g[k - 1])
    BY <1>2, <1>3, <1>4, <1>5, <2>1
  <2> QED  BY <1>5, <2>2
<1>7. Reached = step(Reached)
  <2>1. Reached = CHOOSE f : f = step(f)
    BY DEF Reached, longer, N
  <2> HIDE DEF step
  <2> QED  BY <1>6, <2>1
<1>8. Reached[N] = g[N]
  <2> DEFINE wrong == {k \in 0..N : Reached[k] # g[k]}
  <2>1. SUFFICES ASSUME wrong # {}  PROVE FALSE
    BY <1>2
  <2>2. wrong \in SUBSET Nat
    OBVIOUS
  <2>3. PICK k \in wrong : \A m \in wrong : k <= m
    BY <2>1, <2>2, MinOfNaturals
  <2>4. k \in 1..N /\ k - 1 \in 0..N /\ k - 1 \notin wrong
    <3>1. k \in 0..N /\ Reached[k] # g[k]
      BY <2>3
    <3>2. Reached[0] = <<>> /\ g[0] = <<>>
      BY <1>2, <1>6, <1>7
    <3>3. k \in 1..N
      BY <1>2, <3>1, <3>2
    <3> QED  BY <1>2, <2>3, <3>3
  <2> QED  BY <1>6, <1>7, <2>3, <2>4
<1> QED  BY <1>2, <1>4, <1>5, <1>8 DEF Chain, N

-------------------------------------------------------------------------------
(* The steps, one by one.  q is the list before a step. *)

\* The values keep their types.
LEMMA TypeStep ==
    ASSUME TypeOK, NEW q, ListOf(q), [Next]_vars
    PROVE  TypeOK'
<1>1. /\ head \in Node /\ (size # 0 => head \in Job)
      /\ \A t \in Threads : thread[t].pc \in {"enqueue", "walk"} => thread[t].el \in Job
      /\ NULL \notin Job
  <2>1. /\ q \in Seq(Job) /\ head = IF q = <<>> THEN NULL ELSE q[1]
        /\ size # 0 => q # <<>>
    BY DEF ListOf, Links, Counted, TypeOK
  <2> QED  BY <2>1, PrioListAssumption DEF ListOf, HandsApart, Node
<1> USE DEF TypeOK, Pc, Node
<1>2. CASE UNCHANGED vars
  BY <1>2 DEF vars, listVars
<1>3. ASSUME NEW t \in Threads, NEW n \in Job, CallEnqueue(t, n)  PROVE TypeOK'
  BY ZenonT(60), <1>3 DEF CallEnqueue
<1>4. ASSUME NEW t \in Threads, EnqueueFirst(t)  PROVE TypeOK'
  <2>1. next' \in [Job -> Node] /\ size' = size /\ mutex' = t
    BY <1>4 DEF EnqueueFirst
  <2>2. thread' = [thread EXCEPT ![t].pc = "grow"]
    BY <1>4 DEF EnqueueFirst
  <2>3. thread' \in [Threads -> [pc : Pc, el : Node, curr_item : Node,
                                 prev_of_curr_item : Node, node : Node]]
    BY <2>2
  <2> QED  BY <2>1, <2>3
<1>5. ASSUME NEW t \in Threads, EnqueueWalk(t)  PROVE TypeOK'
  <2>1. next' = next /\ size' = size /\ mutex' = t
    BY <1>5 DEF EnqueueWalk, listVars
  <2>2. /\ thread' = [thread EXCEPT ![t] = [thread[t] EXCEPT !.pc = "walk",
                          !.curr_item = head, !.prev_of_curr_item = NULL]]
        /\ [thread[t] EXCEPT !.pc = "walk", !.curr_item = head, !.prev_of_curr_item = NULL]
             \in [pc : Pc, el : Node, curr_item : Node,
                  prev_of_curr_item : Node, node : Node]
    BY <1>1, <1>5 DEF EnqueueWalk
  <2>3. thread' \in [Threads -> [pc : Pc, el : Node, curr_item : Node,
                                 prev_of_curr_item : Node, node : Node]]
    BY <1>1, <2>2
  <2> QED  BY <2>1, <2>3
<1>6. ASSUME NEW t \in Threads, Walk(t)  PROVE TypeOK'
  <2>1. thread[t].curr_item \in Job
    BY <1>6 DEF Walk, AtPlace
  <2> QED  BY ZenonT(60), <1>6, <2>1 DEF Walk, listVars
<1>7. ASSUME NEW t \in Threads, Insert(t)  PROVE TypeOK'
  <2>1. /\ size' = size /\ mutex' = mutex
        /\ thread' = [thread EXCEPT ![t].pc = "grow"]
    BY <1>7 DEF Insert
  <2>2. next' \in [Job -> Node]
    BY <1>1, <1>7 DEF Insert
  <2> QED  BY <2>1, <2>2
<1>8. ASSUME NEW t \in Threads, Grow(t)  PROVE TypeOK'
  BY <1>8 DEF Grow, Asleep
<1>9. ASSUME NEW t \in Threads, Dequeue(t)  PROVE TypeOK'
  <2>1. next' = next /\ mutex' = mutex /\ size' \in Nat
    BY <1>9 DEF Dequeue, listVars
  <2>2. thread' \in [Threads -> [pc : Pc, el : Node, curr_item : Node,
                                 prev_of_curr_item : Node, node : Node]]
    BY <1>1, <1>9 DEF Dequeue
  <2> QED  BY <2>1, <2>2
<1>10. ASSUME NEW t \in Threads, Free(t)  PROVE TypeOK'
  BY <1>10 DEF Free, Asleep, listVars
<1> QED
  BY <1>2, <1>3, <1>4, <1>5, <1>6, <1>7, <1>8, <1>9, <1>10 DEF Next

\* A thread takes a node of its own.
LEMMA CallEnqueueStep ==
    ASSUME TypeOK, NEW q, ListOf(q), q = Chain, NEW t \in Threads, NEW n \in Job,
           CallEnqueue(t, n)
    PROVE  ListOf(q)'
<1>1. /\ thread[t].pc = "idle" /\ n \notin ToSet(q)
      /\ \A u \in Threads : thread[u].el # n /\ thread[u].node # n
      /\ next' = [next EXCEPT ![n] = NULL]
      /\ UNCHANGED <<head, tail, size, mutex>>
  BY DEF CallEnqueue, Unused
<1>2. /\ thread'[t].pc = "enqueue" /\ thread'[t].el = n /\ thread'[t].node = thread[t].node
      /\ \A u \in Threads \ {t} : thread'[u] = thread[u]
  BY DEF CallEnqueue, TypeOK
<1>3. Links(q)'
  <2>1. q \in Seq(Job) /\ \A i \in 1..Len(q) : q[i] # n /\ q[i] \in Job
    BY <1>1 DEF ListOf, Links, ToSet
  <2> QED  BY <1>1, <2>1 DEF ListOf, Links, TypeOK
<1>4. Counted(q)'
  BY <1>1, <1>2 DEF ListOf, Counted
<1>5. HandsApart(q)'
  BY <1>1, <1>2, PrioListAssumption DEF ListOf, HandsApart, ToSet
<1>6. Walks(q)'
  BY <1>1, <1>2 DEF ListOf, Walks, HasPassed
<1>7. EndsAtTail(q)'
  BY <1>1 DEF ListOf, EndsAtTail
<1> QED  BY <1>3, <1>4, <1>5, <1>6, <1>7 DEF ListOf

\* A walk begins before the first node.
LEMMA EnqueueWalkStep ==
    ASSUME TypeOK, NEW q, ListOf(q), NEW t \in Threads, EnqueueWalk(t)
    PROVE  ListOf(q)'
<1>1. /\ thread[t].pc = "enqueue" /\ mutex = NULL /\ mutex' = t /\ size # 0
      /\ UNCHANGED <<head, tail, size, next>>
  BY DEF EnqueueWalk, listVars
<1>2. /\ thread'[t].pc = "walk" /\ thread'[t].el = thread[t].el
      /\ thread'[t].node = thread[t].node
      /\ thread'[t].prev_of_curr_item = NULL /\ thread'[t].curr_item = head
      /\ \A u \in Threads \ {t} : thread'[u] = thread[u]
  BY DEF EnqueueWalk, TypeOK
<1>3. \A u \in Threads : thread[u].pc \notin {"walk", "grow"}
  BY <1>1, PrioListAssumption DEF ListOf, Counted
<1>4. q \in Seq(Job) /\ q # <<>>
  BY <1>1, <1>3 DEF ListOf, Links, Counted
<1>5. Links(q)' /\ EndsAtTail(q)'
  BY <1>1 DEF ListOf, Links, EndsAtTail
<1>6. Counted(q)'
  BY <1>1, <1>2, <1>3, <1>4 DEF ListOf, Counted
<1>7. HandsApart(q)'
  BY <1>1, <1>2 DEF ListOf, HandsApart
<1>8. Walks(q)'
  <2>1. HasPassed(t, q, 0)' /\ 0 \in 0..Len(q)
    BY <1>1, <1>2, <1>4 DEF ListOf, Links, HasPassed
  <2> QED  BY <1>2, <1>3, <2>1 DEF Walks
<1> QED  BY <1>5, <1>6, <1>7, <1>8 DEF ListOf

\* A walk passes one more node, which is smaller than its own.
LEMMA WalkStep ==
    ASSUME TypeOK, NEW q, ListOf(q), NEW t \in Threads, Walk(t)
    PROVE  ListOf(q)'
<1>1. /\ thread[t].pc = "walk" /\ thread[t].curr_item # NULL
      /\ ~(Request[thread[t].curr_item] >= Request[thread[t].el])
      /\ UNCHANGED <<head, tail, size, next, mutex>>
  BY DEF Walk, AtPlace, listVars
<1>2. /\ thread'[t].pc = "walk" /\ thread'[t].el = thread[t].el
      /\ thread'[t].node = thread[t].node
      /\ thread'[t].prev_of_curr_item = thread[t].curr_item
      /\ thread'[t].curr_item = next[thread[t].curr_item]
      /\ \A u \in Threads \ {t} : thread'[u] = thread[u]
  BY DEF Walk, TypeOK
<1>3. Links(q)' /\ EndsAtTail(q)'
  BY <1>1 DEF ListOf, Links, EndsAtTail
<1>4. Counted(q)'
  BY <1>1, <1>2 DEF ListOf, Counted
<1>5. HandsApart(q)'
  BY <1>1, <1>2 DEF ListOf, HandsApart
<1>6. PICK i \in 0..Len(q) : HasPassed(t, q, i)
  BY <1>1 DEF ListOf, Walks
<1>7. /\ q \in Seq(Job) /\ i # Len(q) /\ i + 1 \in 1..Len(q)
      /\ thread[t].curr_item = q[i + 1] /\ thread[t].el \in Job
  BY <1>1, <1>6 DEF ListOf, Links, HasPassed, HandsApart
<1>8. HasPassed(t, q, i + 1)'
  <2>1. Request[q[i + 1]] < Request[thread[t].el]
    BY <1>1, <1>7, RequestAssumption
  <2>2. thread'[t].curr_item = IF i + 1 = Len(q) THEN NULL ELSE q[i + 2]
    BY <1>2, <1>7 DEF ListOf, Links
  <2>3. \A k \in 1..(i + 1) : Request[q[k]] < Request[thread[t].el]
    BY <1>6, <2>1 DEF HasPassed
  <2> QED  BY <1>2, <1>7, <2>2, <2>3 DEF HasPassed
<1>9. Walks(q)'
  <2>1. i + 1 \in 0..Len(q)
    BY <1>7
  <2> QED  BY <1>2, <1>8, <2>1 DEF ListOf, Walks, HasPassed
<1> QED  BY <1>3, <1>4, <1>5, <1>9 DEF ListOf

\* The size catches up.
LEMMA GrowStep ==
    ASSUME TypeOK, NEW q, ListOf(q), NEW t \in Threads, Grow(t)
    PROVE  ListOf(q)'
<1>1. /\ thread[t].pc = "grow" /\ size' = size + 1 /\ mutex' = NULL
      /\ UNCHANGED <<head, tail, next>>
  BY DEF Grow
<1>2. /\ thread'[t].pc = "idle" /\ thread'[t].node = NULL
      /\ \A u \in Threads \ {t} : thread'[u] = thread[u]
  BY DEF Grow, Asleep, TypeOK
<1>3. \A u \in Threads : thread[u].pc \in {"walk", "grow"} => u = t
  BY <1>1 DEF ListOf, Counted
<1>4. q \in Seq(Job) /\ size = Len(q) - 1
  BY <1>1 DEF ListOf, Links, Counted
<1>5. Links(q)' /\ EndsAtTail(q)'
  BY <1>1 DEF ListOf, Links, EndsAtTail
<1>6. Counted(q)'
  <2>1. \A u \in Threads : thread'[u].pc \notin {"walk", "grow"}
    BY <1>2, <1>3
  <2> QED  BY <1>1, <1>4, <2>1, PrioListAssumption DEF Counted
<1>7. HandsApart(q)'
  BY <1>1, <1>2 DEF ListOf, HandsApart
<1>8. Walks(q)'
  BY <1>2, <1>3 DEF Walks
<1> QED  BY <1>5, <1>6, <1>7, <1>8 DEF ListOf

\* A dequeued node is freed.
LEMMA FreeStep ==
    ASSUME TypeOK, NEW q, ListOf(q), NEW t \in Threads, Free(t)
    PROVE  ListOf(q)'
<1>1. thread[t].pc = "dequeued" /\ UNCHANGED <<head, tail, size, next, mutex>>
  BY DEF Free, listVars
<1>2. /\ thread'[t].pc = "idle" /\ thread'[t].node = NULL
      /\ \A u \in Threads \ {t} : thread'[u] = thread[u]
  BY DEF Free, Asleep, TypeOK
<1>3. Links(q)' /\ EndsAtTail(q)'
  BY <1>1 DEF ListOf, Links, EndsAtTail
<1>4. Counted(q)'
  BY <1>1, <1>2 DEF ListOf, Counted
<1>5. HandsApart(q)'
  BY <1>1, <1>2, PrioListAssumption DEF ListOf, HandsApart
<1>6. Walks(q)'
  BY <1>1, <1>2 DEF ListOf, Walks, HasPassed
<1> QED  BY <1>3, <1>4, <1>5, <1>6 DEF ListOf

-------------------------------------------------------------------------------
(* A node is linked in. *)

\* el at place pos of q comes after all smaller jobs and before a larger one.
Fits(q, el, pos) ==
    /\ \A k \in 1..(pos - 1) : Request[q[k]] < Request[el]
    /\ pos <= Len(q) => Request[el] <= Request[q[pos]]

\* r is q with el put at place pos.
IsPut(q, el, pos, r) ==
    \A k \in 1..(Len(q) + 1) :
        r[k] = IF k < pos THEN q[k] ELSE IF k = pos THEN el ELSE q[k - 1]

\* What prio_queue_enqueue makes of a queue.
LEMMA EnqueueShape ==
    ASSUME NEW q \in Seq(Job), NEW el \in Job
    PROVE  /\ prio_queue_enqueue(q, el) \in Seq(Job)
           /\ Len(prio_queue_enqueue(q, el)) = Len(q) + 1
           /\ \E pos \in 1..(Len(q) + 1) :
                Fits(q, el, pos) /\ IsPut(q, el, pos, prio_queue_enqueue(q, el))
<1>1. PICK pos \in 1..(Len(q) + 1) :
        /\ prio_queue_enqueue(q, el) = InsertAt(q, pos, el)
        /\ \A k \in 1..(pos - 1) : Request[q[k]] < Request[el]
        /\ pos <= Len(q) => Request[el] <= Request[q[pos]]
  BY EnqueuePosition
<1>2. /\ InsertAt(q, pos, el) \in Seq(Job)
      /\ Len(InsertAt(q, pos, el)) = Len(q) + 1
      /\ \A k \in 1..(Len(q) + 1) :
           InsertAt(q, pos, el)[k] = IF k < pos THEN q[k]
                                     ELSE IF k = pos THEN el ELSE q[k - 1]
  BY InsertAtShape
<1>3. Fits(q, el, pos) /\ IsPut(q, el, pos, prio_queue_enqueue(q, el))
  BY <1>1, <1>2 DEF Fits, IsPut
<1> QED  BY <1>1, <1>2, <1>3

\* The same, when the place is known.
LEMMA EnqueueAt ==
    ASSUME NEW q \in Seq(Job), NEW el \in Job, NEW i \in 0..Len(q),
           \A k \in 1..i : Request[q[k]] < Request[el],
           i < Len(q) => Request[el] <= Request[q[i + 1]],
           NEW r, r = prio_queue_enqueue(q, el)
    PROVE  /\ r \in Seq(Job) /\ Len(r) = Len(q) + 1
           /\ \A k \in 1..Len(r) :
                r[k] = IF k <= i THEN q[k] ELSE IF k = i + 1 THEN el ELSE q[k - 1]
<1>0. PICK pos \in 1..(Len(q) + 1) : Fits(q, el, pos) /\ IsPut(q, el, pos, r)
  BY EnqueueShape, Zenon
<1>1. /\ \A k \in 1..(pos - 1) : Request[q[k]] < Request[el]
      /\ pos <= Len(q) => Request[el] <= Request[q[pos]]
      /\ \A k \in 1..(Len(q) + 1) :
           r[k] = IF k < pos THEN q[k] ELSE IF k = pos THEN el ELSE q[k - 1]
  BY <1>0 DEF Fits, IsPut
<1> USE RequestAssumption
<1>2. \A k \in 1..Len(q) : q[k] \in Job /\ Request[q[k]] \in Nat /\ Request[el] \in Nat
  OBVIOUS
<1>3. ~(pos < i + 1)
  <2> SUFFICES ASSUME pos < i + 1  PROVE FALSE
    OBVIOUS
  <2>1. pos \in 1..i /\ pos \in 1..Len(q)
    OBVIOUS
  <2> QED  BY <1>1, <1>2, <2>1
<1>4. ~(i + 1 < pos)
  <2> SUFFICES ASSUME i + 1 < pos  PROVE FALSE
    OBVIOUS
  <2>1. i + 1 \in 1..(pos - 1) /\ i + 1 \in 1..Len(q) /\ i < Len(q)
    OBVIOUS
  <2> QED  BY <1>1, <1>2, <2>1
<1>5. pos = i + 1
  BY <1>3, <1>4
<1>6. r \in Seq(Job) /\ Len(r) = Len(q) + 1
  BY EnqueueShape, Zenon
<1> QED  BY <1>1, <1>5, <1>6

\* r is q with el behind its first i nodes.
Grown(q, el, i, r) ==
    /\ q \in Seq(Job) /\ el \in Job \ ToSet(q) /\ i \in 0..Len(q)
    /\ r \in Seq(Job) /\ Len(r) = Len(q) + 1
    /\ \A k \in 1..Len(r) :
         r[k] = IF k <= i THEN q[k] ELSE IF k = i + 1 THEN el ELSE q[k - 1]

\* It has the new node and the old ones, and no node twice.
LEMMA GrownNodes ==
    ASSUME NEW q, NEW el, NEW i, NEW r, Grown(q, el, i, r),
           \A a, b \in 1..Len(q) : q[a] = q[b] => a = b
    PROVE  /\ ToSet(r) = ToSet(q) \cup {el}
           /\ \A a, b \in 1..Len(r) : r[a] = r[b] => a = b
<1>1. /\ q \in Seq(Job) /\ el \in Job /\ i \in 0..Len(q)
      /\ r \in Seq(Job) /\ Len(r) = Len(q) + 1
      /\ \A k \in 1..i : k \in 1..Len(r) /\ r[k] = q[k] /\ k \in 1..Len(q)
      /\ i + 1 \in 1..Len(r) /\ r[i + 1] = el
      /\ \A k \in (i + 2)..Len(r) : r[k] = q[k - 1] /\ k - 1 \in 1..Len(q)
      /\ \A k \in (i + 1)..Len(q) : k + 1 \in 1..Len(r) /\ r[k + 1] = q[k]
      /\ \A k \in 1..Len(q) : q[k] # el
  BY DEF Grown, ToSet
<1>2. \A a \in 1..Len(r) : a \in 1..i \/ a = i + 1 \/ a \in (i + 2)..Len(r)
  BY <1>1
<1>3. ToSet(r) \subseteq ToSet(q) \cup {el}
  <2> SUFFICES ASSUME NEW k \in 1..Len(r)  PROVE r[k] \in ToSet(q) \cup {el}
    BY <1>1 DEF ToSet
  <2>1. \A a \in 1..Len(q) : q[a] \in ToSet(q)
    BY <1>1 DEF ToSet
  <2> QED  BY <1>1, <1>2, <2>1
<1>4. ToSet(q) \cup {el} \subseteq ToSet(r)
  <2>1. \A k \in 1..Len(q) : k \in 1..i \/ k \in (i + 1)..Len(q)
    BY <1>1
  <2>2. \A a \in 1..Len(r) : r[a] \in ToSet(r)
    BY <1>1 DEF ToSet
  <2>3. \A k \in 1..Len(q) : q[k] \in ToSet(r)
    BY <1>1, <2>1, <2>2
  <2>4. \A x \in ToSet(q) : \E k \in 1..Len(q) : x = q[k]
    BY <1>1 DEF ToSet
  <2>5. el \in ToSet(r)
    BY <1>1, <2>2
  <2> QED  BY <2>3, <2>4, <2>5
<1>5. ASSUME NEW a \in 1..Len(r), r[a] = el  PROVE a = i + 1
  <2>1. CASE a \in 1..i
    BY <1>1, <1>5, <2>1
  <2>2. CASE a \in (i + 2)..Len(r)
    <3>1. r[a] = q[a - 1] /\ a - 1 \in 1..Len(q)
      BY <1>1, <2>2
    <3> QED  BY <1>1, <1>5, <3>1
  <2> QED  BY <1>2, <2>1, <2>2
<1>6. ASSUME NEW a \in 1..Len(r), NEW b \in 1..Len(r), r[a] = r[b]  PROVE a = b
  <2>1. CASE a = i + 1 \/ b = i + 1
    BY <1>1, <1>5, <1>6, <2>1
  <2>2. CASE a # i + 1 /\ b # i + 1
    <3>1. ASSUME NEW c \in 1..Len(r), c # i + 1
          PROVE  \E m \in 1..Len(q) : r[c] = q[m] /\ m = IF c <= i THEN c ELSE c - 1
      <4>1. CASE c \in 1..i
        BY <1>1, <4>1
      <4>2. CASE c \in (i + 2)..Len(r)
        <5>1. r[c] = q[c - 1] /\ c - 1 \in 1..Len(q) /\ ~(c <= i)
          BY <1>1, <4>2
        <5> QED  BY <5>1
      <4> QED  BY <1>2, <3>1, <4>1, <4>2
    <3>2. PICK m \in 1..Len(q) : r[a] = q[m] /\ m = IF a <= i THEN a ELSE a - 1
      BY <2>2, <3>1
    <3>3. PICK n \in 1..Len(q) : r[b] = q[n] /\ n = IF b <= i THEN b ELSE b - 1
      BY <2>2, <3>1
    <3>4. m = n
      BY <1>6, <3>2, <3>3
    <3>5. i \in Nat /\ a \in Nat /\ b \in Nat
      BY <1>1
    <3> QED  BY <2>2, <3>2, <3>3, <3>4, <3>5
  <2> QED  BY <2>1, <2>2
<1> QED  BY <1>3, <1>4, <1>6

\* The links of the longer list.
LEMMA NewLinks ==
    ASSUME NEW q, Links(q), EndsAtTail(q), NEW el, NEW i, NEW r, Grown(q, el, i, r),
           head' = IF i = 0 THEN el ELSE head,
           tail' = IF i = Len(q) THEN el ELSE tail,
           next'[el] = IF i = Len(q) THEN NULL ELSE q[i + 1],
           i > 0 => next'[q[i]] = el,
           \A k \in 1..Len(q) : k # i => next'[q[k]] = next[q[k]]
    PROVE  Links(r)' /\ EndsAtTail(r)'
<1>1. /\ q \in Seq(Job) /\ r \in Seq(Job) /\ i \in 0..Len(q) /\ Len(r) = Len(q) + 1
      /\ \A k \in 1..Len(r) :
           r[k] = IF k <= i THEN q[k] ELSE IF k = i + 1 THEN el ELSE q[k - 1]
      /\ \A k \in 1..Len(q) : next[q[k]] = IF k = Len(q) THEN NULL ELSE q[k + 1]
  BY DEF Links, Grown
<1>2. \A a, b \in 1..Len(r) : r[a] = r[b] => a = b
  BY GrownNodes DEF Links
<1>3. r # <<>> /\ head' = r[1]
  <2>1. CASE i = 0
    BY <1>1, <2>1
  <2>2. CASE i # 0
    <3>1. q # <<>> /\ r[1] = q[1]
      BY <1>1, <2>2
    <3> QED  BY <1>1, <2>2, <3>1 DEF Links
  <2> QED  BY <2>1, <2>2
<1>4. tail' = r[Len(r)]
  <2>1. CASE i = Len(q)
    BY <1>1, <2>1
  <2>2. CASE i # Len(q)
    <3>1. q # <<>> /\ r[Len(r)] = q[Len(q)]
      BY <1>1, <2>2
    <3> QED  BY <2>2, <3>1 DEF EndsAtTail
  <2> QED  BY <2>1, <2>2
<1>5. ASSUME NEW k \in 1..Len(r)
      PROVE  next'[r[k]] = IF k = Len(r) THEN NULL ELSE r[k + 1]
  <2>1. CASE k = i + 1
    <3>1. r[k] = el /\ (k # Len(r) => i # Len(q) /\ r[k + 1] = q[i + 1])
      BY <1>1, <2>1
    <3>2. k = Len(r) <=> i = Len(q)
      BY <1>1, <2>1
    <3> QED  BY <3>1, <3>2
  <2>2. CASE k = i
    <3>1. r[k] = q[i] /\ r[k + 1] = el /\ k # Len(r) /\ i > 0
      BY <1>1, <2>2
    <3> QED  BY <3>1
  <2>3. CASE k < i
    <3>1. /\ r[k] = q[k] /\ r[k + 1] = q[k + 1] /\ k \in 1..Len(q) /\ k # i
          /\ k # Len(q) /\ k # Len(r)
      BY <1>1, <2>3
    <3> QED  BY <1>1, <3>1
  <2>4. CASE k > i + 1
    <3>1. PICK m \in 1..Len(q) : m = k - 1
      BY <1>1, <2>4
    <3>2. /\ r[k] = q[m] /\ m # i /\ (k = Len(r) <=> m = Len(q))
          /\ k # Len(r) => r[k + 1] = q[m + 1]
      BY <1>1, <2>4, <3>1
    <3>3. next'[r[k]] = IF m = Len(q) THEN NULL ELSE q[m + 1]
      BY <1>1, <3>2
    <3> QED  BY <3>2, <3>3
  <2> QED  BY <1>1, <2>1, <2>2, <2>3, <2>4
<1>6. Links(r)'
  BY <1>1, <1>2, <1>3, <1>5 DEF Links
<1> QED  BY <1>3, <1>4, <1>6 DEF EndsAtTail

\* The rest of the invariant, once the links are right.
LEMMA LinkedIn ==
    ASSUME TypeOK, NEW q, ListOf(q), NEW t \in Threads, NEW el, el = thread[t].el,
           NEW i, NEW r, Grown(q, el, i, r), thread[t].pc \in {"enqueue", "walk"},
           \A u \in Threads : thread[u].pc \in {"walk", "grow"} => u = t,
           mutex' = t, size' = size, thread' = [thread EXCEPT ![t].pc = "grow"],
           Links(r)', EndsAtTail(r)'
    PROVE  ListOf(r)'
<1>1. /\ thread'[t].pc = "grow" /\ thread'[t].node = thread[t].node
      /\ thread'[t].el = thread[t].el
      /\ \A u \in Threads \ {t} : thread'[u] = thread[u]
  BY DEF TypeOK
<1>2. /\ q \in Seq(Job) /\ r \in Seq(Job) /\ Len(r) = Len(q) + 1
      /\ ToSet(r) = ToSet(q) \cup {el}
  <2>1. \A a, b \in 1..Len(q) : q[a] = q[b] => a = b
    BY DEF ListOf, Links
  <2>2. ToSet(r) = ToSet(q) \cup {el}
    BY <2>1, GrownNodes
  <2> QED  BY <2>2 DEF Grown
<1>3. Counted(r)'
  <2>1. size = Len(q)
    BY DEF ListOf, Counted
  <2>2. \A u \in Threads : t = u <=> thread'[u].pc \in {"walk", "grow"}
    BY <1>1
  <2>3. Len(r) - 1 = Len(q) /\ r # <<>>
    BY <1>2
  <2> QED  BY <1>1, <2>1, <2>2, <2>3 DEF Counted
<1>4. HandsApart(r)'
  BY <1>1, <1>2 DEF ListOf, HandsApart
<1>5. Walks(r)'
  BY <1>1 DEF Walks
<1> QED  BY <1>3, <1>4, <1>5 DEF ListOf

\* Into an empty list.
LEMMA EnqueueFirstStep ==
    ASSUME TypeOK, NEW q, ListOf(q), NEW t \in Threads, EnqueueFirst(t),
           NEW el, el = thread[t].el
    PROVE  ListOf(prio_queue_enqueue(q, el))' /\ el \in Job \ ToSet(q)
<1>1. /\ thread[t].pc = "enqueue" /\ mutex = NULL /\ size = 0 /\ head' = el /\ tail' = el
      /\ next' = [next EXCEPT ![el] = NULL]
      /\ mutex' = t /\ size' = size /\ thread' = [thread EXCEPT ![t].pc = "grow"]
  BY DEF EnqueueFirst
<1>2. \A u \in Threads : thread[u].pc \notin {"walk", "grow"}
  BY <1>1, PrioListAssumption DEF ListOf, Counted
<1>3. q \in Seq(Job) /\ Len(q) = 0
  BY <1>1, <1>2 DEF ListOf, Links, Counted
<1>4. el \in Job \ ToSet(q)
  BY <1>1 DEF ListOf, HandsApart
<1>5. PICK r : r = prio_queue_enqueue(q, el)
  OBVIOUS
<1>6. PICK i : i = 0 /\ Grown(q, el, i, r)
  <2>1. PICK i \in 0..Len(q) : i = 0
    BY <1>3
  <2>2. /\ \A k \in 1..i : Request[q[k]] < Request[el]
        /\ i < Len(q) => Request[el] <= Request[q[i + 1]]
    BY <1>3, <2>1
  <2>3. /\ r \in Seq(Job) /\ Len(r) = Len(q) + 1
        /\ \A k \in 1..Len(r) :
             r[k] = IF k <= i THEN q[k] ELSE IF k = i + 1 THEN el ELSE q[k - 1]
    <3>1. q \in Seq(Job) /\ el \in Job
      BY <1>3, <1>4
    <3> QED  BY <1>5, <2>2, <3>1, EnqueueAt
  <2> QED  BY <1>3, <1>4, <2>1, <2>3 DEF Grown
<1>7. next'[el] = NULL
  BY <1>1, <1>4 DEF TypeOK
<1>8. Links(r)' /\ EndsAtTail(r)'
  BY <1>1, <1>3, <1>6, <1>7, NewLinks DEF ListOf
<1>9. ListOf(r)'
  BY <1>1, <1>2, <1>6, <1>8, LinkedIn
<1> QED  BY <1>4, <1>5, <1>9

\* Where the walk has ended.
LEMMA InsertStep ==
    ASSUME TypeOK, NEW q, ListOf(q), NEW t \in Threads, Insert(t),
           NEW el, el = thread[t].el
    PROVE  ListOf(prio_queue_enqueue(q, el))' /\ el \in Job \ ToSet(q)
<1>1. /\ thread[t].pc = "walk" /\ mutex' = mutex /\ size' = size
      /\ thread' = [thread EXCEPT ![t].pc = "grow"]
  BY DEF Insert
<1>2. mutex = t /\ \A u \in Threads : thread[u].pc \in {"walk", "grow"} => u = t
  BY <1>1 DEF ListOf, Counted
<1>3. /\ q \in Seq(Job) /\ q # <<>> /\ NULL \notin Job
      /\ head = q[1] /\ tail = q[Len(q)] /\ next \in [Job -> Node]
      /\ \A k, m \in 1..Len(q) : q[k] = q[m] => k = m
  BY <1>1, PrioListAssumption DEF ListOf, Links, Counted, EndsAtTail, TypeOK
<1>4. el \in Job \ ToSet(q)
  BY <1>1 DEF ListOf, HandsApart
<1>5. PICK i \in 0..Len(q) : HasPassed(t, q, i)
  BY <1>1 DEF ListOf, Walks
<1>6. PICK curr, prev : curr = thread[t].curr_item /\ prev = thread[t].prev_of_curr_item
  OBVIOUS
<1>7. /\ prev = IF i = 0 THEN NULL ELSE q[i]
      /\ curr = IF i = Len(q) THEN NULL ELSE q[i + 1]
  BY <1>5, <1>6 DEF HasPassed
<1>8. /\ prev = NULL <=> i = 0
      /\ curr = NULL <=> i = Len(q)
      /\ Len(q) \in Nat \ {0}
  BY <1>3, <1>7
<1>9. PICK r : r = prio_queue_enqueue(q, el)
  OBVIOUS
<1>10. Grown(q, el, i, r)
  <2>1. \A k \in 1..i : Request[q[k]] < Request[el]
    BY <1>5 DEF HasPassed
  <2>2. i < Len(q) => Request[el] <= Request[q[i + 1]]
    <3> SUFFICES ASSUME i < Len(q)  PROVE Request[el] <= Request[q[i + 1]]
      OBVIOUS
    <3>1. curr # NULL /\ curr = q[i + 1]
      BY <1>7, <1>8
    <3>2. Request[curr] >= Request[el]
      BY <1>6, <3>1 DEF Insert, AtPlace
    <3>3. q[i + 1] \in Job
      BY <1>3
    <3> QED  BY <1>4, <3>1, <3>2, <3>3, RequestAssumption
  <2>3. /\ r \in Seq(Job) /\ Len(r) = Len(q) + 1
        /\ \A k \in 1..Len(r) :
             r[k] = IF k <= i THEN q[k] ELSE IF k = i + 1 THEN el ELSE q[k - 1]
    BY <1>3, <1>4, <1>9, <2>1, <2>2, EnqueueAt
  <2> QED  BY <1>3, <1>4, <2>3 DEF Grown
<1>11. \A k \in 1..Len(q) : q[k] \in Job /\ q[k] # el
  BY <1>3, <1>4 DEF ToSet
<1>12. \/ prev = NULL /\ head' = el /\ tail' = tail /\ next' = [next EXCEPT ![el] = curr]
       \/ /\ prev # NULL /\ curr = NULL /\ head' = head /\ tail' = el
          /\ next' = [next EXCEPT ![el] = NULL, ![tail] = el]
       \/ /\ prev # NULL /\ curr # NULL /\ head' = head /\ tail' = tail
          /\ next' = [next EXCEPT ![prev] = el, ![el] = curr]
  BY <1>6 DEF Insert
<1>13. /\ head' = IF i = 0 THEN el ELSE head
       /\ tail' = IF i = Len(q) THEN el ELSE tail
       /\ next'[el] = IF i = Len(q) THEN NULL ELSE q[i + 1]
       /\ i > 0 => next'[q[i]] = el
       /\ \A k \in 1..Len(q) : k # i => next'[q[k]] = next[q[k]]
  <2>1. CASE prev = NULL
    <3>1. /\ i = 0 /\ i # Len(q) /\ curr = q[i + 1]
          /\ head' = el /\ tail' = tail /\ next' = [next EXCEPT ![el] = curr]
      BY <1>7, <1>8, <1>12, <2>1
    <3> QED  BY <1>3, <1>4, <1>11, <3>1
  <2>2. CASE prev # NULL /\ curr = NULL
    <3>1. /\ i # 0 /\ i = Len(q) /\ tail = q[i]
          /\ head' = head /\ tail' = el /\ next' = [next EXCEPT ![el] = NULL, ![tail] = el]
      BY <1>3, <1>8, <1>12, <2>2
    <3>2. i \in 1..Len(q) /\ q[i] \in Job /\ q[i] # el
      BY <1>11, <3>1
    <3> QED  BY <1>3, <1>4, <1>11, <3>1, <3>2
  <2>3. CASE prev # NULL /\ curr # NULL
    <3>1. /\ i # 0 /\ i # Len(q) /\ prev = q[i] /\ curr = q[i + 1]
          /\ head' = head /\ tail' = tail /\ next' = [next EXCEPT ![prev] = el, ![el] = curr]
      BY <1>7, <1>8, <1>12, <2>3
    <3>2. i \in 1..Len(q) /\ q[i] \in Job /\ q[i] # el
      BY <1>11, <3>1
    <3> QED  BY <1>3, <1>4, <1>11, <3>1, <3>2
  <2> QED  BY <2>1, <2>2, <2>3
<1>14. Links(r)' /\ EndsAtTail(r)'
  BY <1>10, <1>13, NewLinks DEF ListOf
<1>15. ListOf(r)'
  BY <1>1, <1>2, <1>10, <1>14, LinkedIn
<1> QED  BY <1>4, <1>9, <1>15

-------------------------------------------------------------------------------
(* A node is taken out. *)

\* The head leaves a list that is not empty, to the thread that took it.
LEMMA DequeueStep ==
    ASSUME TypeOK, NEW q, ListOf(q), NEW t \in Threads, Dequeue(t), size # 0
    PROVE  /\ q # <<>> /\ ListOf(Tail(q))'
           /\ thread[t].node = NULL
           /\ thread' = [thread EXCEPT ![t].pc = "dequeued", ![t].node = Head(q)]
<1>1. /\ thread[t].pc = "idle" /\ mutex = NULL /\ mutex' = mutex
      /\ head' = next[head] /\ size' = size - 1 /\ next' = next
      /\ tail' = IF head' = NULL THEN NULL ELSE tail
      /\ thread' = [thread EXCEPT ![t].pc = "dequeued", ![t].node = head]
  BY DEF Dequeue
<1>2. \A u \in Threads : thread[u].pc \notin {"walk", "grow"}
  BY <1>1, PrioListAssumption DEF ListOf, Counted
<1>3. /\ q \in Seq(Job) /\ size = Len(q) /\ q # <<>> /\ NULL \notin Job
      /\ head = q[1] /\ tail = q[Len(q)]
      /\ \A k \in 1..Len(q) : next[q[k]] = IF k = Len(q) THEN NULL ELSE q[k + 1]
      /\ \A k, m \in 1..Len(q) : q[k] = q[m] => k = m
  BY <1>1, <1>2, PrioListAssumption DEF ListOf, Links, Counted, EndsAtTail, TypeOK
<1>4. PICK r : r = Tail(q)
  OBVIOUS
<1>5. /\ r \in Seq(Job) /\ Len(r) = Len(q) - 1
      /\ \A k \in 1..Len(r) : r[k] = q[k + 1] /\ k + 1 \in 1..Len(q)
  BY <1>3, <1>4
<1>6. head' = IF r = <<>> THEN NULL ELSE r[1]
  <2>1. 1 \in 1..Len(q) /\ (r = <<>> <=> Len(q) = 1)
    BY <1>3, <1>5
  <2> QED  BY <1>1, <1>3, <1>5, <2>1
<1>7. Links(r)'
  <2>1. \A i, k \in 1..Len(r) : r[i] = r[k] => i = k
    BY <1>3, <1>5
  <2>2. \A i \in 1..Len(r) : next'[r[i]] = IF i = Len(r) THEN NULL ELSE r[i + 1]
    <3> SUFFICES ASSUME NEW i \in 1..Len(r)
                 PROVE  next'[r[i]] = IF i = Len(r) THEN NULL ELSE r[i + 1]
      OBVIOUS
    <3>1. next'[r[i]] = IF i + 1 = Len(q) THEN NULL ELSE q[(i + 1) + 1]
      BY <1>1, <1>3, <1>5
    <3>2. i # Len(r) => r[i + 1] = q[(i + 1) + 1]
      BY <1>5
    <3> QED  BY <1>3, <1>5, <3>1, <3>2
  <2> QED  BY <1>5, <1>6, <2>1, <2>2 DEF Links
<1>8. EndsAtTail(r)'
  <2>1. r # <<>> => r[1] # NULL /\ r[Len(r)] = q[Len(q)]
    BY <1>3, <1>5
  <2> QED  BY <1>1, <1>3, <1>6, <2>1 DEF EndsAtTail
<1>9. /\ thread'[t].pc = "dequeued" /\ thread'[t].node = q[1]
      /\ \A u \in Threads \ {t} : thread'[u] = thread[u]
  BY <1>1, <1>3 DEF TypeOK
<1>10. Counted(r)'
  BY <1>1, <1>2, <1>3, <1>5, <1>9, PrioListAssumption DEF Counted
<1>11. HandsApart(r)'
  <2>1. \A k \in 1..Len(q) : q[k] \in ToSet(q)
    BY <1>3 DEF ToSet
  <2>2. \A x \in ToSet(r) : \E k \in 1..Len(r) : x = r[k]
    BY <1>5 DEF ToSet
  <2>3. 1 \in 1..Len(q) /\ q[1] \in Job
    BY <1>3
  <2>4. q[1] \in ToSet(q) /\ q[1] # NULL /\ ToSet(r) \subseteq ToSet(q)
    BY <1>3, <1>5, <2>1, <2>2, <2>3
  <2>5. ASSUME NEW u \in Threads
        PROVE  thread'[u].node # NULL <=> thread'[u].pc = "dequeued"
    BY <1>9, <2>4 DEF ListOf, HandsApart
  <2>6. ASSUME NEW u \in Threads, thread'[u].pc \in {"enqueue", "walk"}
        PROVE  /\ u # t /\ thread'[u] = thread[u] /\ thread[u].el \in Job \ ToSet(q)
               /\ \A v \in Threads :
                    /\ thread[v].node # thread[u].el
                    /\ v # u /\ thread[v].pc \in {"enqueue", "walk"}
                         => thread[v].el # thread[u].el
    <3>1. u # t
      BY <1>9, <2>6
    <3> QED  BY <1>9, <2>6, <3>1 DEF ListOf, HandsApart
  <2>7. ASSUME NEW u \in Threads, thread'[u].pc \in {"enqueue", "walk"}, NEW v \in Threads
        PROVE  /\ thread'[v].node # thread'[u].el
               /\ v # u /\ thread'[v].pc \in {"enqueue", "walk"}
                    => thread'[v].el # thread'[u].el
    <3>1. CASE v = t
      BY <1>9, <2>4, <2>6, <2>7, <3>1
    <3>2. CASE v # t
      BY <1>9, <2>6, <2>7, <3>2
    <3> QED  BY <3>1, <3>2
  <2> QED  BY <2>4, <2>5, <2>6, <2>7 DEF HandsApart
<1>12. Walks(r)'
  BY <1>2, <1>9 DEF Walks
<1>13. thread[t].node = NULL
  BY <1>1 DEF ListOf, HandsApart
<1> QED
  BY <1>1, <1>3, <1>4, <1>7, <1>8, <1>10, <1>11, <1>12, <1>13 DEF ListOf

-------------------------------------------------------------------------------
(* The invariant, the shape and the refinement. *)

\* A step keeps the list, puts the node of a thread where prio_queue_enqueue puts
\* it, or takes the head: what AtomicQueue does in one step.
QueueStep(q, r) ==
    \/ r = q /\ \A t \in Threads : thread'[t].node = thread[t].node
    \/ /\ \E j \in Job \ ToSet(q) :
            r = prio_queue_enqueue(q, j) /\ \A t \in Threads : thread[t].node # j
       /\ \A t \in Threads : thread'[t].node = thread[t].node
    \/ /\ q # <<>> /\ r = Tail(q)
       /\ \E t \in Threads :
            /\ thread[t].node = NULL /\ thread'[t].node = Head(q)
            /\ \A u \in Threads \ {t} : thread'[u].node = thread[u].node
    \/ /\ r = q
       /\ \E t \in Threads :
            /\ thread[t].node # NULL /\ thread'[t].node = NULL
            /\ \A u \in Threads \ {t} : thread'[u].node = thread[u].node

\* Every step is one of these.
LEMMA ListStep ==
    ASSUME TypeOK, NEW q, ListOf(q), q = Chain, [Next]_vars
    PROVE  \E r : ListOf(r)' /\ QueueStep(q, r)
<1>1. ASSUME ListOf(q)', \A t \in Threads : thread'[t].node = thread[t].node
      PROVE  \E r : ListOf(r)' /\ QueueStep(q, r)
  BY <1>1 DEF QueueStep
<1>2. CASE UNCHANGED vars
  <2>1. ListOf(q)'
    BY <1>2 DEF vars, listVars, ListOf, Links, Counted, HandsApart, Walks, HasPassed,
       EndsAtTail
  <2> QED  BY <1>1, <1>2, <2>1 DEF vars
<1>3. ASSUME NEW t \in Threads, NEW n \in Job, CallEnqueue(t, n)
      PROVE  \E r : ListOf(r)' /\ QueueStep(q, r)
  <2>1. \A u \in Threads : thread'[u].node = thread[u].node
    BY <1>3 DEF CallEnqueue, TypeOK
  <2> QED  BY <1>1, <1>3, <2>1, CallEnqueueStep
<1>4. ASSUME NEW t \in Threads, EnqueueFirst(t) \/ Insert(t)
      PROVE  \E r : ListOf(r)' /\ QueueStep(q, r)
  <2>1. PICK el : el = thread[t].el
    OBVIOUS
  <2>2. PICK r : r = prio_queue_enqueue(q, el)
    OBVIOUS
  <2>3. ListOf(r)' /\ el \in Job \ ToSet(q)
    BY <1>4, <2>1, <2>2, EnqueueFirstStep, InsertStep
  <2>4. /\ thread[t].pc \in {"enqueue", "walk"}
        /\ thread' = [thread EXCEPT ![t].pc = "grow"]
    BY <1>4 DEF EnqueueFirst, Insert
  <2>5. \A u \in Threads : thread'[u].node = thread[u].node /\ thread[u].node # el
    BY <2>1, <2>4 DEF TypeOK, ListOf, HandsApart
  <2> QED  BY <2>2, <2>3, <2>5 DEF QueueStep
<1>5. ASSUME NEW t \in Threads, EnqueueWalk(t)
      PROVE  \E r : ListOf(r)' /\ QueueStep(q, r)
  <2>1. \A u \in Threads : thread'[u].node = thread[u].node
    BY <1>5 DEF EnqueueWalk, TypeOK
  <2> QED  BY <1>1, <1>5, <2>1, EnqueueWalkStep
<1>6. ASSUME NEW t \in Threads, Walk(t)
      PROVE  \E r : ListOf(r)' /\ QueueStep(q, r)
  <2>1. \A u \in Threads : thread'[u].node = thread[u].node
    BY <1>6 DEF Walk, TypeOK
  <2> QED  BY <1>1, <1>6, <2>1, WalkStep
<1>7. ASSUME NEW t \in Threads, Grow(t)
      PROVE  \E r : ListOf(r)' /\ QueueStep(q, r)
  <2>1. thread[t].pc = "grow" /\ thread' = [thread EXCEPT ![t] = Asleep]
    BY <1>7 DEF Grow
  <2>2. \A u \in Threads : thread'[u].node = thread[u].node
    BY <2>1 DEF Asleep, TypeOK, ListOf, HandsApart
  <2> QED  BY <1>1, <1>7, <2>2, GrowStep
<1>8. ASSUME NEW t \in Threads, Dequeue(t)
      PROVE  \E r : ListOf(r)' /\ QueueStep(q, r)
  <2>1. CASE size = 0
    <3>1. UNCHANGED vars
      BY <1>8, <2>1 DEF Dequeue, vars
    <3> QED  BY <1>2, <3>1
  <2>2. CASE size # 0
    <3>1. /\ q # <<>> /\ ListOf(Tail(q))' /\ thread[t].node = NULL
          /\ thread' = [thread EXCEPT ![t].pc = "dequeued", ![t].node = Head(q)]
      BY <1>8, <2>2, DequeueStep
    <3>2. /\ thread'[t].node = Head(q)
          /\ \A u \in Threads \ {t} : thread'[u].node = thread[u].node
      BY <3>1 DEF TypeOK
    <3> QED  BY <3>1, <3>2 DEF QueueStep
  <2> QED  BY <2>1, <2>2
<1>9. ASSUME NEW t \in Threads, Free(t)
      PROVE  \E r : ListOf(r)' /\ QueueStep(q, r)
  <2>1. thread[t].pc = "dequeued" /\ thread' = [thread EXCEPT ![t] = Asleep]
    BY <1>9 DEF Free
  <2>2. /\ thread[t].node # NULL /\ thread'[t].node = NULL
        /\ \A u \in Threads \ {t} : thread'[u].node = thread[u].node
    BY <2>1 DEF Asleep, TypeOK, ListOf, HandsApart
  <2>3. ListOf(q)'
    BY <1>9, FreeStep
  <2> QED  BY <2>2, <2>3 DEF QueueStep
<1> QED
  BY <1>2, <1>3, <1>4, <1>5, <1>6, <1>7, <1>8, <1>9 DEF Next

\* The empty list of prio_queue_init.
LEMMA ListInit == Init => ListInv /\ Chain = <<>>
<1> SUFFICES ASSUME Init  PROVE ListInv /\ Chain = <<>>
  OBVIOUS
<1>1. TypeOK
  BY DEF Init, TypeOK, Asleep, Node, Pc
<1>2. ListOf(<<>>)
  BY PrioListAssumption DEF Init, Asleep, ListOf, Links, Counted, HandsApart, Walks,
     EndsAtTail
<1>3. Chain = <<>>
  BY <1>2, LinksAreChain DEF ListOf, ChainIsLinked
<1> QED  BY <1>1, <1>2, <1>3 DEF ListInv

\* The invariant is inductive, and Chain steps the way QueueStep says.
LEMMA ListNext == ListInv /\ [Next]_vars => ListInv' /\ QueueStep(Chain, Chain')
<1> SUFFICES ASSUME ListInv, [Next]_vars  PROVE ListInv' /\ QueueStep(Chain, Chain')
  OBVIOUS
<1>1. PICK q : q = Chain
  OBVIOUS
<1>2. TypeOK /\ ListOf(q)
  BY <1>1 DEF ListInv
<1>3. TypeOK'
  BY <1>2, TypeStep
<1>4. PICK r : ListOf(r)' /\ QueueStep(q, r)
  BY <1>1, <1>2, ListStep
<1>5. ChainIsLinked'
  BY LinksAreChain, PTL
<1>6. Chain' = r
  BY <1>4, <1>5 DEF ListOf, ChainIsLinked
<1> QED  BY <1>1, <1>3, <1>4, <1>6 DEF ListInv

\* The inductive invariant of the linked list.
THEOREM ListInvariant == Spec => []ListInv
BY ListInit, ListNext, PTL DEF Spec

\* The list keeps the shape that the assertions of prio_queue_enqueue and the users of
\* its size and tail count on, whatever the order of the calls.
THEOREM Shape == Spec => []ListShape
<1>1. ListInv => ListShape
  <2> SUFFICES ASSUME ListInv  PROVE ListShape
    OBVIOUS
  <2>1. PICK q : q = Chain /\ ListOf(q)
    BY DEF ListInv
  <2>2. tail = IF q = <<>> THEN NULL ELSE Last(q)
    BY <2>1 DEF ListOf, EndsAtTail, Last
  <2>3. mutex = NULL => size = Len(q)
    BY <2>1, PrioListAssumption DEF ListOf, Counted
  <2>4. ASSUME NEW t \in Threads, thread[t].pc = "grow"  PROVE next[tail] = NULL
    <3>1. q \in Seq(Job) /\ q # <<>> /\ tail = q[Len(q)] /\ Len(q) \in 1..Len(q)
      BY <2>1, <2>4 DEF ListOf, Links, Counted, EndsAtTail
    <3> QED  BY <2>1, <3>1 DEF ListOf, Links
  <2> QED  BY <2>1, <2>2, <2>3, <2>4 DEF ListShape
<1> QED  BY <1>1, ListInvariant, PTL

\* AtomicQueue speaks of the same operators.
LEMMA SameOperators ==
    /\ \A q : Atomic!ToSet(q) = ToSet(q)
    /\ \A q, j : Atomic!prio_queue_enqueue(q, j) = prio_queue_enqueue(q, j)
    /\ \A q : Atomic!prio_queue_fifo_dequeue(q) = prio_queue_fifo_dequeue(q)
BY DEF Atomic!ToSet, ToSet, Atomic!prio_queue_enqueue, prio_queue_enqueue,
   Atomic!StopsAt, StopsAt, Atomic!Min, Min, Atomic!InsertAt, InsertAt,
   Atomic!prio_queue_fifo_dequeue, prio_queue_fifo_dequeue

\* The queue of AtomicQueue sees one of its own steps, or nothing.
LEMMA QueueSteps ==
    ListInv /\ QueueStep(Chain, Chain') => [Atomic!Next]_(Atomic!vars)
<1> SUFFICES ASSUME ListInv, QueueStep(Chain, Chain')
             PROVE  [Atomic!Next]_(Atomic!vars)
  OBVIOUS
<1> DEFINE nodes == [t \in Threads |-> thread[t].node]
<1>1. /\ nodes' = [t \in Threads |-> thread'[t].node]
      /\ \A t \in Threads : nodes[t] = thread[t].node /\ nodes'[t] = thread'[t].node
  OBVIOUS
<1>2. CASE Chain' = Chain /\ \A t \in Threads : thread'[t].node = thread[t].node
  BY <1>2 DEF Atomic!vars
<1>3. ASSUME NEW j \in Job \ ToSet(Chain), Chain' = prio_queue_enqueue(Chain, j),
             \A t \in Threads : thread[t].node # j,
             \A t \in Threads : thread'[t].node = thread[t].node
      PROVE  Atomic!Next
  <2>1. nodes' = nodes /\ \A t \in Threads : nodes[t] # j
    BY <1>3
  <2>2. Atomic!Enqueue(j)
    BY <1>3, <2>1, SameOperators DEF Atomic!Enqueue
  <2> QED  BY <2>2 DEF Atomic!Next
<1>4. ASSUME NEW t \in Threads, Chain # <<>>, Chain' = Tail(Chain),
             thread[t].node = NULL, thread'[t].node = Head(Chain),
             \A u \in Threads \ {t} : thread'[u].node = thread[u].node
      PROVE  Atomic!Next
  <2>1. nodes' = [nodes EXCEPT ![t] = Head(Chain)]
    BY <1>4
  <2>2. nodes[t] = NULL /\ Chain' = prio_queue_fifo_dequeue(Chain)
    BY <1>4 DEF prio_queue_fifo_dequeue
  <2>3. Atomic!Dequeue(t)
    BY <1>4, <2>1, <2>2, SameOperators DEF Atomic!Dequeue
  <2> QED  BY <2>3 DEF Atomic!Next
<1>5. ASSUME NEW t \in Threads, Chain' = Chain, thread[t].node # NULL,
             thread'[t].node = NULL,
             \A u \in Threads \ {t} : thread'[u].node = thread[u].node
      PROVE  Atomic!Next
  <2>1. nodes' = [nodes EXCEPT ![t] = NULL]
    <3>1. \A u \in Threads : thread'[u].node = IF u = t THEN NULL ELSE nodes[u]
      BY <1>5
    <3> QED  BY <1>1, <3>1
  <2>2. nodes[t] # NULL
    BY <1>5
  <2>3. Atomic!Free(t)
    BY <1>5, <2>1, <2>2, Zenon DEF Atomic!Free
  <2> QED  BY <2>3 DEF Atomic!Next
<1> QED  BY <1>2, <1>3, <1>4, <1>5 DEF QueueStep

\* The linked list is the queue that module Pronto is written in terms of.
THEOREM ListImplementsQueue == Spec => ImplementsAtomicQueue
<1>1. Init => Atomic!Init
  <2>1. Init => \A t \in Threads : thread[t].node = NULL
    BY DEF Init, Asleep
  <2> QED  BY <2>1, ListInit DEF Atomic!Init
<1>2. ListInv /\ [Next]_vars => [Atomic!Next]_(Atomic!vars)
  BY ListNext, QueueSteps
<1> QED  BY <1>1, <1>2, ListInvariant, PTL DEF Spec, ImplementsAtomicQueue, Atomic!Spec
================================================================================
