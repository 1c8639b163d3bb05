---------------------------- MODULE PrioQueueProofs ----------------------------
(***************************************************************************)
(* Facts about the queue operators of PrioQueue, for every set of jobs and *)
(* every assignment of requests, and about minima of sets of naturals.     *)
(***************************************************************************)
EXTENDS PrioQueue, SequenceTheorems, FiniteSetTheorems, TLAPS

\* A nonempty set of naturals has a least element, and Min returns it.
LEMMA MinOfNaturals ==
    ASSUME NEW S \in SUBSET Nat, S # {}
    PROVE  /\ Min(S) \in S
           /\ \A x \in S : Min(S) <= x
<1>1. PICK n \in S : TRUE
  OBVIOUS
<1> DEFINE below == {0..x : x \in {y \in S : y <= n}}
<1>2. below \subseteq SUBSET (0..n) /\ below # {}
  <2>1. \A x \in S : x <= n => 0..x \subseteq 0..n
    OBVIOUS
  <2>2. 0..n \in below
    OBVIOUS
  <2> QED  BY <2>1, <2>2
<1>3. IsWellFoundedOn(StrictSubsetOrdering(0..n), SUBSET (0..n))
  <2>1. IsFiniteSet(0..n)
    BY FS_Interval
  <2> QED  BY <2>1, FS_FiniteSubsetsOfFinite, FS_StrictSubsetOrderingWellFounded, Zenon
<1> HIDE DEF below
<1>6. PICK b \in below : \A c \in below : ~(<<c, b>> \in StrictSubsetOrdering(0..n))
  BY <1>2, <1>3, WFMin, Zenon
<1>4. PICK m \in S : m <= n /\ b = 0..m
  BY <1>6 DEF below
<1>5. \A x \in S : m =< x
  <2>1. SUFFICES ASSUME NEW x \in S, x < m  PROVE FALSE
    OBVIOUS
  <2>2. 0..x \in below /\ 0..x \subseteq 0..m /\ 0..x # 0..m
    BY <1>4, <2>1 DEF below
  <2> QED  BY <1>2, <1>4, <1>6, <2>2 DEF StrictSubsetOrdering
<1> QED  BY <1>5 DEF Min

\* What InsertAt makes of a queue: one element more, the new one at its place,
\* the ones behind it shifted.
LEMMA InsertAtShape ==
    ASSUME NEW q \in Seq(Job), NEW el \in Job, NEW pos \in 1..(Len(q) + 1)
    PROVE  /\ InsertAt(q, pos, el) \in Seq(Job)
           /\ Len(InsertAt(q, pos, el)) = Len(q) + 1
           /\ \A i \in 1..(Len(q) + 1) :
                InsertAt(q, pos, el)[i] = IF i < pos THEN q[i]
                                          ELSE IF i = pos THEN el ELSE q[i - 1]
<1> DEFINE front == SubSeq(q, 1, pos - 1)
           back  == SubSeq(q, pos, Len(q))
<1>1. /\ front \in Seq(Job) /\ Len(front) = pos - 1
      /\ \A i \in 1..(pos - 1) : front[i] = q[i]
  OBVIOUS
<1>2. /\ back \in Seq(Job) /\ Len(back) = Len(q) + 1 - pos
      /\ \A i \in 1..(Len(q) + 1 - pos) : back[i] = q[pos + i - 1]
  OBVIOUS
<1> HIDE DEF front, back
<1>3. /\ (front \o <<el>>) \in Seq(Job) /\ Len(front \o <<el>>) = pos
      /\ \A i \in 1..(pos - 1) : (front \o <<el>>)[i] = q[i]
      /\ (front \o <<el>>)[pos] = el
  BY <1>1
<1>4. InsertAt(q, pos, el) = (front \o <<el>>) \o back
  BY DEF InsertAt, front, back
<1> DEFINE r == (front \o <<el>>) \o back
<1>5. /\ r \in Seq(Job) /\ Len(r) = Len(q) + 1
      /\ \A i \in 1..pos : r[i] = (front \o <<el>>)[i]
      /\ \A i \in (pos + 1)..(Len(q) + 1) : r[i] = back[i - pos]
  <2> DEFINE a == front \o <<el>>
  <2>1. /\ a \in Seq(Job) /\ Len(a) = pos
        /\ back \in Seq(Job) /\ Len(back) = Len(q) + 1 - pos
        /\ pos \in Nat /\ Len(q) \in Nat
    BY <1>2, <1>3
  <2> HIDE DEF a
  <2>2. /\ a \o back \in Seq(Job) /\ Len(a \o back) = Len(a) + Len(back)
        /\ \A i \in 1..Len(a) + Len(back) :
             (a \o back)[i] = IF i <= Len(a) THEN a[i] ELSE back[i - Len(a)]
    BY <2>1, ConcatProperties, Zenon
  <2>3. Len(a) + Len(back) = Len(q) + 1
    BY <2>1
  <2>4. r = a \o back
    BY DEF a
  <2> HIDE DEF r
  <2> QED  BY <2>1, <2>2, <2>3, <2>4 DEF a
<1> HIDE DEF r
<1>6. ASSUME NEW i \in (pos + 1)..(Len(q) + 1)  PROVE r[i] = q[i - 1]
  <2>1. i - pos \in 1..(Len(q) + 1 - pos) /\ pos + (i - pos) - 1 = i - 1
    OBVIOUS
  <2> QED  BY <1>2, <1>5, <2>1
<1>7. ASSUME NEW i \in 1..(Len(q) + 1)
      PROVE  r[i] = IF i < pos THEN q[i] ELSE IF i = pos THEN el ELSE q[i - 1]
  <2>1. CASE i < pos
    <3>1. i \in 1..(pos - 1) /\ i \in 1..pos
      BY <2>1
    <3> QED  BY <1>3, <1>5, <2>1, <3>1
  <2>2. CASE i = pos
    BY <1>3, <1>5, <2>2
  <2>3. CASE i > pos
    <3>1. i \in (pos + 1)..(Len(q) + 1)
      BY <2>3
    <3> QED  BY <1>6, <2>3, <3>1
  <2> QED  BY <2>1, <2>2, <2>3
<1> QED  BY <1>4, <1>5, <1>7 DEF r

\* Where prio_queue_enqueue puts a job: behind smaller ones only, and in front
\* of one that is not smaller.
LEMMA EnqueuePosition ==
    ASSUME NEW q \in Seq(Job), NEW el \in Job
    PROVE  \E pos \in 1..(Len(q) + 1) :
             /\ prio_queue_enqueue(q, el) = InsertAt(q, pos, el)
             /\ \A i \in 1..(pos - 1) : Request[q[i]] < Request[el]
             /\ pos <= Len(q) => Request[el] <= Request[q[pos]]
<1> USE RequestAssumption
<1> DEFINE stops == StopsAt(q, el)
<1>1. CASE stops = {}
  <2>1. \A i \in 1..Len(q) : Request[q[i]] < Request[el]
    BY <1>1 DEF StopsAt
  <2> QED  BY <1>1, <2>1 DEF prio_queue_enqueue
<1>2. CASE stops # {}
  <2>1. stops \in SUBSET Nat
    BY DEF StopsAt
  <2>2. Min(stops) \in stops /\ \A x \in stops : Min(stops) <= x
    BY <1>2, <2>1, MinOfNaturals
  <2>3. \A i \in 1..(Min(stops) - 1) : Request[q[i]] < Request[el]
    BY <2>2 DEF StopsAt
  <2>4. Min(stops) \in 1..Len(q) /\ Request[el] <= Request[q[Min(stops)]]
    BY <2>2 DEF StopsAt
  <2> QED  BY <1>2, <2>3, <2>4 DEF prio_queue_enqueue
<1> QED  BY <1>1, <1>2

\* Enqueueing adds one job and keeps a queue a queue.
LEMMA EnqueueType ==
    ASSUME NEW q \in Seq(Job), NEW el \in Job
    PROVE  /\ prio_queue_enqueue(q, el) \in Seq(Job)
           /\ Len(prio_queue_enqueue(q, el)) = Len(q) + 1
           /\ prio_queue_enqueue(q, el) # <<>>
BY EnqueuePosition, InsertAtShape

\* Dequeueing keeps a queue a queue and takes one job from a nonempty one.
LEMMA DequeueType ==
    ASSUME NEW q \in Seq(Job)
    PROVE  /\ prio_queue_fifo_dequeue(q) \in Seq(Job)
           /\ q # <<>> => /\ Head(q) \in Job
                          /\ Len(prio_queue_fifo_dequeue(q)) = Len(q) - 1
BY DEF prio_queue_fifo_dequeue

\* prio_queue_enqueue keeps a queue in the order of its requests.
THEOREM EnqueueKeepsSorted ==
    ASSUME NEW q \in Seq(Job), NEW el \in Job, Sorted(q)
    PROVE  Sorted(prio_queue_enqueue(q, el))
<1> USE RequestAssumption
<1>1. PICK pos \in 1..(Len(q) + 1) :
             /\ prio_queue_enqueue(q, el) = InsertAt(q, pos, el)
             /\ \A i \in 1..(pos - 1) : Request[q[i]] < Request[el]
             /\ pos <= Len(q) => Request[el] <= Request[q[pos]]
  BY EnqueuePosition
<1> DEFINE r == InsertAt(q, pos, el)
<1>2. /\ Len(r) = Len(q) + 1
      /\ \A i \in 1..(Len(q) + 1) :
           r[i] = IF i < pos THEN q[i] ELSE IF i = pos THEN el ELSE q[i - 1]
  BY InsertAtShape
<1> HIDE DEF r
<1>3. \A i, k \in 1..Len(q) : i <= k => Request[q[i]] <= Request[q[k]]
  BY DEF Sorted
<1>4. \A k \in pos..Len(q) : Request[el] <= Request[q[k]]
  BY <1>1, <1>3
<1>5. SUFFICES ASSUME NEW i \in 1..(Len(q) + 1), NEW k \in 1..(Len(q) + 1), i < k
               PROVE  Request[r[i]] <= Request[r[k]]
  BY <1>1, <1>2 DEF Sorted, r
<1>6. CASE k < pos
  <2>1. r[i] = q[i] /\ r[k] = q[k] /\ i \in 1..Len(q) /\ k \in 1..Len(q)
    BY <1>2, <1>5, <1>6
  <2> QED  BY <1>3, <1>5, <2>1
<1>7. CASE k = pos
  <2>1. r[i] = q[i] /\ r[k] = el
    BY <1>2, <1>5, <1>7
  <2> QED  BY <1>1, <1>5, <1>7, <2>1
<1>8. CASE k > pos
  <2>1. r[k] = q[k - 1] /\ k - 1 \in pos..Len(q)
    BY <1>2, <1>8
  <2>2. k - 1 \in 1..Len(q)
    BY <1>8
  <2>3. CASE i < pos
    <3>1. r[i] = q[i] /\ i \in 1..Len(q) /\ i <= k - 1
      BY <1>2, <1>5, <1>8, <2>3
    <3>2. Request[q[i]] <= Request[q[k - 1]]
      BY <1>3, <2>2, <3>1
    <3> QED  BY <2>1, <3>1, <3>2
  <2>4. CASE i = pos
    <3>1. r[i] = el
      BY <1>2, <2>4
    <3> QED  BY <1>4, <2>1, <3>1
  <2>5. CASE i > pos
    <3>1. r[i] = q[i - 1]
      BY <1>2, <2>5
    <3>2. i - 1 \in 1..Len(q) /\ i - 1 <= k - 1
      BY <1>5, <2>5
    <3>3. Request[q[i - 1]] <= Request[q[k - 1]]
      BY <1>3, <2>2, <3>2
    <3> QED  BY <2>1, <3>1, <3>3
  <2> QED  BY <2>3, <2>4, <2>5
<1> QED  BY <1>6, <1>7, <1>8

\* Dequeueing keeps the order.
LEMMA DequeueKeepsSorted ==
    ASSUME NEW q \in Seq(Job), Sorted(q)
    PROVE  Sorted(prio_queue_fifo_dequeue(q))
<1> USE RequestAssumption
<1>1. CASE q = <<>>
  BY <1>1 DEF prio_queue_fifo_dequeue
<1>2. CASE q # <<>>
  <2>1. Len(Tail(q)) = Len(q) - 1 /\ \A i \in 1..(Len(q) - 1) : Tail(q)[i] = q[i + 1]
    BY <1>2
  <2> QED  BY <1>2, <2>1 DEF prio_queue_fifo_dequeue, Sorted
<1> QED  BY <1>1, <1>2
================================================================================
