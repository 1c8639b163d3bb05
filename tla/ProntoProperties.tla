--------------------------- MODULE ProntoProperties ---------------------------
(***************************************************************************)
(* What module Pronto is meant to satisfy.                                 *)
(***************************************************************************)
EXTENDS Pronto

(* Where jobs are. *)

\* Job j is with a thread that has reserved units on w and not yet queued j there.
BeingAdded(w) ==
    {j \in Job : \E s \in Schedulers :
                    sched[s].pc = "add" /\ sched[s].fit = w /\ sched[s].node = j}
    \cup {j \in Job : resched.pc = "add" /\ resched.fit = w /\ resched.node = j}

Placed(w)   == BeingAdded(w) \cup ToSet(scheduler_jobs[w])
                  \cup {j \in Job : worker[w].node = j}
\* The jobs for which units of w are reserved.
Reserved(w) == Placed(w) \cup client[w] \cup lost[w]
\* The units of w that are reserved: every job has units of its own there.
Units(w, jobs)   == UNION {{<<w, j>>} \X (1 .. Request[j]) : j \in jobs}
ReservedUnits(w) == Units(w, Reserved(w))
Load(w)     == Cardinality(ReservedUnits(w))
\* The units of the cluster that are reserved.
AllReservedUnits == UNION {ReservedUnits(w) : w \in Workers}
InWaitingQueue(j) == j \in ToSet(waiting_queue)

\* Every copy of job j that the program holds.
Copies(j) ==
    {<<"job_queue", i>> : i \in {i \in DOMAIN job_queue : job_queue[i] = j}}
    \cup {<<"waiting_queue", i>> : i \in {i \in DOMAIN waiting_queue : waiting_queue[i] = j}}
    \cup {<<"scheduler", s>> : s \in {s \in Schedulers : sched[s].node = j}}
    \cup {<<"rescheduler", i>> : i \in {i \in {0} : resched.node = j}}
    \cup (UNION {{<<"scheduler_jobs", w, i>> :
                    i \in {i \in DOMAIN scheduler_jobs[w] : scheduler_jobs[w][i] = j}}
                 : w \in Workers})
    \cup {<<"worker", w>> : w \in {w \in Workers : worker[w].node = j}}
    \cup {<<"client", w>> : w \in {w \in Workers : j \in client[w]}}
    \cup {<<"lost", w>> : w \in {w \in Workers : j \in lost[w]}}

\* Nothing is going on: every thread sleeps on a semaphore at zero, no request
\* or completion is under way and no worker machine runs or has lost a job.
Quiescent ==
    /\ job_queue = <<>> /\ notify = 0 /\ reschedule = 0
    /\ \A s \in Schedulers : sched[s].pc = "wait"
    /\ resched.pc = "wait"
    /\ \A h \in Handlers : handler[h] = "idle"
    /\ \A w \in Workers : /\ worker[w].pc = "wait" /\ worker_notify[w] = 0
                          /\ scheduler_jobs[w] = <<>> /\ client[w] = {}

-------------------------------------------------------------------------------
(* Semaphores and queues. *)

\* Every post of a semaphore stands for one queued job and every thread past
\* its sem_wait will find one: the jobs in a queue are counted by the posts not
\* yet waited for, the threads between sem_wait and dequeue, less the threads
\* between enqueue and sem_post.
SchedulersDequeuing  == {s \in Schedulers : sched[s].pc = "dequeue"}
HandlersNotifying    == {h \in Handlers : handler[h] = "notify"}
PostersFor(w)        == {s \in Schedulers : sched[s].pc = "post" /\ sched[s].fit = w}
ReschedulerPosts(w)  == IF resched.pc = "post" /\ resched.fit = w THEN 1 ELSE 0
WorkerDequeues(w)    == IF worker[w].pc = "dequeue" THEN 1 ELSE 0

TokensMatchJobs ==
    /\ Len(job_queue) = notify + Cardinality(SchedulersDequeuing)
                               + Cardinality(HandlersNotifying)
    /\ \A w \in Workers :
         Len(scheduler_jobs[w]) = worker_notify[w] + WorkerDequeues(w)
                                  + Cardinality(PostersFor(w)) + ReschedulerPosts(w)

\* A scheduler that was notified finds a job: the message "bug: scheduler was
\* notified but no job was placed in the queue" is never printed.
SchedulerFindsJob ==
    \A s \in Schedulers : sched[s].pc = "dequeue" => job_queue # <<>>

\* A dispatcher thread never reads the request of a NULL node.
WorkerFindsJob ==
    \A w \in Workers :
        /\ worker[w].pc = "dequeue" => scheduler_jobs[w] # <<>>
        /\ worker[w].pc = "post" => worker[w].node # NULL

\* Between finding a worker for the head of the waiting queue and dequeuing it
\* the rescheduler holds waiting_queue_mutex, and nobody puts a smaller job first:
\* the job that leaves is the job the worker was found for.
HeadIsStable ==
    [][resched.pc = "reserve" /\ resched'.pc = "reserve"
         => waiting_queue' = waiting_queue]_vars

-------------------------------------------------------------------------------
(* Jobs and capacity. *)

\* An accepted job is in exactly one place until its units are freed: no hand
\* over between queues and threads loses or duplicates it.
JobInOnePlace ==
    \A j \in Job :
        Cardinality(Copies(j)) = IF outcome[j] = "accepted" THEN 1 ELSE 0

\* The three counters agree with the jobs: every worker is short of exactly the
\* units of the jobs placed on it, counts those jobs, and the cluster is short
\* of the sum ("atomically ... consistent in every other method", pronto.c).
Bookkeeping ==
    /\ \A w \in Workers :
         /\ current_resources[w] = ULong(MAX_RESOURCES - Load(w))
         /\ scheduled_jobs[w] = UInt(Cardinality(Reserved(w)))
    /\ current_capacity =
         SInt(TotalCapacity - Cardinality(AllReservedUnits))

\* The search and the reservation are two critical sections, so that threads
\* may reserve the same units twice.  How far that goes: of the
\* |Schedulers| + 1 threads that reserve, the one that searched last was right
\* then, and each of the others adds at most one job it found room for before.
LargestThatFits == Max({0} \cup ({Request[j] : j \in Job} \cap 1 .. MAX_RESOURCES))
OvercommitBounded ==
    \A w \in Workers :
        Load(w) <= MAX_RESOURCES + Cardinality(Schedulers) * LargestThatFits

\* An accepted job fits an idle worker: no job waits for something that can
\* never be.
AcceptedFits ==
    \A j \in Job : outcome[j] = "accepted" => Request[j] <= MAX_RESOURCES

\* The worker a search picks has, in true units, room for the job and no other
\* has more: over-reservation and wrapped counters never make it look free.
Available(w) == MAX_RESOURCES - Load(w)
HasRoom(w, j) == Request[j] <= Available(w)
LeastBusy(w, j) ==
    /\ HasRoom(w, j)
    /\ \A v \in Workers : Available(v) <= Available(w)
PickIsLeastBusy ==
    [][/\ \A s \in Schedulers :
            sched[s].pc = "fit" /\ sched'[s].pc = "reserve"
                => LeastBusy(sched'[s].fit, sched[s].node)
       /\ resched.pc = "check" /\ resched'.pc = "reserve"
            => LeastBusy(resched'.fit, Head(waiting_queue))]_vars

\* A pass that ends while no worker is over-reserved leaves no job waiting for which
\* any worker has room, in true units: stopping at the first head that does not fit
\* skips nothing, because the queue is sorted.  (One over-reserved worker is enough to
\* break this: see WorkerWithRoomIsFound.)
PassIsComplete ==
    [][resched.pc = "check" /\ resched'.pc = "wait" /\ (\A w \in Workers : Available(w) >= 0)
         => \A j \in ToSet(waiting_queue), w \in Workers : ~HasRoom(w, j)]_vars

\* The life of every job is the one JobLifecycle allows.
stageOf(j) ==
    CASE outcome[j] # "accepted"               -> outcome[j]
      [] \E w \in Workers : j \in lost[w]      -> "lost"
      [] \E w \in Workers : j \in client[w]    -> "running"
      [] \E w \in Workers : j \in Placed(w)    -> "placed"
      [] InWaitingQueue(j)                     -> "waiting"
      [] OTHER                                 -> "queued"
hostOf(j) == IF \E w \in Workers : j \in Reserved(w)
             THEN CHOOSE w \in Workers : j \in Reserved(w) ELSE NoFit

Lifecycle == INSTANCE JobLifecycle WITH
    NoWorker <- NoFit, MayBeLost <- PostMayFail \/ DoneMayFail,
    stage <- [j \in Job |-> stageOf(j)], host <- [j \in Job |-> hostOf(j)]
ImplementsLifecycle == Lifecycle!Spec

-------------------------------------------------------------------------------
(* Progress. *)

\* Every accepted job is eventually decided: placed on a worker or parked.
JobIsDecided ==
    \A j \in Job : (outcome[j] = "accepted")
        ~> (InWaitingQueue(j) \/ \E w \in Workers : j \in Reserved(w))

\* If nothing gets lost, every placed job eventually gives its units back.
PlacedIsFreed ==
    \A j \in Job : (\E w \in Workers : j \in Reserved(w)) ~> (outcome[j] = "freed")

\* If nothing gets lost, a job that waits while any unit is still reserved, or
\* any completion is still to be acted upon, does not wait forever.
WaitingIsServed ==
    \A j \in Job :
        (/\ InWaitingQueue(j)
         /\ reschedule > 0 \/ \E w \in Workers : Reserved(w) # {})
            ~> ~InWaitingQueue(j)

-------------------------------------------------------------------------------
(* What comments of the program say of it, and the program does not do. *)

\* "if there are no workers ready, this function returns -1, indicating that there's
\* no worker able to schedule this particular job" (pronto.c): a search that gives a
\* job up left no worker with room for it.
WorkerWithRoomIsFound ==
    [][/\ \A s \in Schedulers :
            sched[s].pc = "fit" /\ sched'[s].pc = "park"
                => \A w \in Workers : ~HasRoom(w, sched[s].node)
       /\ resched.pc = "check" /\ resched'.pc = "wait" /\ waiting_queue # <<>>
            => \A w \in Workers : ~HasRoom(w, Head(waiting_queue))]_vars

\* "this worker will take jobs from the waiting queue and will try to
\* re-schedule jobs that are placed in the waiting queue" (rescheduler.c): no
\* job is left waiting once the whole cluster is free and everything is at rest.
NobodyIsStranded ==
    Quiescent /\ (\A w \in Workers : lost[w] = {}) => waiting_queue = <<>>
===============================================================================
