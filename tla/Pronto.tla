-------------------------------- MODULE Pronto --------------------------------
(***************************************************************************)
(* The scheduling core of pronto: the HTTP callbacks that accept jobs and  *)
(* completions (handler.c: schedule, job_done), the scheduler threads      *)
(* (scheduler_worker.c), the rescheduler thread (rescheduler.c), the       *)
(* dispatcher thread of every cluster worker (cluster_worker.c) and the    *)
(* bookkeeping they share (pronto.c).                                      *)
(*                                                                         *)
(* A step is the code between two points where another thread can take     *)
(* over: a semaphore operation, or one critical section.  queue_mutex,     *)
(* bookkeeper and the worker_mutexes are held for one critical section     *)
(* with no blocking call inside, so a section under one of them is one     *)
(* action.  waiting_queue_mutex is held by the rescheduler for a whole     *)
(* pass, with the other locks taken inside, and is a variable.             *)
(***************************************************************************)
EXTENDS Integers, FiniteSets, PrioQueue

CONSTANTS Schedulers,       \* the scheduler threads (NUM_SCHEDULERS)
          Handlers,         \* the HTTP handler threads (NUM_HANDLERS)
          CLUSTER_WORKERS,  \* number of cluster workers
          MAX_RESOURCES,    \* units of capacity of every worker
          UINT_MOD,         \* 2^32, the range of int and unsigned int
          ULONG_MOD,        \* 2^64, the range of unsigned long
          NULL,             \* the null node
          PostMayFail,      \* may the POST of a job to its worker get lost?
          DoneMayFail       \* may the POST of a completion get lost?

Workers == 0..(CLUSTER_WORKERS - 1)
TotalCapacity == CLUSTER_WORKERS * MAX_RESOURCES

ASSUME ProntoAssumption ==
    /\ IsFiniteSet(Schedulers) /\ IsFiniteSet(Handlers)
    /\ CLUSTER_WORKERS \in Nat \ {0}
    /\ MAX_RESOURCES \in Nat
    /\ UINT_MOD \in Nat /\ ULONG_MOD \in Nat
    /\ 2 * TotalCapacity < UINT_MOD /\ UINT_MOD <= ULONG_MOD
    /\ NULL \notin Job
    /\ PostMayFail \in BOOLEAN /\ DoneMayFail \in BOOLEAN
    /\ \A j \in Job : Request[j] \in 0..(UINT_MOD - 1)

\* Half of the ints are negative, the longs are a multiple of the ints, and a
\* worker for which every scheduler reserves a whole worker at once has a number of
\* free units that is an int.
ASSUME WordsAssumption ==
    /\ UINT_MOD % 2 = 0 /\ ULONG_MOD % UINT_MOD = 0
    /\ Cardinality(Schedulers) * MAX_RESOURCES <= UINT_MOD \div 2

VARIABLES
    job_queue,          \* jobs accepted by the handlers
    notify,             \* semaphore: wakes the schedulers
    waiting_queue,      \* jobs for which no worker was found
    waiting_mutex,      \* is waiting_queue_mutex held by the rescheduler?
    reschedule,         \* semaphore: wakes the rescheduler
    current_capacity,   \* int: free units in the cluster
    current_resources,  \* unsigned long, per worker: its free units
    scheduled_jobs,     \* unsigned int, per worker: its jobs
    scheduler_jobs,     \* per worker: jobs to dispatch to it
    worker_notify,      \* per worker, semaphore: wakes its dispatcher
    sched,              \* per scheduler thread: pc, node and fit
    resched,            \* the rescheduler thread: pc, node and fit
    worker,             \* per dispatcher thread: pc and node
    handler,            \* per handler thread: pc
    client,             \* per worker machine: the jobs it is running
    lost,               \* per worker: jobs whose capacity nobody will free
    outcome             \* per job: what became of the request for it

queueVars   == <<job_queue, notify>>
waitingVars == <<waiting_queue, waiting_mutex, reschedule>>
bookVars    == <<current_capacity, current_resources, scheduled_jobs>>
workerVars  == <<scheduler_jobs, worker_notify>>
threadVars  == <<sched, resched, worker, handler>>
clientVars  == <<client, lost, outcome>>
vars == <<queueVars, waitingVars, bookVars, workerVars, threadVars, clientVars>>

NoFit == -1     \* what pronto_best_current_fit answers when nobody fits

SchedPc   == {"wait", "dequeue", "fit", "park", "reserve", "add", "post"}
ReschedPc == {"wait", "lock", "check", "reserve", "add", "post"}
Idle == [pc |-> "wait", node |-> NULL, fit |-> NoFit]

TypeOK ==
    /\ job_queue \in Seq(Job) /\ waiting_queue \in Seq(Job)
    /\ notify \in Nat /\ reschedule \in Nat
    /\ waiting_mutex \in BOOLEAN
    /\ current_capacity \in Int
    /\ current_resources \in [Workers -> 0..(ULONG_MOD - 1)]
    /\ scheduled_jobs \in [Workers -> 0..(UINT_MOD - 1)]
    /\ scheduler_jobs \in [Workers -> Seq(Job)]
    /\ worker_notify \in [Workers -> Nat]
    /\ sched \in [Schedulers -> [pc   : SchedPc,
                                 node : Job \cup {NULL},
                                 fit  : Workers \cup {NoFit}]]
    /\ resched \in [pc : ReschedPc, node : Job \cup {NULL},
                    fit : Workers \cup {NoFit}]
    /\ worker \in [Workers -> [pc   : {"wait", "dequeue", "post"},
                               node : Job \cup {NULL}]]
    /\ handler \in [Handlers -> {"idle", "notify", "reschedule"}]
    /\ client \in [Workers -> SUBSET Job]
    /\ lost \in [Workers -> SUBSET Job]
    /\ outcome \in [Job -> {"unsent", "rejected", "accepted", "freed"}]

\* The state pronto_init leaves behind, before the server takes connections.
Init ==
    /\ job_queue = <<>> /\ notify = 0
    /\ waiting_queue = <<>> /\ waiting_mutex = FALSE /\ reschedule = 0
    /\ current_capacity = TotalCapacity
    /\ current_resources = [w \in Workers |-> MAX_RESOURCES]
    /\ scheduled_jobs = [w \in Workers |-> 0]
    /\ scheduler_jobs = [w \in Workers |-> <<>>]
    /\ worker_notify = [w \in Workers |-> 0]
    /\ sched = [s \in Schedulers |-> Idle]
    /\ resched = Idle
    /\ worker = [w \in Workers |-> [pc |-> "wait", node |-> NULL]]
    /\ handler = [h \in Handlers |-> "idle"]
    /\ client = [w \in Workers |-> {}]
    /\ lost = [w \in Workers |-> {}]
    /\ outcome = [j \in Job |-> "unsent"]

-------------------------------------------------------------------------------
(* pronto.c: arithmetic and bookkeeping. *)

\* C conversions: to unsigned int, to unsigned long, to int.
UInt(x)  == x % UINT_MOD
ULong(x) == x % ULONG_MOD
SInt(x)  == IF UInt(x) < UINT_MOD \div 2 THEN UInt(x) ELSE UInt(x) - UINT_MOD

\* Seeded defect: the int is compared with max_resources as an int.
IsSchedulableSigned(value) ==
    TotalCapacity > value /\ \E i \in Workers : MAX_RESOURCES >= value

\* pronto_is_schedulable takes an int and compares it with the int
\* total_capacity and, as an unsigned long, with every max_resources.
pronto_is_schedulable(value) ==
    /\ TotalCapacity > value
    /\ \E i \in Workers : MAX_RESOURCES >= ULong(value)

\* Seeded defect: the first worker that is big enough, whatever it runs.
FirstBigEnough(value) ==
    IF MAX_RESOURCES < value THEN NoFit ELSE Min(Workers)

\* Seeded defect: a tightest fit instead of the least busy worker.
BestFitTightest(value) ==
    LET capacity(i) == SInt(current_resources[i])
        fits == {i \in Workers : value <= current_resources[i] /\ capacity(i) > -1}
        best == {i \in fits : \A k \in fits : capacity(i) <= capacity(k)}
    IN  IF UInt(current_capacity) < value \/ fits = {} THEN NoFit ELSE Min(best)

\* Seeded defect: the cluster must have a unit more than is asked for.
BestFitSpareUnit(value) ==
    LET capacity(i) == SInt(current_resources[i])
        fits == {i \in Workers : value <= current_resources[i] /\ capacity(i) > -1}
        best == {i \in fits : \A k \in fits : capacity(k) <= capacity(i)}
    IN  IF UInt(current_capacity) <= value \/ fits = {} THEN NoFit ELSE Min(best)

\* pronto_best_current_fit: among the workers with enough free units the one
\* with the most, the first of them on a tie.  A worker whose free units read
\* as a negative int never beats the initial capacity of -1.
pronto_best_current_fit(value) ==
    LET capacity(i) == SInt(current_resources[i])
        fits == {i \in Workers : value <= current_resources[i] /\ capacity(i) > -1}
        best == {i \in fits : \A k \in fits : capacity(k) <= capacity(i)}
    IN  IF UInt(current_capacity) < value \/ fits = {} THEN NoFit ELSE Min(best)

\* Seeded defect: a reservation that takes a counter below zero.
ReserveBelowZero(w, qty) ==
    /\ current_capacity' = SInt(current_capacity - qty)
    /\ current_resources' = [current_resources EXCEPT ![w] = @ - qty]
    /\ scheduled_jobs' = [scheduled_jobs EXCEPT ![w] = UInt(@ + 1)]

pronto_reserve_capacity(w, qty) ==
    /\ current_capacity' = SInt(current_capacity - qty)
    /\ current_resources' = [current_resources EXCEPT ![w] = ULong(@ - qty)]
    /\ scheduled_jobs' = [scheduled_jobs EXCEPT ![w] = UInt(@ + 1)]

\* Seeded defects: freeing forgets the job count, or the capacity of the cluster.
FreeKeepsJobCount(w, qty) ==
    /\ current_capacity' = SInt(current_capacity + qty)
    /\ current_resources' = [current_resources EXCEPT ![w] = ULong(@ + qty)]
    /\ UNCHANGED scheduled_jobs
FreeWorkerOnly(w, qty) ==
    /\ current_resources' = [current_resources EXCEPT ![w] = ULong(@ + qty)]
    /\ scheduled_jobs' = [scheduled_jobs EXCEPT ![w] = UInt(@ - 1)]
    /\ UNCHANGED current_capacity

pronto_free_capacity(w, qty) ==
    /\ current_capacity' = SInt(current_capacity + qty)
    /\ current_resources' = [current_resources EXCEPT ![w] = ULong(@ + qty)]
    /\ scheduled_jobs' = [scheduled_jobs EXCEPT ![w] = UInt(@ - 1)]

\* The three ways a copy of a request gets into a queue.
pronto_add_job(j) == job_queue' = prio_queue_enqueue(job_queue, j)
pronto_add_waiting_job(j) == waiting_queue' = prio_queue_enqueue(waiting_queue, j)
cluster_worker_add_job(w, j) ==
    scheduler_jobs' = [scheduler_jobs EXCEPT ![w] = prio_queue_enqueue(@, j)]

\* Seeded defect: a flag in place of a counting semaphore.
RaiseFlag(w) == worker_notify' = [worker_notify EXCEPT ![w] = 1]
SemPostWorker(w) == worker_notify' = [worker_notify EXCEPT ![w] = @ + 1]

-------------------------------------------------------------------------------
(* handler.c: the callbacks of /schedule and /done. *)

\* schedule: a request for job j reaches handler h.  The quantity is an int
\* here and an unsigned int from pronto_add_job on.
schedule(h, j) ==
    /\ handler[h] = "idle" /\ outcome[j] = "unsent"
    /\ \/ /\ ~pronto_is_schedulable(SInt(Request[j]))
          /\ outcome' = [outcome EXCEPT ![j] = "rejected"]
          /\ UNCHANGED <<job_queue, handler>>
       \/ /\ pronto_is_schedulable(SInt(Request[j]))
          /\ outcome' = [outcome EXCEPT ![j] = "accepted"]
          /\ pronto_add_job(j)
          /\ handler' = [handler EXCEPT ![h] = "notify"]
    /\ UNCHANGED <<notify, waitingVars, bookVars, workerVars,
                   sched, resched, worker, client, lost>>

\* Seeded defect: no post while another one is pending.
NotifyOnce(h) ==
    /\ handler[h] = "notify"
    /\ notify' = IF notify = 0 THEN 1 ELSE notify
    /\ handler' = [handler EXCEPT ![h] = "idle"]
    /\ UNCHANGED <<job_queue, waitingVars, bookVars, workerVars,
                   sched, resched, worker, clientVars>>

\* ... and then posts the schedulers' semaphore.
schedule_notify(h) ==
    /\ handler[h] = "notify"
    /\ notify' = notify + 1
    /\ handler' = [handler EXCEPT ![h] = "idle"]
    /\ UNCHANGED <<job_queue, waitingVars, bookVars, workerVars,
                   sched, resched, worker, clientVars>>

\* job_done: the client of worker w has finished job j and its POST to /done
\* reaches handler h.
job_done(h, w, j) ==
    /\ handler[h] = "idle" /\ j \in client[w]
    /\ pronto_free_capacity(w, Request[j])
    /\ client' = [client EXCEPT ![w] = @ \ {j}]
    /\ outcome' = [outcome EXCEPT ![j] = "freed"]
    /\ handler' = [handler EXCEPT ![h] = "reschedule"]
    /\ UNCHANGED <<queueVars, waitingVars, workerVars, sched, resched, worker, lost>>

\* ... and then posts the rescheduler's semaphore.
job_done_notify(h) ==
    /\ handler[h] = "reschedule"
    /\ reschedule' = reschedule + 1
    /\ handler' = [handler EXCEPT ![h] = "idle"]
    /\ UNCHANGED <<queueVars, waiting_queue, waiting_mutex, bookVars, workerVars,
                   sched, resched, worker, clientVars>>

-------------------------------------------------------------------------------
(* scheduler_worker.c: _scheduler_loop, thread s. *)

\* sem_wait(&pronto->notify)
SchedulerWait(s) ==
    /\ sched[s].pc = "wait" /\ notify > 0
    /\ notify' = notify - 1
    /\ sched' = [sched EXCEPT ![s].pc = "dequeue"]
    /\ UNCHANGED <<job_queue, waitingVars, bookVars, workerVars,
                   resched, worker, handler, clientVars>>

\* The dequeue under queue_mutex.  On NULL the loop reports a bug and waits again.
SchedulerDequeue(s) ==
    /\ sched[s].pc = "dequeue"
    /\ job_queue' = prio_queue_fifo_dequeue(job_queue)
    /\ sched' = [sched EXCEPT ![s] =
                    IF job_queue = <<>> THEN Idle
                    ELSE [pc |-> "fit", node |-> Head(job_queue), fit |-> NoFit]]
    /\ UNCHANGED <<notify, waitingVars, bookVars, workerVars,
                   resched, worker, handler, clientVars>>

\* The search under bookkeeper.  Its answer is used after the lock is released.
SchedulerFit(s) ==
    LET b == pronto_best_current_fit(Request[sched[s].node]) IN
    /\ sched[s].pc = "fit"
    /\ sched' = [sched EXCEPT ![s].pc = IF b = NoFit THEN "park" ELSE "reserve",
                              ![s].fit = b]
    /\ UNCHANGED <<queueVars, waitingVars, bookVars, workerVars,
                   resched, worker, handler, clientVars>>

\* Seeded defect: parking without waiting_queue_mutex.
ParkUnlocked(s) ==
    /\ sched[s].pc = "park"
    /\ waiting_queue' = prio_queue_enqueue(waiting_queue, sched[s].node)
    /\ sched' = [sched EXCEPT ![s] = Idle]
    /\ UNCHANGED <<queueVars, waiting_mutex, reschedule, bookVars, workerVars,
                   resched, worker, handler, clientVars>>

\* Parking takes waiting_queue_mutex: it blocks while the rescheduler is in a pass.
SchedulerPark(s) ==
    /\ sched[s].pc = "park" /\ ~waiting_mutex
    /\ pronto_add_waiting_job(sched[s].node)
    /\ sched' = [sched EXCEPT ![s] = Idle]
    /\ UNCHANGED <<queueVars, waiting_mutex, reschedule, bookVars, workerVars,
                   resched, worker, handler, clientVars>>

SchedulerReserve(s) ==
    /\ sched[s].pc = "reserve"
    /\ pronto_reserve_capacity(sched[s].fit, Request[sched[s].node])
    /\ sched' = [sched EXCEPT ![s].pc = "add"]
    /\ UNCHANGED <<queueVars, waitingVars, workerVars,
                   resched, worker, handler, clientVars>>

\* cluster_worker_add_job copies the request; the node is only freed from here.
SchedulerAddJob(s) ==
    /\ sched[s].pc = "add"
    /\ cluster_worker_add_job(sched[s].fit, sched[s].node)
    /\ sched' = [sched EXCEPT ![s].pc = "post", ![s].node = NULL]
    /\ UNCHANGED <<queueVars, waitingVars, bookVars, worker_notify,
                   resched, worker, handler, clientVars>>

SchedulerPost(s) ==
    /\ sched[s].pc = "post"
    /\ SemPostWorker(sched[s].fit)
    /\ sched' = [sched EXCEPT ![s] = Idle]
    /\ UNCHANGED <<queueVars, waitingVars, bookVars, scheduler_jobs,
                   resched, worker, handler, clientVars>>

Scheduler(s) ==
    \/ SchedulerWait(s) \/ SchedulerDequeue(s) \/ SchedulerFit(s) \/ SchedulerPark(s)
    \/ SchedulerReserve(s) \/ SchedulerAddJob(s) \/ SchedulerPost(s)

-------------------------------------------------------------------------------
(* rescheduler.c: _rescheduler_loop. *)

\* sem_wait(&pronto->reschedule)
ReschedulerWait ==
    /\ resched.pc = "wait" /\ reschedule > 0
    /\ reschedule' = reschedule - 1
    /\ resched' = [resched EXCEPT !.pc = "lock"]
    /\ UNCHANGED <<queueVars, waiting_queue, waiting_mutex, bookVars, workerVars,
                   sched, worker, handler, clientVars>>

ReschedulerLock ==
    /\ resched.pc = "lock" /\ ~waiting_mutex
    /\ waiting_mutex' = TRUE
    /\ resched' = [resched EXCEPT !.pc = "check"]
    /\ UNCHANGED <<queueVars, waiting_queue, reschedule, bookVars, workerVars,
                   sched, worker, handler, clientVars>>

\* One turn of the inner loop: stop at an empty queue or at a head that fits
\* nowhere, and unlock; otherwise keep the worker found.  The head stays queued.
ReschedulerCheck ==
    LET b == IF waiting_queue = <<>> THEN NoFit
             ELSE pronto_best_current_fit(Request[Head(waiting_queue)])
    IN
    /\ resched.pc = "check"
    /\ \/ /\ b = NoFit
          /\ waiting_mutex' = FALSE
          /\ resched' = Idle
       \/ /\ b # NoFit
          /\ resched' = [resched EXCEPT !.pc = "reserve", !.fit = b]
          /\ UNCHANGED waiting_mutex
    /\ UNCHANGED <<queueVars, waiting_queue, reschedule, bookVars, workerVars,
                   sched, worker, handler, clientVars>>

\* Seeded defect: the head is placed and stays queued.
ReserveForHeadOnly ==
    /\ resched.pc = "reserve"
    /\ pronto_reserve_capacity(resched.fit, Request[Head(waiting_queue)])
    /\ resched' = [resched EXCEPT !.pc = "add", !.node = Head(waiting_queue)]
    /\ UNCHANGED <<queueVars, waitingVars, workerVars, sched, worker, handler, clientVars>>

\* Dequeue the head, then reserve for what was dequeued.
ReschedulerReserve ==
    /\ resched.pc = "reserve"
    /\ waiting_queue' = prio_queue_fifo_dequeue(waiting_queue)
    /\ pronto_reserve_capacity(resched.fit, Request[Head(waiting_queue)])
    /\ resched' = [resched EXCEPT !.pc = "add", !.node = Head(waiting_queue)]
    /\ UNCHANGED <<queueVars, waiting_mutex, reschedule, workerVars,
                   sched, worker, handler, clientVars>>

ReschedulerAddJob ==
    /\ resched.pc = "add"
    /\ cluster_worker_add_job(resched.fit, resched.node)
    /\ resched' = [resched EXCEPT !.pc = "post", !.node = NULL]
    /\ UNCHANGED <<queueVars, waitingVars, bookVars, worker_notify,
                   sched, worker, handler, clientVars>>

ReschedulerPost ==
    /\ resched.pc = "post"
    /\ SemPostWorker(resched.fit)
    /\ resched' = [Idle EXCEPT !.pc = "check"]
    /\ UNCHANGED <<queueVars, waitingVars, bookVars, scheduler_jobs,
                   sched, worker, handler, clientVars>>

Rescheduler ==
    \/ ReschedulerWait \/ ReschedulerLock \/ ReschedulerCheck
    \/ ReschedulerReserve \/ ReschedulerAddJob \/ ReschedulerPost

-------------------------------------------------------------------------------
(* cluster_worker.c: _cluster_loop, the dispatcher thread of worker w. *)

\* sem_wait(&worker->notify)
WorkerWait(w) ==
    /\ worker[w].pc = "wait" /\ worker_notify[w] > 0
    /\ worker_notify' = [worker_notify EXCEPT ![w] = @ - 1]
    /\ worker' = [worker EXCEPT ![w].pc = "dequeue"]
    /\ UNCHANGED <<queueVars, waitingVars, bookVars, scheduler_jobs,
                   sched, resched, handler, clientVars>>

\* The dequeue under worker_mutex; NULL is not tested for.
WorkerDequeue(w) ==
    /\ worker[w].pc = "dequeue"
    /\ scheduler_jobs' = [scheduler_jobs EXCEPT ![w] = prio_queue_fifo_dequeue(@)]
    /\ worker' = [worker EXCEPT ![w] =
                    [pc   |-> "post",
                     node |-> IF scheduler_jobs[w] = <<>> THEN NULL
                              ELSE Head(scheduler_jobs[w])]]
    /\ UNCHANGED <<queueVars, waitingVars, bookVars, worker_notify,
                   sched, resched, handler, clientVars>>

\* Seeded defect: a POST whose answer got lost is repeated.
WorkerPostRetried(w) ==
    /\ worker[w].pc = "post" /\ worker[w].node # NULL
    /\ client' = [client EXCEPT ![w] = @ \cup {worker[w].node}]
    /\ \/ worker' = [worker EXCEPT ![w] = [pc |-> "wait", node |-> NULL]]
       \/ PostMayFail /\ UNCHANGED worker
    /\ UNCHANGED <<queueVars, waitingVars, bookVars, workerVars,
                   sched, resched, handler, lost, outcome>>

\* The POST of the job to http://srv-w:3000.  Whatever curl and cJSON answer the
\* thread goes back to its semaphore: a job that did not get through is dropped
\* and its reservation stays.  With a NULL node the thread crashes here.  The
\* client may start while the thread still waits for the answer; nothing the
\* thread does after that is shared, so delivery and return are one step.
WorkerPost(w) ==
    /\ worker[w].pc = "post" /\ worker[w].node # NULL
    /\ \/ /\ client' = [client EXCEPT ![w] = @ \cup {worker[w].node}]
          /\ UNCHANGED lost
       \/ /\ PostMayFail
          /\ lost' = [lost EXCEPT ![w] = @ \cup {worker[w].node}]
          /\ UNCHANGED client
    /\ worker' = [worker EXCEPT ![w] = [pc |-> "wait", node |-> NULL]]
    /\ UNCHANGED <<queueVars, waitingVars, bookVars, workerVars,
                   sched, resched, handler, outcome>>

ClusterWorker(w) == WorkerWait(w) \/ WorkerDequeue(w) \/ WorkerPost(w)

\* client/src/main.rs: the POST to /done fails; the client prints the error and
\* never repeats the call.
ClientDoneLost(w, j) ==
    /\ DoneMayFail /\ j \in client[w]
    /\ client' = [client EXCEPT ![w] = @ \ {j}]
    /\ lost' = [lost EXCEPT ![w] = @ \cup {j}]
    /\ UNCHANGED <<queueVars, waitingVars, bookVars, workerVars, threadVars, outcome>>

-------------------------------------------------------------------------------
Handler(h) == schedule_notify(h) \/ job_done_notify(h)

Next ==
    \/ \E h \in Handlers :
         \/ Handler(h)
         \/ \E j \in Job : schedule(h, j)
         \/ \E w \in Workers, j \in Job : job_done(h, w, j)
    \/ \E s \in Schedulers : Scheduler(s)
    \/ Rescheduler
    \/ \E w \in Workers : ClusterWorker(w) \/ \E j \in Job : ClientDoneLost(w, j)

Spec == Init /\ [][Next]_vars

\* Every thread of the process keeps running, and a client whose job has ended
\* gets its completion through.  Nobody is obliged to ask for a job.
Fairness ==
    /\ \A s \in Schedulers : WF_vars(Scheduler(s))
    /\ WF_vars(Rescheduler)
    /\ \A w \in Workers : WF_vars(ClusterWorker(w))
    /\ \A h \in Handlers : WF_vars(Handler(h))
    /\ \A w \in Workers, j \in Job : WF_vars(\E h \in Handlers : job_done(h, w, j))

FairSpec == Spec /\ Fairness
===============================================================================
