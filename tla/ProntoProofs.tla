------------------------------ MODULE ProntoProofs ------------------------------
(***************************************************************************)
(* Types, semaphores, order, passes, admission and the places of jobs in   *)
(* Pronto, for any number of threads, workers and jobs, any requests and   *)
(* any width of the machine words: every hand-over moves one job from one  *)
(* place to another, so that an accepted job is in one place only,         *)
(* Pronto implements JobLifecycle, the books of the workers balance, a     *)
(* worker is over-reserved by at most one job of every thread that         *)
(* reserves, and a search picks the least busy worker.                     *)
(***************************************************************************)
EXTENDS ProntoProperties, PrioQueueProofs

-------------------------------------------------------------------------------
(* Arithmetic and the search. *)

\* Changing a function at one point keeps its range.
LEMMA ExceptType ==
    ASSUME NEW D, NEW R, NEW f \in [D -> R], NEW d \in D, NEW r \in R
    PROVE  [f EXCEPT ![d] = r] \in [D -> R]
OBVIOUS

\* A conversion to an unsigned type stays within the type.
LEMMA ModRange ==
    ASSUME NEW m \in Nat \ {0}, NEW x \in Int
    PROVE  x % m \in 0..(m - 1)
OBVIOUS

\* The widths and capacities are naturals.
LEMMA ConstantsType ==
    /\ UINT_MOD \in Nat \ {0} /\ ULONG_MOD \in Nat \ {0}
    /\ MAX_RESOURCES \in Nat /\ CLUSTER_WORKERS \in Nat \ {0}
    /\ TotalCapacity \in Nat
    /\ Workers \subseteq Nat /\ NoFit \notin Workers
    /\ \A j \in Job : Request[j] \in Nat
BY ProntoAssumption, RequestAssumption DEF TotalCapacity, Workers, NoFit

\* One worker is not larger than the cluster, and the cluster fits in an int.
LEMMA CapacityFits ==
    /\ MAX_RESOURCES <= TotalCapacity
    /\ 2 * TotalCapacity < UINT_MOD /\ UINT_MOD <= ULONG_MOD
<1>1. \A m, n \in Nat : n >= 1 => m <= n * m
  OBVIOUS
<1>2. CLUSTER_WORKERS >= 1
  BY ConstantsType
<1> QED  BY <1>1, <1>2, ConstantsType, ProntoAssumption DEF TotalCapacity

\* The C conversions stay within their types.
LEMMA ConversionType ==
    ASSUME NEW x \in Int
    PROVE  /\ UInt(x) \in 0..(UINT_MOD - 1)
           /\ ULong(x) \in 0..(ULONG_MOD - 1)
           /\ SInt(x) \in Int /\ SInt(x) < UINT_MOD
<1>1. UInt(x) \in 0..(UINT_MOD - 1) /\ ULong(x) \in 0..(ULONG_MOD - 1)
  BY ConstantsType, ModRange DEF UInt, ULong
<1> QED  BY <1>1, ConstantsType DEF SInt

\* A bounded integer function has a maximum on a nonempty set.
LEMMA HasMaximum ==
    ASSUME NEW S, S # {}, NEW f, NEW bound \in Nat,
           \A i \in S : f[i] \in Int /\ f[i] <= bound
    PROVE  \E i \in S : \A k \in S : f[k] <= f[i]
<1> DEFINE gaps == {bound - f[i] : i \in S}
<1>1. gaps \in SUBSET Nat /\ gaps # {}
  OBVIOUS
<1>2. PICK g \in gaps : \A x \in gaps : g <= x
  <2> HIDE DEF gaps
  <2> QED  BY <1>1, MinOfNaturals
<1>3. PICK i \in S : g = bound - f[i]
  OBVIOUS
<1>4. \A k \in S : bound - f[i] <= bound - f[k]
  BY <1>2, <1>3
<1> QED  BY <1>4

\* A nonempty set of workers has a least busy one, and the search returns it.
\* It returns NoFit only when nobody fits.
LEMMA BestFitType ==
    ASSUME TypeOK, NEW value \in Nat
    PROVE  /\ pronto_best_current_fit(value) \in Workers \cup {NoFit}
           /\ pronto_best_current_fit(value) = NoFit
                <=> \/ UInt(current_capacity) < value
                    \/ ~\E i \in Workers : /\ value <= current_resources[i]
                                           /\ SInt(current_resources[i]) > -1
<1> DEFINE capacity(i) == SInt(current_resources[i])
           fits == {i \in Workers : value <= current_resources[i] /\ capacity(i) > -1}
           best == {i \in fits : \A k \in fits : capacity(k) <= capacity(i)}
           f == [i \in Workers |-> capacity(i)]
<1>1. \A i \in Workers : capacity(i) \in Int /\ capacity(i) < UINT_MOD
  BY ConstantsType, ConversionType DEF TypeOK
<1>2. ASSUME fits # {}  PROVE best # {}
  <2>1. UINT_MOD \in Nat /\ fits \subseteq Workers
    BY ConstantsType
  <2>2. \A i \in fits : f[i] = capacity(i) /\ f[i] \in Int /\ f[i] <= UINT_MOD
    BY <1>1, <2>1
  <2>3. \E i \in fits : \A k \in fits : f[k] <= f[i]
    <3> HIDE DEF fits, f
    <3> QED  BY <1>2, <2>1, <2>2, HasMaximum
  <2> QED  BY <2>2, <2>3
<1>3. ASSUME fits # {}  PROVE Min(best) \in Workers
  <2>1. best \in SUBSET Nat
    BY ConstantsType
  <2> QED  BY <1>2, <1>3, <2>1, MinOfNaturals
<1>4. pronto_best_current_fit(value) =
        IF UInt(current_capacity) < value \/ fits = {} THEN NoFit ELSE Min(best)
  BY DEF pronto_best_current_fit
<1> QED  BY <1>3, <1>4, ConstantsType

\* Reserving and freeing keep the counters within their types.
LEMMA BookkeepingType ==
    ASSUME TypeOK, NEW w \in Workers, NEW qty \in Nat,
           pronto_reserve_capacity(w, qty) \/ pronto_free_capacity(w, qty)
    PROVE  /\ current_capacity' \in Int
           /\ current_resources' \in [Workers -> 0..(ULONG_MOD - 1)]
           /\ scheduled_jobs' \in [Workers -> 0..(UINT_MOD - 1)]
<1>1. /\ current_resources[w] \in Int /\ scheduled_jobs[w] \in Int
      /\ current_capacity \in Int
  BY ConstantsType DEF TypeOK
<1>2. CASE pronto_reserve_capacity(w, qty)
  <2>1. /\ ULong(current_resources[w] - qty) \in 0..(ULONG_MOD - 1)
        /\ UInt(scheduled_jobs[w] + 1) \in 0..(UINT_MOD - 1)
        /\ SInt(current_capacity - qty) \in Int
    BY <1>1, ConversionType
  <2> QED  BY <1>2, <2>1 DEF TypeOK, pronto_reserve_capacity
<1>3. CASE pronto_free_capacity(w, qty)
  <2>1. /\ ULong(current_resources[w] + qty) \in 0..(ULONG_MOD - 1)
        /\ UInt(scheduled_jobs[w] - 1) \in 0..(UINT_MOD - 1)
        /\ SInt(current_capacity + qty) \in Int
    BY <1>1, ConversionType
  <2> QED  BY <1>3, <2>1 DEF TypeOK, pronto_free_capacity
<1> QED  BY <1>2, <1>3

\* Queueing a job for a worker keeps its queue a queue.
LEMMA AddJobType ==
    ASSUME TypeOK, NEW w \in Workers, NEW j \in Job, cluster_worker_add_job(w, j)
    PROVE  /\ scheduler_jobs' \in [Workers -> Seq(Job)]
           /\ Len(scheduler_jobs'[w]) = Len(scheduler_jobs[w]) + 1
           /\ \A v \in Workers \ {w} : scheduler_jobs'[v] = scheduler_jobs[v]
<1>1. scheduler_jobs[w] \in Seq(Job)
  BY DEF TypeOK
<1>2. /\ prio_queue_enqueue(scheduler_jobs[w], j) \in Seq(Job)
      /\ Len(prio_queue_enqueue(scheduler_jobs[w], j)) = Len(scheduler_jobs[w]) + 1
  BY <1>1, EnqueueType
<1> QED  BY <1>2 DEF TypeOK, cluster_worker_add_job
-------------------------------------------------------------------------------
(* Type correctness. *)

\* TypeOK alone is not inductive: a thread must have a job and a worker where
\* it uses them, and the head that the rescheduler is about to take must exist.
ThreadsHoldJobs ==
    /\ \A s \in Schedulers :
         /\ sched[s].pc \in {"fit", "park", "reserve", "add"} => sched[s].node \in Job
         /\ sched[s].pc \in {"reserve", "add", "post"} => sched[s].fit \in Workers
    /\ resched.pc = "add" => resched.node \in Job
    /\ resched.pc \in {"reserve", "add", "post"} => resched.fit \in Workers
    /\ resched.pc = "reserve" => waiting_queue # <<>>

\* waiting_queue_mutex is the rescheduler's from the lock to the end of a pass.
PassHoldsMutex == waiting_mutex <=> resched.pc \in {"check", "reserve", "add", "post"}

TypeInv == TypeOK /\ ThreadsHoldJobs /\ PassHoldsMutex

\* pronto_init leaves the invariant behind.
LEMMA TypeInit == Init => TypeInv
<1> SUFFICES ASSUME Init  PROVE TypeInv
  OBVIOUS
<1>1. TypeOK
  <2>1. /\ MAX_RESOURCES \in 0..(ULONG_MOD - 1)
        /\ 0 \in 0..(ULONG_MOD - 1) /\ 0 \in 0..(UINT_MOD - 1)
    BY ConstantsType, CapacityFits
  <2>2. /\ Idle \in [pc : SchedPc, node : Job \cup {NULL}, fit : Workers \cup {NoFit}]
        /\ Idle \in [pc : ReschedPc, node : Job \cup {NULL}, fit : Workers \cup {NoFit}]
    BY DEF Idle, SchedPc, ReschedPc
  <2>3. TotalCapacity \in Int /\ <<>> \in Seq(Job)
    BY ConstantsType
  <2> QED
    BY <2>1, <2>2, <2>3 DEF Init, TypeOK
<1>2. ThreadsHoldJobs /\ PassHoldsMutex
  BY DEF Init, ThreadsHoldJobs, PassHoldsMutex, Idle
<1> QED  BY <1>1, <1>2 DEF TypeInv

\* Every step keeps the invariant: one case per action.
LEMMA TypeNext == TypeInv /\ [Next]_vars => TypeInv'
<1> SUFFICES ASSUME TypeInv, [Next]_vars  PROVE TypeInv'
  OBVIOUS
<1> USE DEF TypeInv
<1>1. ASSUME NEW h \in Handlers, NEW j \in Job, schedule(h, j)  PROVE TypeInv'
  <2>1. job_queue' \in Seq(Job)
    BY <1>1, EnqueueType DEF schedule, pronto_add_job, TypeOK
  <2>2. handler' \in [Handlers -> {"idle", "notify", "reschedule"}]
    BY <1>1 DEF schedule, pronto_add_job, TypeOK
  <2>3. outcome' \in [Job -> {"unsent", "rejected", "accepted", "freed"}]
    BY <1>1 DEF schedule, pronto_add_job, TypeOK
  <2> QED
    BY <1>1, <2>1, <2>2, <2>3
       DEF schedule, pronto_add_job, TypeOK, ThreadsHoldJobs, PassHoldsMutex, SchedPc,
           ReschedPc, Idle, NoFit, queueVars, waitingVars, bookVars, workerVars,
           threadVars, clientVars
<1>2. ASSUME NEW h \in Handlers, schedule_notify(h)  PROVE TypeInv'
  BY <1>2
     DEF schedule_notify, TypeOK, ThreadsHoldJobs, PassHoldsMutex, SchedPc, ReschedPc,
         Idle, NoFit, queueVars, waitingVars, bookVars, workerVars, threadVars,
         clientVars
<1>3. ASSUME NEW h \in Handlers, NEW w \in Workers, NEW j \in Job,
             job_done(h, w, j)  PROVE TypeInv'
  BY <1>3, BookkeepingType, ConstantsType
     DEF job_done, TypeOK, ThreadsHoldJobs, PassHoldsMutex, SchedPc, ReschedPc, Idle,
         NoFit, queueVars, waitingVars, bookVars, workerVars, threadVars, clientVars
<1>4. ASSUME NEW h \in Handlers, job_done_notify(h)  PROVE TypeInv'
  BY <1>4
     DEF job_done_notify, TypeOK, ThreadsHoldJobs, PassHoldsMutex, SchedPc, ReschedPc,
         Idle, NoFit, queueVars, waitingVars, bookVars, workerVars, threadVars,
         clientVars
<1>5. ASSUME NEW s \in Schedulers, SchedulerWait(s)  PROVE TypeInv'
  <2>1. notify' \in Nat
    BY <1>5 DEF SchedulerWait, TypeOK
  <2>2. sched' \in [Schedulers -> [pc   : SchedPc,
                                   node : Job \cup {NULL},
                                   fit  : Workers \cup {NoFit}]]
    BY <1>5 DEF SchedulerWait, TypeOK, SchedPc
  <2> QED
    BY SMTT(60), <1>5, <2>1, <2>2
       DEF SchedulerWait, TypeOK, ThreadsHoldJobs, PassHoldsMutex, SchedPc, ReschedPc,
           Idle, NoFit, queueVars, waitingVars, bookVars, workerVars, threadVars,
           clientVars
<1>6. ASSUME NEW s \in Schedulers, SchedulerDequeue(s)  PROVE TypeInv'
  BY <1>6, DequeueType
     DEF SchedulerDequeue, TypeOK, ThreadsHoldJobs, PassHoldsMutex, SchedPc, ReschedPc,
         Idle, NoFit, queueVars, waitingVars, bookVars, workerVars, threadVars,
         clientVars
<1>7. ASSUME NEW s \in Schedulers, SchedulerFit(s)  PROVE TypeInv'
  BY ZenonT(60), <1>7, BestFitType, ConstantsType
     DEF SchedulerFit, TypeOK, ThreadsHoldJobs, PassHoldsMutex, SchedPc, ReschedPc,
         Idle, NoFit, queueVars, waitingVars, bookVars, workerVars, threadVars,
         clientVars
<1>8. ASSUME NEW s \in Schedulers, SchedulerPark(s)  PROVE TypeInv'
  BY <1>8, EnqueueType
     DEF SchedulerPark, pronto_add_waiting_job, TypeOK, ThreadsHoldJobs, PassHoldsMutex,
         SchedPc, ReschedPc, Idle, NoFit, queueVars, waitingVars, bookVars, workerVars,
         threadVars, clientVars
<1>9. ASSUME NEW s \in Schedulers, SchedulerReserve(s)  PROVE TypeInv'
  BY <1>9, BookkeepingType, ConstantsType
     DEF SchedulerReserve, TypeOK, ThreadsHoldJobs, PassHoldsMutex, SchedPc, ReschedPc,
         Idle, NoFit, queueVars, waitingVars, bookVars, workerVars, threadVars,
         clientVars
<1>10. ASSUME NEW s \in Schedulers, SchedulerAddJob(s)  PROVE TypeInv'
  BY ZenonT(60), <1>10, AddJobType
     DEF SchedulerAddJob, TypeOK, ThreadsHoldJobs, PassHoldsMutex, SchedPc, ReschedPc,
         Idle, NoFit, queueVars, waitingVars, bookVars, workerVars, threadVars,
         clientVars
<1>11. ASSUME NEW s \in Schedulers, SchedulerPost(s)  PROVE TypeInv'
  BY <1>11
     DEF SchedulerPost, TypeOK, ThreadsHoldJobs, PassHoldsMutex, SchedPc, ReschedPc,
         Idle, NoFit, queueVars, waitingVars, bookVars, workerVars, threadVars,
         clientVars, SemPostWorker
<1>12. ASSUME ReschedulerWait  PROVE TypeInv'
  <2>1. reschedule' \in Nat
    BY <1>12 DEF ReschedulerWait, TypeOK, SchedPc, ReschedPc, Idle
  <2> QED
    BY <1>12, <2>1
       DEF ReschedulerWait, TypeOK, ThreadsHoldJobs, PassHoldsMutex, SchedPc, ReschedPc,
           Idle, NoFit, queueVars, waitingVars, bookVars, workerVars, threadVars,
           clientVars
<1>13. ASSUME ReschedulerLock  PROVE TypeInv'
  BY <1>13
     DEF ReschedulerLock, TypeOK, ThreadsHoldJobs, PassHoldsMutex, SchedPc, ReschedPc,
         Idle, NoFit, queueVars, waitingVars, bookVars, workerVars, threadVars,
         clientVars
<1>14. ASSUME ReschedulerCheck  PROVE TypeInv'
  <2> DEFINE b == IF waiting_queue = <<>> THEN NoFit
                  ELSE pronto_best_current_fit(Request[Head(waiting_queue)])
  <2>1. b \in Workers \cup {NoFit} /\ (b # NoFit => waiting_queue # <<>>)
    <3>1. waiting_queue # <<>> => Request[Head(waiting_queue)] \in Nat
      BY ConstantsType DEF TypeOK
    <3> QED  BY <3>1, BestFitType
  <2>2. \/ /\ b = NoFit
           /\ waiting_mutex' = FALSE /\ resched' = Idle
        \/ /\ b # NoFit
           /\ resched' = [resched EXCEPT !.pc = "reserve", !.fit = b]
           /\ waiting_mutex' = waiting_mutex
    BY <1>14 DEF ReschedulerCheck
  <2>3. resched.pc = "check"
    BY <1>14 DEF ReschedulerCheck
  <2> HIDE DEF b
  <2>4. UNCHANGED <<queueVars, waiting_queue, reschedule, bookVars, workerVars,
                    sched, worker, handler, clientVars>>
    BY <1>14 DEF ReschedulerCheck
  <2>5. CASE b = NoFit
    <3>1. waiting_mutex' = FALSE /\ resched' = Idle
      BY <2>2, <2>5
    <3> QED
      BY <2>4, <3>1
         DEF TypeOK, ThreadsHoldJobs, PassHoldsMutex, SchedPc, ReschedPc, Idle, NoFit,
             queueVars, waitingVars, bookVars, workerVars, threadVars, clientVars
  <2>6. CASE b # NoFit
    <3>1. resched' = [resched EXCEPT !.pc = "reserve", !.fit = b] /\ b \in Workers
      BY <2>1, <2>2, <2>6
    <3>2. waiting_mutex' = waiting_mutex /\ waiting_queue # <<>>
      BY <2>1, <2>2, <2>6
    <3> QED
      BY <2>3, <2>4, <3>1, <3>2
         DEF TypeOK, ThreadsHoldJobs, PassHoldsMutex, SchedPc, ReschedPc, Idle, NoFit,
             queueVars, waitingVars, bookVars, workerVars, threadVars, clientVars
  <2> QED  BY <2>5, <2>6
<1>15. ASSUME ReschedulerReserve  PROVE TypeInv'
  BY <1>15, DequeueType, BookkeepingType, ConstantsType
     DEF ReschedulerReserve, TypeOK, ThreadsHoldJobs, PassHoldsMutex, SchedPc,
         ReschedPc, Idle, NoFit, queueVars, waitingVars, bookVars, workerVars,
         threadVars, clientVars
<1>16. ASSUME ReschedulerAddJob  PROVE TypeInv'
  BY <1>16, AddJobType
     DEF ReschedulerAddJob, TypeOK, ThreadsHoldJobs, PassHoldsMutex, SchedPc, ReschedPc,
         Idle, NoFit, queueVars, waitingVars, bookVars, workerVars, threadVars,
         clientVars
<1>17. ASSUME ReschedulerPost  PROVE TypeInv'
  BY SMTT(60), <1>17
     DEF ReschedulerPost, TypeOK, ThreadsHoldJobs, PassHoldsMutex, SchedPc, ReschedPc,
         Idle, NoFit, queueVars, waitingVars, bookVars, workerVars, threadVars,
         clientVars, SemPostWorker
<1>18. ASSUME NEW w \in Workers, WorkerWait(w)  PROVE TypeInv'
  <2>1. worker_notify' \in [Workers -> Nat]
    BY <1>18 DEF WorkerWait, TypeOK
  <2>2. worker' \in [Workers -> [pc   : {"wait", "dequeue", "post"},
                                 node : Job \cup {NULL}]]
    BY ZenonT(60), <1>18 DEF WorkerWait, TypeOK
  <2> QED
    BY <1>18, <2>1, <2>2
       DEF WorkerWait, TypeOK, ThreadsHoldJobs, PassHoldsMutex, SchedPc, ReschedPc,
           Idle, NoFit, queueVars, waitingVars, bookVars, workerVars, threadVars,
           clientVars
<1>19. ASSUME NEW w \in Workers, WorkerDequeue(w)  PROVE TypeInv'
  BY <1>19, DequeueType
     DEF WorkerDequeue, TypeOK, ThreadsHoldJobs, PassHoldsMutex, SchedPc, ReschedPc,
         Idle, NoFit, queueVars, waitingVars, bookVars, workerVars, threadVars,
         clientVars
<1>20. ASSUME NEW w \in Workers, WorkerPost(w)  PROVE TypeInv'
  <2> DEFINE j == worker[w].node
  <2>1. j \in Job
    BY <1>20 DEF WorkerPost, TypeOK
  <2>2. /\ client[w] \cup {j} \in SUBSET Job
        /\ lost[w] \cup {j} \in SUBSET Job
    BY <2>1 DEF TypeOK
  <2>3. client' = client \/ client' = [client EXCEPT ![w] = client[w] \cup {j}]
    BY <1>20 DEF WorkerPost
  <2>4. lost' = lost \/ lost' = [lost EXCEPT ![w] = lost[w] \cup {j}]
    BY <1>20 DEF WorkerPost
  <2> HIDE DEF j
  <2>5. client' \in [Workers -> SUBSET Job] /\ lost' \in [Workers -> SUBSET Job]
    <3>1. client \in [Workers -> SUBSET Job] /\ lost \in [Workers -> SUBSET Job]
      BY DEF TypeOK
    <3>2. /\ [client EXCEPT ![w] = client[w] \cup {j}] \in [Workers -> SUBSET Job]
          /\ [lost EXCEPT ![w] = lost[w] \cup {j}] \in [Workers -> SUBSET Job]
      BY <2>2, <3>1, ExceptType, Zenon
    <3> QED  BY <2>3, <2>4, <3>1, <3>2, Zenon
  <2>6. worker' \in [Workers -> [pc   : {"wait", "dequeue", "post"},
                                 node : Job \cup {NULL}]]
    BY <1>20 DEF WorkerPost, TypeOK
  <2> QED
    BY <1>20, <2>5, <2>6
       DEF WorkerPost, TypeOK, ThreadsHoldJobs, PassHoldsMutex, SchedPc, ReschedPc,
           Idle, NoFit, queueVars, waitingVars, bookVars, workerVars, threadVars,
           clientVars
<1>21. ASSUME NEW w \in Workers, NEW j \in Job, ClientDoneLost(w, j)  PROVE TypeInv'
  BY <1>21
     DEF ClientDoneLost, TypeOK, ThreadsHoldJobs, PassHoldsMutex, SchedPc, ReschedPc,
         Idle, NoFit, queueVars, waitingVars, bookVars, workerVars, threadVars,
         clientVars
<1>22. CASE UNCHANGED vars
  BY <1>22 DEF TypeOK, ThreadsHoldJobs, PassHoldsMutex, SchedPc, ReschedPc, Idle, vars,
               queueVars, waitingVars, bookVars, workerVars, threadVars, clientVars
<1> QED
  BY <1>1, <1>2, <1>3, <1>4, <1>5, <1>6, <1>7, <1>8, <1>9, <1>10, <1>11, <1>12, <1>13,
     <1>14, <1>15, <1>16, <1>17, <1>18, <1>19, <1>20, <1>21, <1>22
     DEF Next, Handler, Scheduler, Rescheduler, ClusterWorker

\* The inductive invariant holds in every state.
THEOREM TypeInvariant == Spec => []TypeInv
BY TypeInit, TypeNext, PTL DEF Spec

\* Every variable keeps its type: every counter within the width of its C type,
\* every queue a queue of jobs, and no thread uses a node or a worker it has not.
THEOREM TypeCorrect == Spec => []TypeOK
<1>1. TypeInv => TypeOK
  BY DEF TypeInv
<1> QED  BY <1>1, TypeInvariant, PTL

-------------------------------------------------------------------------------
(* The waiting queue. *)

\* The job the rescheduler takes is the one it found a worker for: from the
\* check to the dequeue waiting_queue_mutex keeps the schedulers out.
THEOREM HeadStable == Spec => HeadIsStable
<1>1. TypeInv /\ [Next]_vars
        => [resched.pc = "reserve" /\ resched'.pc = "reserve"
              => waiting_queue' = waiting_queue]_vars
  <2> SUFFICES ASSUME TypeInv, Next, resched.pc = "reserve", resched'.pc = "reserve"
               PROVE  waiting_queue' = waiting_queue
    BY DEF vars, waitingVars
  <2>1. waiting_mutex
    BY DEF TypeInv, PassHoldsMutex
  <2>2. CASE Rescheduler
    BY <2>2 DEF Rescheduler, ReschedulerWait, ReschedulerLock, ReschedulerCheck,
                ReschedulerReserve, ReschedulerAddJob, ReschedulerPost, TypeInv, TypeOK
  <2>3. CASE \E s \in Schedulers : Scheduler(s)
    BY <2>1, <2>3 DEF Scheduler, SchedulerWait, SchedulerDequeue, SchedulerFit,
                      SchedulerPark, pronto_add_waiting_job, SchedulerReserve,
                      SchedulerAddJob, SchedulerPost, waitingVars
  <2>4. CASE \E h \in Handlers :
               \/ Handler(h)
               \/ \E j \in Job : schedule(h, j)
               \/ \E w \in Workers, j \in Job : job_done(h, w, j)
    BY <2>4 DEF Handler, schedule, pronto_add_job, schedule_notify, job_done,
                job_done_notify, waitingVars
  <2>5. CASE \E w \in Workers : ClusterWorker(w) \/ \E j \in Job : ClientDoneLost(w, j)
    BY <2>5 DEF ClusterWorker, WorkerWait, WorkerDequeue, WorkerPost, ClientDoneLost,
                waitingVars
  <2> QED  BY <2>2, <2>3, <2>4, <2>5 DEF Next
<1> QED  BY <1>1, TypeInvariant, PTL DEF Spec, HeadIsStable

\* Every queue of the program is in the order of its requests.
QueuesSorted ==
    /\ Sorted(job_queue) /\ Sorted(waiting_queue)
    /\ \A w \in Workers : Sorted(scheduler_jobs[w])

\* prio_queue_init leaves a sorted queue.
LEMMA EmptySorted == Sorted(<<>>)
BY DEF Sorted

\* Every step leaves a queue alone, takes its head or enqueues one job.
LEMMA SortedNext == TypeInv /\ QueuesSorted /\ [Next]_vars => QueuesSorted'
<1> SUFFICES ASSUME TypeInv, QueuesSorted, [Next]_vars  PROVE QueuesSorted'
  OBVIOUS
<1>1. job_queue' = job_queue \/ job_queue' = prio_queue_fifo_dequeue(job_queue)
        \/ \E j \in Job : job_queue' = prio_queue_enqueue(job_queue, j)
  BY DEF Next, vars, queueVars, Handler, schedule, pronto_add_job, schedule_notify,
         job_done, job_done_notify, Scheduler, SchedulerWait, SchedulerDequeue,
         SchedulerFit, SchedulerPark, pronto_add_waiting_job, SchedulerReserve,
         SchedulerAddJob, SchedulerPost, Rescheduler, ReschedulerWait, ReschedulerLock,
         ReschedulerCheck, ReschedulerReserve, ReschedulerAddJob, ReschedulerPost,
         ClusterWorker, WorkerWait, WorkerDequeue, WorkerPost, ClientDoneLost
<1>2. waiting_queue' = waiting_queue
        \/ waiting_queue' = prio_queue_fifo_dequeue(waiting_queue)
        \/ \E j \in Job : waiting_queue' = prio_queue_enqueue(waiting_queue, j)
  BY DEF Next, vars, waitingVars, Handler, schedule, pronto_add_job, schedule_notify,
         job_done, job_done_notify, Scheduler, SchedulerWait, SchedulerDequeue,
         SchedulerFit, SchedulerPark, pronto_add_waiting_job, SchedulerReserve,
         SchedulerAddJob, SchedulerPost, Rescheduler, ReschedulerWait, ReschedulerLock,
         ReschedulerCheck, ReschedulerReserve, ReschedulerAddJob, ReschedulerPost,
         ClusterWorker, WorkerWait, WorkerDequeue, WorkerPost, ClientDoneLost, TypeInv,
         ThreadsHoldJobs
<1>3. ASSUME NEW w \in Workers
      PROVE  \/ scheduler_jobs'[w] = scheduler_jobs[w]
             \/ scheduler_jobs'[w] = prio_queue_fifo_dequeue(scheduler_jobs[w])
             \/ \E j \in Job : scheduler_jobs'[w] = prio_queue_enqueue(scheduler_jobs[w], j)
  <2>1. \A v \in Workers, j \in Job : cluster_worker_add_job(v, j) =>
          scheduler_jobs'[w] \in {scheduler_jobs[w],
          prio_queue_enqueue(scheduler_jobs[w], j)}
    BY DEF cluster_worker_add_job, TypeInv, TypeOK
  <2>2. ASSUME NEW s \in Schedulers, SchedulerAddJob(s)
        PROVE  cluster_worker_add_job(sched[s].fit, sched[s].node)
                 /\ sched[s].fit \in Workers /\ sched[s].node \in Job
    BY <2>2 DEF SchedulerAddJob, TypeInv, ThreadsHoldJobs
  <2>3. ASSUME ReschedulerAddJob
        PROVE  cluster_worker_add_job(resched.fit, resched.node)
                 /\ resched.fit \in Workers /\ resched.node \in Job
    BY <2>3 DEF ReschedulerAddJob, TypeInv, ThreadsHoldJobs
  <2>4. ASSUME NEW v \in Workers, WorkerDequeue(v)
        PROVE  scheduler_jobs'[w] \in
                 {scheduler_jobs[w], prio_queue_fifo_dequeue(scheduler_jobs[w])}
    BY <2>4 DEF WorkerDequeue, TypeInv, TypeOK
  <2>5. CASE \/ \E s \in Schedulers : SchedulerAddJob(s)
             \/ ReschedulerAddJob
             \/ \E v \in Workers : WorkerDequeue(v)
    BY <2>1, <2>2, <2>3, <2>4, <2>5
  <2>6. CASE ~(\/ \E s \in Schedulers : SchedulerAddJob(s)
               \/ ReschedulerAddJob
               \/ \E v \in Workers : WorkerDequeue(v))
    BY <2>6 DEF Next, vars, workerVars, Handler, schedule, pronto_add_job,
                schedule_notify, job_done, job_done_notify, Scheduler, SchedulerWait,
                SchedulerDequeue, SchedulerFit, SchedulerPark, pronto_add_waiting_job,
                SchedulerReserve, SchedulerPost, Rescheduler, ReschedulerWait,
                ReschedulerLock, ReschedulerCheck, ReschedulerReserve, ReschedulerPost,
                ClusterWorker, WorkerWait, WorkerPost, ClientDoneLost
  <2> QED  BY <2>5, <2>6
<1>4. /\ job_queue \in Seq(Job) /\ waiting_queue \in Seq(Job)
      /\ \A w \in Workers : scheduler_jobs[w] \in Seq(Job)
  BY DEF TypeInv, TypeOK
<1>5. Sorted(job_queue')
  BY <1>1, <1>4, EnqueueKeepsSorted, DequeueKeepsSorted DEF QueuesSorted
<1>6. Sorted(waiting_queue')
  BY <1>2, <1>4, EnqueueKeepsSorted, DequeueKeepsSorted DEF QueuesSorted
<1>7. \A w \in Workers : Sorted(scheduler_jobs'[w])
  BY <1>3, <1>4, EnqueueKeepsSorted, DequeueKeepsSorted DEF QueuesSorted
<1> QED  BY <1>5, <1>6, <1>7 DEF QueuesSorted

\* Every queue is sorted at all times.
THEOREM AlwaysSorted == Spec => []QueuesSorted
<1>1. Init => QueuesSorted
  BY EmptySorted DEF Init, QueuesSorted
<1> QED  BY <1>1, SortedNext, TypeInvariant, PTL DEF Spec

-------------------------------------------------------------------------------
(* Semaphores count jobs. *)

JobTokens ==
    Len(job_queue) = notify + Cardinality(SchedulersDequeuing)
                            + Cardinality(HandlersNotifying)

WorkerTokens(w) ==
    Len(scheduler_jobs[w]) = worker_notify[w] + WorkerDequeues(w)
                             + Cardinality(PostersFor(w)) + ReschedulerPosts(w)

\* The threads counted by the tokens are finitely many.
LEMMA ThreadSetsFinite ==
    /\ IsFiniteSet(SchedulersDequeuing) /\ IsFiniteSet(HandlersNotifying)
    /\ Cardinality(SchedulersDequeuing) \in Nat /\ Cardinality(HandlersNotifying) \in Nat
    /\ \A w \in Workers : /\ IsFiniteSet(PostersFor(w))
                          /\ Cardinality(PostersFor(w)) \in Nat
<1>1. /\ SchedulersDequeuing \in SUBSET Schedulers
      /\ HandlersNotifying \in SUBSET Handlers
      /\ \A w \in Workers : PostersFor(w) \in SUBSET Schedulers
  BY DEF SchedulersDequeuing, HandlersNotifying, PostersFor
<1>2. IsFiniteSet(Schedulers) /\ IsFiniteSet(Handlers)
  BY ProntoAssumption
<1> QED  BY <1>1, <1>2, FS_Subset, FS_CardinalityType

\* The posts of the schedulers' semaphore: every action that queues or takes a
\* job, posts or waits moves one unit between the terms of JobTokens.
LEMMA JobTokensNext == TypeInv /\ JobTokens /\ [Next]_vars => JobTokens'
<1> SUFFICES ASSUME TypeInv, JobTokens, [Next]_vars  PROVE JobTokens'
  OBVIOUS
<1> DEFINE S == SchedulersDequeuing
           H == HandlersNotifying
<1>1. /\ job_queue \in Seq(Job) /\ Len(job_queue) \in Nat /\ notify \in Nat
      /\ DOMAIN sched = Schedulers /\ DOMAIN handler = Handlers
  BY DEF TypeInv, TypeOK
<1>2. /\ IsFiniteSet(S) /\ IsFiniteSet(H)
      /\ Cardinality(S) \in Nat /\ Cardinality(H) \in Nat
  BY ThreadSetsFinite
<1>3. ASSUME NEW h \in Handlers, NEW j \in Job, schedule(h, j)  PROVE JobTokens'
  <2>1. S' = S /\ notify' = notify /\ handler[h] = "idle"
    BY <1>3 DEF schedule, pronto_add_job, SchedulersDequeuing
  <2>2. CASE UNCHANGED <<job_queue, handler>>
    BY <2>1, <2>2 DEF JobTokens, HandlersNotifying
  <2>3. CASE /\ job_queue' = prio_queue_enqueue(job_queue, j)
             /\ handler' = [handler EXCEPT ![h] = "notify"]
    <3>1. H' = H \cup {h} /\ h \notin H
      BY <1>1, <2>1, <2>3 DEF HandlersNotifying
    <3>2. Cardinality(H') = Cardinality(H) + 1
      BY <1>2, <3>1, FS_AddElement
    <3>3. Len(job_queue') = Len(job_queue) + 1
      BY <1>1, <2>3, EnqueueType
    <3> QED  BY <1>1, <1>2, <2>1, <3>2, <3>3 DEF JobTokens
  <2> QED  BY <1>3, <2>2, <2>3 DEF schedule, pronto_add_job
<1>4. ASSUME NEW h \in Handlers, schedule_notify(h)  PROVE JobTokens'
  <2>1. H' = H \ {h} /\ h \in H /\ S' = S
    BY <1>1, <1>4 DEF schedule_notify, HandlersNotifying, SchedulersDequeuing
  <2>2. Cardinality(H') = Cardinality(H) - 1
    BY <1>2, <2>1, FS_RemoveElement
  <2>3. notify' = notify + 1 /\ job_queue' = job_queue
    BY <1>4 DEF schedule_notify
  <2> QED  BY <1>1, <1>2, <2>1, <2>2, <2>3 DEF JobTokens
<1>5. ASSUME NEW s \in Schedulers, SchedulerWait(s)  PROVE JobTokens'
  <2>1. S' = S \cup {s} /\ s \notin S /\ H' = H
    BY <1>1, <1>5 DEF SchedulerWait, HandlersNotifying, SchedulersDequeuing
  <2>2. Cardinality(S') = Cardinality(S) + 1
    BY <1>2, <2>1, FS_AddElement
  <2>3. notify' = notify - 1 /\ job_queue' = job_queue
    BY <1>5 DEF SchedulerWait
  <2> QED  BY <1>1, <1>2, <2>1, <2>2, <2>3 DEF JobTokens
<1>6. ASSUME NEW s \in Schedulers, SchedulerDequeue(s)  PROVE JobTokens'
  <2>1. S' = S \ {s} /\ s \in S /\ H' = H
    BY <1>1, <1>6 DEF SchedulerDequeue, HandlersNotifying, SchedulersDequeuing, Idle
  <2>2. Cardinality(S') = Cardinality(S) - 1 /\ Cardinality(S) # 0
    BY <1>2, <2>1, FS_RemoveElement, FS_EmptySet
  <2>3. job_queue # <<>>
    BY <1>1, <1>2, <2>2 DEF JobTokens
  <2>4. notify' = notify /\ Len(job_queue') = Len(job_queue) - 1
    BY <1>1, <1>6, <2>3, DequeueType DEF SchedulerDequeue
  <2> QED  BY <1>1, <1>2, <2>1, <2>2, <2>4 DEF JobTokens
<1>7. CASE UNCHANGED <<job_queue, notify, S, H>>
  BY <1>7 DEF JobTokens
<1>8. ASSUME NEW h \in Handlers,
             job_done_notify(h) \/ \E w \in Workers, j \in Job : job_done(h, w, j)
      PROVE  UNCHANGED <<job_queue, notify, S, H>>
  BY <1>1, <1>8 DEF job_done, job_done_notify, queueVars, SchedulersDequeuing,
                    HandlersNotifying
<1>9. ASSUME NEW s \in Schedulers,
             \/ SchedulerFit(s) \/ SchedulerPark(s) \/ SchedulerReserve(s)
             \/ SchedulerAddJob(s) \/ SchedulerPost(s)
      PROVE  UNCHANGED <<job_queue, notify, S, H>>
  <2>1. sched[s].pc # "dequeue" /\ sched'[s].pc # "dequeue"
    BY <1>1, <1>9 DEF SchedulerFit, SchedulerPark, pronto_add_waiting_job,
                      SchedulerReserve, SchedulerAddJob, SchedulerPost, Idle, TypeInv,
                      TypeOK
  <2>2. \A t \in Schedulers \ {s} : sched'[t] = sched[t]
    BY <1>1, <1>9 DEF SchedulerFit, SchedulerPark, pronto_add_waiting_job,
                      SchedulerReserve, SchedulerAddJob, SchedulerPost
  <2>3. UNCHANGED <<job_queue, notify, handler>>
    BY <1>9 DEF SchedulerFit, SchedulerPark, pronto_add_waiting_job, SchedulerReserve,
                SchedulerAddJob, SchedulerPost, queueVars
  <2> QED  BY <2>1, <2>2, <2>3 DEF SchedulersDequeuing, HandlersNotifying
<1>10. ASSUME \/ Rescheduler
              \/ \E w \in Workers : ClusterWorker(w) \/ \E j \in Job : ClientDoneLost(w, j)
              \/ UNCHANGED vars
       PROVE  UNCHANGED <<job_queue, notify, S, H>>
  BY <1>10 DEF Rescheduler, ReschedulerWait, ReschedulerLock, ReschedulerCheck,
               ReschedulerReserve, ReschedulerAddJob, ReschedulerPost, ClusterWorker,
               WorkerWait, WorkerDequeue, WorkerPost, ClientDoneLost, vars, queueVars,
               threadVars, SchedulersDequeuing, HandlersNotifying
<1> QED  BY <1>3, <1>4, <1>5, <1>6, <1>7, <1>8, <1>9, <1>10 DEF Next, Handler, Scheduler

\* The same for the dispatcher of worker w.  The posters are the schedulers and
\* the rescheduler.
LEMMA WorkerTokensNext ==
    ASSUME NEW w \in Workers, TypeInv, WorkerTokens(w), [Next]_vars
    PROVE  WorkerTokens(w)'
<1> DEFINE P == PostersFor(w)
           Q == scheduler_jobs[w]
<1>1. /\ Q \in Seq(Job) /\ Len(Q) \in Nat /\ worker_notify[w] \in Nat
      /\ DOMAIN sched = Schedulers /\ DOMAIN scheduler_jobs = Workers
      /\ DOMAIN worker_notify = Workers /\ DOMAIN worker = Workers
  BY DEF TypeInv, TypeOK
<1>2. /\ IsFiniteSet(P) /\ Cardinality(P) \in Nat
      /\ WorkerDequeues(w) \in Nat /\ ReschedulerPosts(w) \in Nat
  BY ThreadSetsFinite DEF WorkerDequeues, ReschedulerPosts
<1>3. ASSUME NEW s \in Schedulers, SchedulerAddJob(s)  PROVE WorkerTokens(w)'
  <2>1. /\ sched[s].fit \in Workers /\ sched[s].node \in Job
        /\ cluster_worker_add_job(sched[s].fit, sched[s].node)
        /\ worker_notify' = worker_notify
        /\ WorkerDequeues(w)' = WorkerDequeues(w)
        /\ ReschedulerPosts(w)' = ReschedulerPosts(w)
    BY <1>3 DEF SchedulerAddJob, TypeInv, ThreadsHoldJobs, WorkerDequeues,
                ReschedulerPosts
  <2>2. sched[s].pc = "add" /\ sched' = [sched EXCEPT ![s].pc = "post", ![s].node = NULL]
    BY <1>3 DEF SchedulerAddJob
  <2>3. sched'[s].pc = "post" /\ sched'[s].fit = sched[s].fit
    BY <1>1, <2>2 DEF TypeInv, TypeOK
  <2>4. \A t \in Schedulers \ {s} : sched'[t] = sched[t]
    BY <1>1, <2>2
  <2>5. CASE sched[s].fit = w
    <3>1. P' = P \cup {s} /\ s \notin P
      BY <2>2, <2>3, <2>4, <2>5 DEF PostersFor
    <3>2. Cardinality(P') = Cardinality(P) + 1
      BY <1>2, <3>1, FS_AddElement
    <3>3. Len(scheduler_jobs'[w]) = Len(Q) + 1
      BY <2>1, <2>5, AddJobType DEF TypeInv
    <3> QED  BY <1>1, <1>2, <2>1, <3>2, <3>3 DEF WorkerTokens
  <2>6. CASE sched[s].fit # w
    <3>1. P' = P
      BY <2>2, <2>3, <2>4, <2>6 DEF PostersFor
    <3>2. scheduler_jobs'[w] = Q
      BY <2>1, <2>6, AddJobType DEF TypeInv
    <3> QED  BY <2>1, <3>1, <3>2 DEF WorkerTokens
  <2> QED  BY <2>5, <2>6
<1>4. ASSUME NEW s \in Schedulers, SchedulerPost(s)  PROVE WorkerTokens(w)'
  <2>1. /\ worker_notify' = [worker_notify EXCEPT ![sched[s].fit] = @ + 1]
        /\ scheduler_jobs' = scheduler_jobs
        /\ WorkerDequeues(w)' = WorkerDequeues(w)
        /\ ReschedulerPosts(w)' = ReschedulerPosts(w)
    BY <1>4 DEF SchedulerPost, SemPostWorker, WorkerDequeues, ReschedulerPosts
  <2>2. sched[s].pc = "post" /\ sched' = [sched EXCEPT ![s] = Idle]
    BY <1>4 DEF SchedulerPost
  <2>3. sched'[s].pc # "post" /\ \A t \in Schedulers \ {s} : sched'[t] = sched[t]
    BY <1>1, <2>2 DEF Idle
  <2>4. CASE sched[s].fit = w
    <3>1. P' = P \ {s} /\ s \in P
      BY <2>2, <2>3, <2>4 DEF PostersFor
    <3>2. Cardinality(P') = Cardinality(P) - 1
      BY <1>2, <3>1, FS_RemoveElement
    <3>3. worker_notify'[w] = worker_notify[w] + 1
      BY <1>1, <2>1, <2>4
    <3> QED  BY <1>1, <1>2, <2>1, <3>2, <3>3 DEF WorkerTokens
  <2>5. CASE sched[s].fit # w
    <3>1. P' = P
      BY <2>2, <2>3, <2>5 DEF PostersFor
    <3>2. worker_notify'[w] = worker_notify[w]
      BY <1>1, <2>1, <2>5
    <3> QED  BY <2>1, <3>1, <3>2 DEF WorkerTokens
  <2> QED  BY <2>4, <2>5
<1>5. ASSUME ReschedulerAddJob  PROVE WorkerTokens(w)'
  <2>1. /\ resched.fit \in Workers /\ resched.node \in Job
        /\ cluster_worker_add_job(resched.fit, resched.node)
        /\ worker_notify' = worker_notify /\ P' = P
        /\ WorkerDequeues(w)' = WorkerDequeues(w)
    BY <1>5 DEF ReschedulerAddJob, TypeInv, ThreadsHoldJobs, WorkerDequeues, PostersFor
  <2>2. /\ resched.pc = "add" /\ resched'.pc = "post" /\ resched'.fit = resched.fit
    BY <1>5 DEF ReschedulerAddJob, TypeInv, TypeOK
  <2>3. /\ ReschedulerPosts(w) = 0
        /\ ReschedulerPosts(w)' = IF resched.fit = w THEN 1 ELSE 0
    BY <2>2 DEF ReschedulerPosts
  <2>4. Len(scheduler_jobs'[w]) = IF resched.fit = w THEN Len(Q) + 1 ELSE Len(Q)
    BY <2>1, AddJobType DEF TypeInv
  <2> QED  BY <1>1, <1>2, <2>1, <2>3, <2>4 DEF WorkerTokens
<1>6. ASSUME ReschedulerPost  PROVE WorkerTokens(w)'
  <2>1. /\ worker_notify' = [worker_notify EXCEPT ![resched.fit] = @ + 1]
        /\ scheduler_jobs' = scheduler_jobs /\ P' = P
        /\ WorkerDequeues(w)' = WorkerDequeues(w)
    BY <1>6 DEF ReschedulerPost, SemPostWorker, WorkerDequeues, PostersFor
  <2>2. resched.pc = "post" /\ resched'.pc = "check"
    BY <1>6 DEF ReschedulerPost, Idle
  <2>3. /\ ReschedulerPosts(w) = IF resched.fit = w THEN 1 ELSE 0
        /\ ReschedulerPosts(w)' = 0
    BY <2>2 DEF ReschedulerPosts
  <2>4. worker_notify'[w] = IF resched.fit = w THEN worker_notify[w] + 1
                            ELSE worker_notify[w]
    BY <1>1, <2>1
  <2> QED  BY <1>1, <1>2, <2>1, <2>3, <2>4 DEF WorkerTokens
<1>7. ASSUME NEW v \in Workers, WorkerWait(v)  PROVE WorkerTokens(w)'
  <2>1. /\ scheduler_jobs' = scheduler_jobs /\ P' = P
        /\ ReschedulerPosts(w)' = ReschedulerPosts(w)
    BY <1>7 DEF WorkerWait, PostersFor, ReschedulerPosts
  <2>2. worker_notify'[w] = IF v = w THEN worker_notify[w] - 1 ELSE worker_notify[w]
    BY <1>1, <1>7 DEF WorkerWait
  <2>3. /\ v = w => WorkerDequeues(w) = 0 /\ WorkerDequeues(w)' = 1
        /\ v # w => WorkerDequeues(w)' = WorkerDequeues(w)
    BY <1>1, <1>7 DEF WorkerWait, WorkerDequeues, TypeInv, TypeOK
  <2> QED  BY <1>1, <1>2, <2>1, <2>2, <2>3 DEF WorkerTokens
<1>8. ASSUME NEW v \in Workers, WorkerDequeue(v)  PROVE WorkerTokens(w)'
  <2>1. /\ worker_notify' = worker_notify /\ P' = P
        /\ ReschedulerPosts(w)' = ReschedulerPosts(w)
    BY <1>8 DEF WorkerDequeue, PostersFor, ReschedulerPosts
  <2>2. /\ v = w => WorkerDequeues(w) = 1 /\ WorkerDequeues(w)' = 0
        /\ v # w => WorkerDequeues(w)' = WorkerDequeues(w)
    BY <1>1, <1>8 DEF WorkerDequeue, WorkerDequeues
  <2>3. v = w => Q # <<>>
    BY <1>1, <1>2, <2>2 DEF WorkerTokens
  <2>4. Len(scheduler_jobs'[w]) = IF v = w THEN Len(Q) - 1 ELSE Len(Q)
    BY <1>1, <1>8, <2>3, DequeueType DEF WorkerDequeue
  <2> QED  BY <1>1, <1>2, <2>1, <2>2, <2>4 DEF WorkerTokens
<1>9. CASE UNCHANGED <<scheduler_jobs, worker_notify, P, WorkerDequeues(w),
                       ReschedulerPosts(w)>>
  BY <1>9 DEF WorkerTokens
<1>10. ASSUME \/ \E h \in Handlers :
                   \/ Handler(h)
                   \/ \E j \in Job : schedule(h, j)
                   \/ \E v \in Workers, j \in Job : job_done(h, v, j)
              \/ \E v \in Workers, j \in Job : ClientDoneLost(v, j)
              \/ UNCHANGED vars
       PROVE  UNCHANGED <<scheduler_jobs, worker_notify, P, WorkerDequeues(w),
                          ReschedulerPosts(w)>>
  BY <1>10 DEF Handler, schedule, pronto_add_job, schedule_notify, job_done,
               job_done_notify, ClientDoneLost, vars, workerVars, threadVars,
               PostersFor, WorkerDequeues, ReschedulerPosts
<1>11. ASSUME NEW s \in Schedulers,
              \/ SchedulerWait(s) \/ SchedulerDequeue(s) \/ SchedulerFit(s)
              \/ SchedulerPark(s) \/ SchedulerReserve(s)
       PROVE  UNCHANGED <<scheduler_jobs, worker_notify, P, WorkerDequeues(w),
                          ReschedulerPosts(w)>>
  <2>1. sched[s].pc # "post" /\ sched'[s].pc # "post"
    BY SMTT(60), <1>1, <1>11 DEF SchedulerWait, SchedulerDequeue, SchedulerFit, SchedulerPark,
                       pronto_add_waiting_job, SchedulerReserve, Idle, TypeInv, TypeOK
  <2>2. \A t \in Schedulers \ {s} : sched'[t] = sched[t]
    BY <1>1, <1>11 DEF SchedulerWait, SchedulerDequeue, SchedulerFit, SchedulerPark,
                       pronto_add_waiting_job, SchedulerReserve
  <2>3. UNCHANGED <<scheduler_jobs, worker_notify, worker, resched>>
    BY <1>11 DEF SchedulerWait, SchedulerDequeue, SchedulerFit, SchedulerPark,
                 pronto_add_waiting_job, SchedulerReserve, workerVars
  <2> QED  BY <2>1, <2>2, <2>3 DEF PostersFor, WorkerDequeues, ReschedulerPosts
<1>12. ASSUME \/ ReschedulerWait \/ ReschedulerLock \/ ReschedulerCheck \/ ReschedulerReserve
       PROVE  UNCHANGED <<scheduler_jobs, worker_notify, P, WorkerDequeues(w),
                          ReschedulerPosts(w)>>
  <2>1. resched.pc # "post" /\ resched'.pc # "post"
    <3>1. resched \in [pc : ReschedPc, node : Job \cup {NULL}, fit : Workers \cup {NoFit}]
      BY DEF TypeInv, TypeOK
    <3>2. CASE ReschedulerWait \/ ReschedulerLock
      BY <3>1, <3>2 DEF ReschedulerWait, ReschedulerLock
    <3>3. CASE ReschedulerCheck
      <4>1. resched.pc = "check"
        BY <3>3 DEF ReschedulerCheck
      <4> DEFINE b == IF waiting_queue = <<>> THEN NoFit
                      ELSE pronto_best_current_fit(Request[Head(waiting_queue)])
      <4>2. resched' = Idle \/ resched' = [resched EXCEPT !.pc = "reserve", !.fit = b]
        BY <3>3 DEF ReschedulerCheck
      <4> HIDE DEF b
      <4>3. CASE resched' = Idle
        BY <4>1, <4>3 DEF Idle
      <4>4. CASE resched' = [resched EXCEPT !.pc = "reserve", !.fit = b]
        BY <3>1, <4>1, <4>4
      <4> QED  BY <4>2, <4>3, <4>4
    <3>4. CASE ReschedulerReserve
      BY <3>1, <3>4 DEF ReschedulerReserve
    <3> QED  BY <1>12, <3>2, <3>3, <3>4
  <2> QED
    BY <1>12, <2>1 DEF ReschedulerWait, ReschedulerLock, ReschedulerCheck,
                       ReschedulerReserve, workerVars, PostersFor, WorkerDequeues,
                       ReschedulerPosts
<1>13. ASSUME NEW v \in Workers, WorkerPost(v)
       PROVE  UNCHANGED <<scheduler_jobs, worker_notify, P, WorkerDequeues(w),
                          ReschedulerPosts(w)>>
  BY <1>1, <1>13 DEF WorkerPost, workerVars, PostersFor, WorkerDequeues, ReschedulerPosts
<1> QED
  BY <1>3, <1>4, <1>5, <1>6, <1>7, <1>8, <1>9, <1>10, <1>11, <1>12, <1>13
     DEF Next, Scheduler, Rescheduler, ClusterWorker

\* Every post of a semaphore stands for one queued job, for the schedulers and
\* for every dispatcher.
THEOREM TokensMatch == Spec => []TokensMatchJobs
<1>1. TokensMatchJobs <=> JobTokens /\ \A w \in Workers : WorkerTokens(w)
  BY DEF TokensMatchJobs, JobTokens, WorkerTokens
<1>2. Init => TokensMatchJobs
  <2> SUFFICES ASSUME Init  PROVE TokensMatchJobs
    OBVIOUS
  <2>1. /\ SchedulersDequeuing = {} /\ HandlersNotifying = {}
        /\ \A w \in Workers : /\ PostersFor(w) = {}
                              /\ WorkerDequeues(w) = 0 /\ ReschedulerPosts(w) = 0
    BY DEF Init, Idle, SchedulersDequeuing, HandlersNotifying, PostersFor,
           WorkerDequeues, ReschedulerPosts
  <2>2. /\ Len(job_queue) = 0 /\ notify = 0
        /\ \A w \in Workers : Len(scheduler_jobs[w]) = 0 /\ worker_notify[w] = 0
    BY DEF Init
  <2> QED  BY <2>1, <2>2, FS_EmptySet DEF TokensMatchJobs
<1>3. TypeInv /\ TokensMatchJobs /\ [Next]_vars => TokensMatchJobs'
  <2> SUFFICES ASSUME TypeInv, TokensMatchJobs, [Next]_vars  PROVE TokensMatchJobs'
    OBVIOUS
  <2>1. JobTokens'
    BY <1>1, JobTokensNext
  <2>2. \A w \in Workers : WorkerTokens(w)'
    BY <1>1, WorkerTokensNext
  <2> QED  BY <2>1, <2>2 DEF TokensMatchJobs, JobTokens, WorkerTokens
<1> QED  BY <1>2, <1>3, TypeInvariant, PTL DEF Spec

\* A scheduler that was notified finds a job.
THEOREM SchedulersFindJobs == Spec => []SchedulerFindsJob
<1>1. TypeInv /\ TokensMatchJobs => SchedulerFindsJob
  <2> SUFFICES ASSUME TypeInv, TokensMatchJobs,
                      NEW s \in Schedulers, sched[s].pc = "dequeue"
               PROVE  job_queue # <<>>
    BY DEF SchedulerFindsJob
  <2>1. s \in SchedulersDequeuing
    BY DEF SchedulersDequeuing
  <2>2. Cardinality(SchedulersDequeuing) # 0
    BY <2>1, ThreadSetsFinite, FS_EmptySet
  <2>3. notify \in Nat /\ job_queue \in Seq(Job)
    BY DEF TypeInv, TypeOK
  <2> QED  BY <2>2, <2>3, ThreadSetsFinite DEF TokensMatchJobs
<1> QED  BY <1>1, TypeInvariant, TokensMatch, PTL

\* A dispatcher about to POST has a job.
DispatcherHasJob == \A w \in Workers : worker[w].pc = "post" => worker[w].node # NULL

\* A dispatcher never reads the request of a NULL node.
THEOREM WorkersFindJobs == Spec => []WorkerFindsJob
<1>1. TypeInv /\ TokensMatchJobs => \A w \in Workers :
        worker[w].pc = "dequeue" => scheduler_jobs[w] # <<>>
  <2> SUFFICES ASSUME TypeInv, TokensMatchJobs,
                      NEW w \in Workers, worker[w].pc = "dequeue"
               PROVE  scheduler_jobs[w] # <<>>
    OBVIOUS
  <2>1. WorkerDequeues(w) = 1 /\ ReschedulerPosts(w) \in Nat /\ worker_notify[w] \in Nat
    BY DEF WorkerDequeues, ReschedulerPosts, TypeInv, TypeOK
  <2>2. Len(scheduler_jobs[w]) = worker_notify[w] + WorkerDequeues(w)
                                 + Cardinality(PostersFor(w)) + ReschedulerPosts(w)
    BY DEF TokensMatchJobs
  <2>3. Cardinality(PostersFor(w)) \in Nat
    BY ThreadSetsFinite
  <2> QED  BY <2>1, <2>2, <2>3
<1>2. Init => DispatcherHasJob
  BY DEF Init, DispatcherHasJob
<1>3. TypeInv /\ TokensMatchJobs /\ DispatcherHasJob /\ [Next]_vars => DispatcherHasJob'
  <2> SUFFICES ASSUME TypeInv, TokensMatchJobs, DispatcherHasJob, [Next]_vars,
                      NEW w \in Workers, worker'[w].pc = "post"
               PROVE  worker'[w].node # NULL
    BY DEF DispatcherHasJob
  <2>1. DOMAIN worker = Workers
    BY DEF TypeInv, TypeOK
  <2>2. CASE worker' = worker
    BY <2>2 DEF DispatcherHasJob
  <2>3. CASE \E v \in Workers : WorkerWait(v) \/ WorkerPost(v)
    <3>1. worker'[w] = worker[w]
      BY <2>1, <2>3 DEF WorkerWait, WorkerPost, TypeInv, TypeOK
    <3> QED  BY <3>1 DEF DispatcherHasJob
  <2>4. ASSUME NEW v \in Workers, WorkerDequeue(v)  PROVE worker'[w].node # NULL
    <3>1. CASE v # w
      <4>1. worker'[w] = worker[w]
        BY <2>1, <2>4, <3>1 DEF WorkerDequeue
      <4> QED  BY <4>1 DEF DispatcherHasJob
    <3>2. CASE v = w
      <4>1. scheduler_jobs[w] \in Seq(Job) /\ scheduler_jobs[w] # <<>>
        BY <1>1, <2>4, <3>2 DEF WorkerDequeue, TypeInv, TypeOK
      <4>2. worker'[w].node = Head(scheduler_jobs[w])
        BY <2>1, <2>4, <3>2, <4>1 DEF WorkerDequeue
      <4> QED  BY <4>1, <4>2, ProntoAssumption
    <3> QED  BY <3>1, <3>2
  <2>5. \/ worker' = worker
        \/ \E v \in Workers : WorkerWait(v) \/ WorkerPost(v) \/ WorkerDequeue(v)
    BY DEF Next, vars, threadVars, Handler, schedule, pronto_add_job, schedule_notify,
           job_done, job_done_notify, Scheduler, SchedulerWait, SchedulerDequeue,
           SchedulerFit, SchedulerPark, pronto_add_waiting_job, SchedulerReserve,
           SchedulerAddJob, SchedulerPost, Rescheduler, ReschedulerWait,
           ReschedulerLock, ReschedulerCheck, ReschedulerReserve, ReschedulerAddJob,
           ReschedulerPost, ClusterWorker, ClientDoneLost
  <2> QED  BY <2>2, <2>3, <2>4, <2>5
<1>4. TypeInv /\ TokensMatchJobs /\ DispatcherHasJob => WorkerFindsJob
  BY <1>1 DEF DispatcherHasJob, WorkerFindsJob
<1> QED  BY <1>2, <1>3, <1>4, TypeInvariant, TokensMatch, PTL DEF Spec

-------------------------------------------------------------------------------
(* Accepted jobs. *)

\* The int that a request word reads as is schedulable only if the word is at
\* most the size of a worker: a word beyond the ints reads as a negative int,
\* and that as an unsigned long not below the word.
LEMMA SchedulableFits ==
    ASSUME NEW j \in Job, pronto_is_schedulable(SInt(Request[j]))
    PROVE  Request[j] <= MAX_RESOURCES
<1> DEFINE r == Request[j]
<1>1. r \in 0..(UINT_MOD - 1) /\ UINT_MOD \in Nat /\ ULONG_MOD \in Nat /\ MAX_RESOURCES \in Nat
  BY ProntoAssumption
<1>2. MAX_RESOURCES >= ULong(SInt(r))
  BY DEF pronto_is_schedulable
<1>3. \A m \in Nat \ {0} : \A x \in 0..(m - 1) : x % m = x
  OBVIOUS
<1>4. \A m \in Nat \ {0}, x \in Int : x < 0 /\ -m <= x => x % m = x + m
  OBVIOUS
<1> HIDE DEF r
<1>5. UInt(r) = r
  BY <1>1, <1>3, ConstantsType DEF UInt
<1>6. CASE r < UINT_MOD \div 2
  <2>1. SInt(r) = r
    BY <1>5, <1>6 DEF SInt
  <2>2. r \in 0..(ULONG_MOD - 1)
    BY <1>1, CapacityFits
  <2>3. ULong(SInt(r)) = r
    BY <1>3, <2>1, <2>2, ConstantsType DEF ULong
  <2> QED  BY <1>2, <2>3 DEF r
<1>7. CASE ~(r < UINT_MOD \div 2)
  <2>1. SInt(r) = r - UINT_MOD
    BY <1>1, <1>5, <1>7 DEF SInt
  <2>2. SInt(r) \in Int /\ SInt(r) < 0 /\ -ULONG_MOD <= SInt(r)
    BY <1>1, <2>1, CapacityFits, ConstantsType
  <2>3. ULong(SInt(r)) = SInt(r) + ULONG_MOD
    BY <1>4, <2>2, ConstantsType DEF ULong
  <2>4. r <= ULong(SInt(r))
    BY <1>1, <2>1, <2>3, CapacityFits
  <2> QED  BY <1>1, <1>2, <2>1, <2>3, <2>4 DEF r
<1> QED  BY <1>6, <1>7

\* No job is accepted that no worker could ever run.
THEOREM AcceptedJobsFit == Spec => []AcceptedFits
<1>1. Init => AcceptedFits
  BY DEF Init, AcceptedFits
<1>2. TypeInv /\ AcceptedFits /\ [Next]_vars => AcceptedFits'
  <2> SUFFICES ASSUME TypeInv, AcceptedFits, [Next]_vars,
                      NEW j \in Job, outcome'[j] = "accepted"
               PROVE  Request[j] <= MAX_RESOURCES
    BY DEF AcceptedFits
  <2>1. CASE outcome'[j] = outcome[j]
    BY <2>1 DEF AcceptedFits
  <2>2. CASE outcome'[j] # outcome[j]
    <3>1. ASSUME NEW h \in Handlers, Handler(h)  PROVE FALSE
      BY <2>2, <3>1 DEF Handler, schedule_notify, job_done_notify, clientVars
    <3>2. ASSUME NEW s \in Schedulers, Scheduler(s)  PROVE FALSE
      BY <2>2, <3>2 DEF Scheduler, SchedulerWait, SchedulerDequeue, SchedulerFit, SchedulerPark,
                  SchedulerReserve, SchedulerAddJob, SchedulerPost, clientVars
    <3>3. ASSUME Rescheduler  PROVE FALSE
      BY <2>2, <3>3 DEF Rescheduler, ReschedulerWait, ReschedulerLock, ReschedulerCheck,
                  ReschedulerReserve, ReschedulerAddJob, ReschedulerPost, clientVars
    <3>4. ASSUME NEW w \in Workers, ClusterWorker(w)  PROVE FALSE
      BY <2>2, <3>4 DEF ClusterWorker, WorkerWait, WorkerDequeue, WorkerPost, clientVars
    <3>5. ASSUME NEW w \in Workers, NEW i \in Job, ClientDoneLost(w, i)  PROVE FALSE
      BY <2>2, <3>5 DEF ClientDoneLost
    <3>6. ASSUME UNCHANGED vars  PROVE FALSE
      BY <2>2, <3>6 DEF vars, clientVars
    <3>7. outcome \in [Job -> {"unsent", "rejected", "accepted", "freed"}]
      BY DEF TypeInv, TypeOK
    <3>8. ASSUME NEW h \in Handlers, NEW w \in Workers, NEW i \in Job, job_done(h, w, i)
          PROVE FALSE
      <4>1. outcome' = [outcome EXCEPT ![i] = "freed"]
        BY <3>8 DEF job_done
      <4> QED  BY <2>2, <3>7, <4>1
    <3>9. ASSUME NEW h \in Handlers, NEW i \in Job, schedule(h, i)
          PROVE  pronto_is_schedulable(SInt(Request[j]))
      <4>1. \/ outcome' = [outcome EXCEPT ![i] = "rejected"]
            \/ outcome' = [outcome EXCEPT ![i] = "accepted"]
               /\ pronto_is_schedulable(SInt(Request[i]))
        BY <3>9 DEF schedule
      <4> QED  BY <2>2, <3>7, <4>1
    <3>10. pronto_is_schedulable(SInt(Request[j]))
      BY <3>1, <3>2, <3>3, <3>4, <3>5, <3>6, <3>8, <3>9, Zenon DEF Next
    <3> QED  BY <3>10, SchedulableFits
  <2> QED  BY <2>1, <2>2
<1> QED  BY <1>1, <1>2, TypeInvariant, PTL DEF Spec

-------------------------------------------------------------------------------
(* Queues without repetitions. *)

NoRepeats(q) == \A i, k \in 1..Len(q) : q[i] = q[k] => i = k

\* Enqueueing a job that is not queued yet adds it, once.
LEMMA EnqueueHolds ==
    ASSUME NEW q \in Seq(Job), NEW el \in Job
    PROVE  /\ ToSet(prio_queue_enqueue(q, el)) = ToSet(q) \cup {el}
           /\ NoRepeats(q) /\ el \notin ToSet(q) => NoRepeats(prio_queue_enqueue(q, el))
<1>1. PICK pos \in 1..(Len(q) + 1) : prio_queue_enqueue(q, el) = InsertAt(q, pos, el)
  BY EnqueuePosition
<1> DEFINE r == InsertAt(q, pos, el)
<1>2. /\ r \in Seq(Job) /\ Len(r) = Len(q) + 1
      /\ \A i \in 1..(Len(q) + 1) :
           r[i] = IF i < pos THEN q[i] ELSE IF i = pos THEN el ELSE q[i - 1]
  BY ZenonT(60), InsertAtShape
<1> HIDE DEF r
<1>3. /\ ToSet(q) = {q[i] : i \in 1..Len(q)}
      /\ ToSet(r) = {r[i] : i \in 1..(Len(q) + 1)}
  BY <1>2 DEF ToSet
<1>4. ToSet(r) \subseteq ToSet(q) \cup {el}
  <2> SUFFICES ASSUME NEW i \in 1..(Len(q) + 1)  PROVE r[i] \in ToSet(q) \cup {el}
    BY <1>3
  <2>1. i < pos => i \in 1..Len(q)
    OBVIOUS
  <2>2. i > pos => i - 1 \in 1..Len(q)
    OBVIOUS
  <2> QED  BY <1>2, <1>3, <2>1, <2>2
<1>5. ToSet(q) \cup {el} \subseteq ToSet(r)
  <2>1. r[pos] = el
    BY <1>2
  <2>2. ASSUME NEW i \in 1..Len(q)  PROVE q[i] \in ToSet(r)
    <3>1. CASE i < pos
      <4>1. i \in 1..(Len(q) + 1) /\ r[i] = q[i]
        BY <1>2, <3>1
      <4> QED  BY <1>3, <4>1
    <3>2. CASE i >= pos
      <4>1. i + 1 \in 1..(Len(q) + 1) /\ r[i + 1] = q[i]
        BY <1>2, <3>2
      <4> QED  BY <1>3, <4>1
    <3> QED  BY <3>1, <3>2
  <2> QED  BY <1>3, <2>1, <2>2
<1>6. ASSUME NoRepeats(q), el \notin ToSet(q)  PROVE NoRepeats(r)
  <2> DEFINE old(i) == IF i < pos THEN i ELSE i - 1
  <2>1. ASSUME NEW i \in 1..(Len(q) + 1), i # pos
        PROVE  old(i) \in 1..Len(q) /\ r[i] = q[old(i)] /\ r[i] # el
    <3>1. old(i) \in 1..Len(q) /\ r[i] = q[old(i)]
      BY <1>2, <2>1
    <3> QED  BY <1>3, <1>6, <3>1
  <2>2. \A i, k \in 1..(Len(q) + 1) \ {pos} : old(i) = old(k) => i = k
    OBVIOUS
  <2>3. r[pos] = el
    BY <1>2
  <2> HIDE DEF old
  <2> SUFFICES ASSUME NEW i \in 1..(Len(q) + 1), NEW k \in 1..(Len(q) + 1), r[i] = r[k]
               PROVE  i = k
    BY <1>2 DEF NoRepeats
  <2> QED  BY SMTT(60), <1>6, <2>1, <2>2, <2>3 DEF NoRepeats
<1> QED  BY <1>1, <1>4, <1>5, <1>6 DEF r

\* Dequeueing takes the head, and the head only.
LEMMA DequeueHolds ==
    ASSUME NEW q \in Seq(Job), q # <<>>, NoRepeats(q)
    PROVE  /\ Head(q) \in ToSet(q)
           /\ ToSet(prio_queue_fifo_dequeue(q)) = ToSet(q) \ {Head(q)}
           /\ NoRepeats(prio_queue_fifo_dequeue(q))
<1>1. /\ Tail(q) \in Seq(Job) /\ Len(Tail(q)) = Len(q) - 1
      /\ \A i \in 1..(Len(q) - 1) : Tail(q)[i] = q[i + 1]
      /\ Head(q) = q[1] /\ 1 \in 1..Len(q)
  OBVIOUS
<1>2. /\ ToSet(q) = {q[i] : i \in 1..Len(q)}
      /\ ToSet(Tail(q)) = {Tail(q)[i] : i \in 1..(Len(q) - 1)}
  <2>1. DOMAIN q = 1..Len(q) /\ DOMAIN Tail(q) = 1..(Len(q) - 1)
    BY <1>1
  <2> QED  BY <2>1 DEF ToSet
<1>3. ToSet(Tail(q)) \subseteq ToSet(q) \ {Head(q)}
  <2> SUFFICES ASSUME NEW i \in 1..(Len(q) - 1)
               PROVE  Tail(q)[i] \in ToSet(q) /\ Tail(q)[i] # q[1]
    BY <1>1, <1>2
  <2>1. i + 1 \in 1..Len(q) /\ i + 1 # 1
    OBVIOUS
  <2> QED  BY <1>1, <1>2, <2>1 DEF NoRepeats
<1>4. ASSUME NEW i \in 1..Len(q), q[i] # q[1]  PROVE q[i] \in ToSet(Tail(q))
  <2>1. i - 1 \in 1..(Len(q) - 1) /\ Tail(q)[i - 1] = q[i]
    BY <1>1, <1>4
  <2> QED  BY <1>2, <2>1
<1>5. NoRepeats(Tail(q))
  <2> SUFFICES ASSUME NEW i \in 1..(Len(q) - 1), NEW k \in 1..(Len(q) - 1),
                      Tail(q)[i] = Tail(q)[k]
               PROVE  i = k
    BY <1>1 DEF NoRepeats
  <2>1. i + 1 \in 1..Len(q) /\ k + 1 \in 1..Len(q) /\ q[i + 1] = q[k + 1]
    BY <1>1
  <2>2. i + 1 = k + 1
    BY <2>1 DEF NoRepeats
  <2> QED  BY <2>2
<1> QED  BY <1>1, <1>2, <1>3, <1>4, <1>5 DEF prio_queue_fifo_dequeue
-------------------------------------------------------------------------------
(* Places. *)

\* Where the program can hold a job: three places of which there is one, a
\* scheduler, and four places that every worker has.
Place == ({"job_queue", "waiting_queue", "rescheduler"} \X {0})
         \cup ({"scheduler"} \X Schedulers)
         \cup ({"scheduler_jobs", "worker", "client", "lost"} \X Workers)

\* The jobs a place holds.
Held(p) ==
    CASE p[1] = "job_queue"      -> ToSet(job_queue)
      [] p[1] = "waiting_queue"  -> ToSet(waiting_queue)
      [] p[1] = "rescheduler"    -> {resched.node} \ {NULL}
      [] p[1] = "scheduler"      -> {sched[p[2]].node} \ {NULL}
      [] p[1] = "scheduler_jobs" -> ToSet(scheduler_jobs[p[2]])
      [] p[1] = "worker"         -> {worker[p[2]].node} \ {NULL}
      [] p[1] = "client"         -> client[p[2]]
      [] p[1] = "lost"           -> lost[p[2]]

\* The induction needs more than "one place": a queue must not hold a job twice,
\* a thread that is about to take a job must have put the last one down, and
\* what is nowhere must be no accepted job.
QueuesHoldOnce ==
    /\ NoRepeats(job_queue) /\ NoRepeats(waiting_queue)
    /\ \A w \in Workers : NoRepeats(scheduler_jobs[w])
HandsAreEmpty ==
    /\ \A s \in Schedulers :
         sched[s].pc \in {"wait", "dequeue", "post"} => sched[s].node = NULL
    /\ resched.pc # "add" => resched.node = NULL
    /\ \A w \in Workers : worker[w].pc # "post" => worker[w].node = NULL
PlacesAreDisjoint ==
    \A p, q \in Place : \A j \in Job : j \in Held(p) /\ j \in Held(q) => p = q
HeldIfAccepted ==
    \A j \in Job : outcome[j] = "accepted" <=> \E p \in Place : j \in Held(p)
JobInv == QueuesHoldOnce /\ HandsAreEmpty /\ PlacesAreDisjoint /\ HeldIfAccepted

\* The kinds of steps: every place keeps its jobs; a job is taken in at a place,
\* moves from one to another, or leaves.
Keeps(P) == \A p \in P : Held(p)' = Held(p)
Stays     == Keeps(Place) /\ outcome' = outcome
Enters(j, a) ==
    /\ outcome[j] = "unsent" /\ outcome' = [outcome EXCEPT ![j] = "accepted"]
    /\ Held(a)' = Held(a) \cup {j} /\ Keeps(Place \ {a})
Moves(j, a, b) ==
    /\ a # b /\ j \in Held(a) /\ outcome' = outcome
    /\ Held(a)' = Held(a) \ {j} /\ Held(b)' = Held(b) \cup {j} /\ Keeps(Place \ {a, b})
Leaves(j, a) ==
    /\ j \in Held(a) /\ outcome' = [outcome EXCEPT ![j] = "freed"]
    /\ Held(a)' = Held(a) \ {j} /\ Keeps(Place \ {a})
NeverEnters(j) ==
    /\ outcome[j] = "unsent" /\ outcome' = [outcome EXCEPT ![j] = "rejected"]
    /\ Keeps(Place)

Outcomes == {"unsent", "rejected", "accepted", "freed"}

\* Each of them keeps jobs apart and accepted jobs held.
LEMMA KindsKeepPlaces ==
    ASSUME PlacesAreDisjoint, HeldIfAccepted, outcome \in [Job -> Outcomes],
           \/ Stays
           \/ \E j \in Job : NeverEnters(j)
           \/ \E j \in Job, a \in Place : Enters(j, a) \/ Leaves(j, a)
           \/ \E j \in Job, a, b \in Place : Moves(j, a, b)
    PROVE  PlacesAreDisjoint' /\ HeldIfAccepted'
<1>1. CASE Stays \/ \E j \in Job : NeverEnters(j)
  BY <1>1 DEF Stays, NeverEnters, Keeps, PlacesAreDisjoint, HeldIfAccepted
<1>2. ASSUME NEW j \in Job, NEW a \in Place, Enters(j, a)
      PROVE  PlacesAreDisjoint' /\ HeldIfAccepted'
  <2>1. \A p \in Place : j \notin Held(p)
    BY <1>2 DEF Enters, HeldIfAccepted
  <2>2. \A p \in Place, i \in Job : i \in Held(p)' <=> i \in Held(p) \/ (i = j /\ p = a)
    BY <1>2 DEF Enters, Keeps
  <2>3. \A i \in Job : outcome'[i] = "accepted" <=> outcome[i] = "accepted" \/ i = j
    BY <1>2 DEF Enters
  <2>4. PlacesAreDisjoint'
    BY <2>1, <2>2 DEF PlacesAreDisjoint
  <2>5. HeldIfAccepted'
    BY <2>2, <2>3 DEF HeldIfAccepted
  <2> QED  BY <2>4, <2>5
<1>3. ASSUME NEW j \in Job, NEW a \in Place, Leaves(j, a)
      PROVE  PlacesAreDisjoint' /\ HeldIfAccepted'
  <2>1. \A p \in Place, i \in Job : i \in Held(p)' <=> i \in Held(p) /\ ~(i = j /\ p = a)
    BY <1>3 DEF Leaves, Keeps
  <2>2. \A p \in Place : j \in Held(p) => p = a
    BY <1>3 DEF Leaves, PlacesAreDisjoint
  <2>3. \A i \in Job : outcome'[i] = "accepted" <=> outcome[i] = "accepted" /\ i # j
    BY <1>3 DEF Leaves
  <2>4. PlacesAreDisjoint'
    BY <2>1 DEF PlacesAreDisjoint
  <2>5. HeldIfAccepted'
    BY <2>1, <2>2, <2>3 DEF HeldIfAccepted
  <2> QED  BY <2>4, <2>5
<1>4. ASSUME NEW j \in Job, NEW a \in Place, NEW b \in Place, Moves(j, a, b)
      PROVE  PlacesAreDisjoint' /\ HeldIfAccepted'
  <2>1. \A p \in Place, i \in Job :
          i \in Held(p)' <=> IF i = j THEN p = b \/ (p # a /\ i \in Held(p))
                             ELSE i \in Held(p)
    BY <1>4 DEF Moves, Keeps
  <2>2. \A p \in Place : j \in Held(p) => p = a
    BY <1>4 DEF Moves, PlacesAreDisjoint
  <2>3. \A p \in Place, i \in Job :
          i \in Held(p)' <=> IF i = j THEN p = b ELSE i \in Held(p)
    BY <2>1, <2>2
  <2>4. PlacesAreDisjoint'
    BY <2>3 DEF PlacesAreDisjoint
  <2>5. outcome' = outcome /\ j \in Held(a)
    BY <1>4 DEF Moves
  <2>6. HeldIfAccepted'
    BY <2>3, <2>5 DEF HeldIfAccepted
  <2> QED  BY <2>4, <2>6
<1> QED  BY <1>1, <1>2, <1>3, <1>4

\* What the places hold, one by one.
LEMMA HeldAt ==
    /\ Held(<<"job_queue", 0>>) = ToSet(job_queue)
    /\ Held(<<"waiting_queue", 0>>) = ToSet(waiting_queue)
    /\ Held(<<"rescheduler", 0>>) = {resched.node} \ {NULL}
    /\ \A s \in Schedulers : Held(<<"scheduler", s>>) = {sched[s].node} \ {NULL}
    /\ \A w \in Workers :
         /\ Held(<<"scheduler_jobs", w>>) = ToSet(scheduler_jobs[w])
         /\ Held(<<"worker", w>>) = {worker[w].node} \ {NULL}
         /\ Held(<<"client", w>>) = client[w]
         /\ Held(<<"lost", w>>) = lost[w]
BY DEF Held

\* They are places.
LEMMA PlacesExist ==
    /\ {<<"job_queue", 0>>, <<"waiting_queue", 0>>, <<"rescheduler", 0>>} \subseteq Place
    /\ \A s \in Schedulers : <<"scheduler", s>> \in Place
    /\ \A w \in Workers : {<<"scheduler_jobs", w>>, <<"worker", w>>, <<"client", w>>,
                            <<"lost", w>>} \subseteq Place
BY DEF Place

\* There are no other places.
LEMMA PlaceCases ==
    ASSUME NEW p \in Place
    PROVE  \/ p = <<"job_queue", 0>> \/ p = <<"waiting_queue", 0>>
           \/ p = <<"rescheduler", 0>>
           \/ \E s \in Schedulers : p = <<"scheduler", s>>
           \/ \E w \in Workers : p \in {<<"scheduler_jobs", w>>, <<"worker", w>>,
                                        <<"client", w>>, <<"lost", w>>}
BY DEF Place

\* The places of a set keep their jobs when what they are made of does not change.
LEMMA KeepsPlaces ==
    ASSUME NEW P \in SUBSET Place,
           <<"job_queue", 0>> \in P => job_queue' = job_queue,
           <<"waiting_queue", 0>> \in P => waiting_queue' = waiting_queue,
           <<"rescheduler", 0>> \in P => resched'.node = resched.node,
           \A s \in Schedulers : <<"scheduler", s>> \in P => sched'[s].node = sched[s].node,
           \A w \in Workers :
             /\ <<"scheduler_jobs", w>> \in P => scheduler_jobs'[w] = scheduler_jobs[w]
             /\ <<"worker", w>> \in P => worker'[w].node = worker[w].node
             /\ <<"client", w>> \in P => client'[w] = client[w]
             /\ <<"lost", w>> \in P => lost'[w] = lost[w]
    PROVE  Keeps(P)
<1> SUFFICES ASSUME NEW p \in P  PROVE Held(p)' = Held(p)
  BY DEF Keeps
<1>1. p \in Place
  OBVIOUS
<1>2. CASE p \in {<<"job_queue", 0>>, <<"waiting_queue", 0>>, <<"rescheduler", 0>>}
  <2>1. CASE p = <<"job_queue", 0>>
    BY <2>1 DEF Held
  <2>2. CASE p = <<"waiting_queue", 0>>
    BY <2>2 DEF Held
  <2>3. CASE p = <<"rescheduler", 0>>
    BY <2>3 DEF Held
  <2> QED  BY <1>2, <2>1, <2>2, <2>3
<1>3. CASE \E s \in Schedulers : p = <<"scheduler", s>>
  BY <1>3 DEF Held
<1>4. CASE \E w \in Workers : p \in {<<"scheduler_jobs", w>>, <<"worker", w>>,
                                     <<"client", w>>, <<"lost", w>>}
  <2>1. PICK w \in Workers : p \in {<<"scheduler_jobs", w>>, <<"worker", w>>,
                                    <<"client", w>>, <<"lost", w>>}
    BY <1>4
  <2>2. CASE p = <<"scheduler_jobs", w>>
    BY <2>2 DEF Held
  <2>3. CASE p = <<"worker", w>>
    BY <2>3 DEF Held
  <2>4. CASE p = <<"client", w>>
    BY <2>4 DEF Held
  <2>5. CASE p = <<"lost", w>>
    BY <2>5 DEF Held
  <2> QED  BY <2>1, <2>2, <2>3, <2>4, <2>5
<1> QED  BY <1>1, <1>2, <1>3, <1>4, PlaceCases

-------------------------------------------------------------------------------
(* Every step is of one of these kinds. *)

\* Where a job may go from where: who hands it over, and in which state.
Hop(a, b) ==
    \/ \E s \in Schedulers :
         \/ a = <<"job_queue", 0>> /\ b = <<"scheduler", s>> /\ sched'[s].pc = "fit"
         \/ a = <<"scheduler", s>> /\ b = <<"waiting_queue", 0>> /\ sched[s].pc = "park"
    \/ \E s \in Schedulers, w \in Workers :
         /\ a = <<"scheduler", s>> /\ b = <<"scheduler_jobs", w>>
         /\ sched[s].pc = "add" /\ sched[s].fit = w
    \/ /\ a = <<"waiting_queue", 0>> /\ b = <<"rescheduler", 0>>
       /\ resched'.pc = "add" /\ resched'.fit \in Workers
    \/ \E w \in Workers :
         \/ a = <<"rescheduler", 0>> /\ b = <<"scheduler_jobs", w>> /\ resched.fit = w
         \/ a = <<"scheduler_jobs", w>> /\ b = <<"worker", w>>
         \/ a = <<"worker", w>> /\ b = <<"client", w>>
         \/ a = <<"worker", w>> /\ b = <<"lost", w>> /\ PostMayFail
         \/ a = <<"client", w>> /\ b = <<"lost", w>> /\ DoneMayFail

Kinds ==
    \/ Stays
    \/ \E j \in Job : NeverEnters(j) \/ Enters(j, <<"job_queue", 0>>)
    \/ \E j \in Job, w \in Workers : Leaves(j, <<"client", w>>)
    \/ \E j \in Job, a, b \in Place : Hop(a, b) /\ Moves(j, a, b)

\* A step that leaves every queue and node alone, and every machine.
LEMMA QuietStep ==
    ASSUME UNCHANGED <<job_queue, waiting_queue, scheduler_jobs, clientVars>>,
           resched'.node = resched.node,
           \A s \in Schedulers : sched'[s].node = sched[s].node,
           \A w \in Workers : worker'[w].node = worker[w].node,
           QueuesHoldOnce
    PROVE  Stays /\ QueuesHoldOnce'
<1>1. Keeps(Place)
  BY KeepsPlaces DEF clientVars
<1> QED  BY <1>1 DEF Stays, QueuesHoldOnce, clientVars

\* The callbacks: a request that is accepted enters the job queue, a completion
\* takes the job from the machine.
LEMMA CallbackKinds ==
    ASSUME TypeInv, JobInv, NEW h \in Handlers,
           \/ Handler(h)
           \/ \E j \in Job : schedule(h, j)
           \/ \E w \in Workers, j \in Job : job_done(h, w, j)
    PROVE  Kinds /\ QueuesHoldOnce'
<1> USE DEF JobInv
<1>1. CASE Handler(h)
  <2>1. Stays /\ QueuesHoldOnce'
    BY <1>1, QuietStep DEF Handler, schedule_notify, job_done_notify, queueVars,
       waitingVars, workerVars
  <2> QED  BY <2>1 DEF Kinds
<1>2. ASSUME NEW j \in Job, schedule(h, j)  PROVE Kinds /\ QueuesHoldOnce'
  <2> DEFINE a == <<"job_queue", 0>>
  <2>1. /\ UNCHANGED <<waiting_queue, scheduler_jobs, sched, resched, worker, client, lost>>
        /\ outcome[j] = "unsent" /\ outcome \in [Job -> Outcomes]
        /\ a \in Place /\ Keeps(Place \ {a})
    <3>1. /\ UNCHANGED <<waiting_queue, scheduler_jobs, sched, resched, worker, client, lost>>
          /\ outcome[j] = "unsent"
      BY <1>2 DEF schedule, waitingVars, workerVars
    <3>2. outcome \in [Job -> Outcomes] /\ a \in Place
      BY PlacesExist DEF TypeInv, TypeOK, Outcomes
    <3> QED  BY <3>1, <3>2, KeepsPlaces
  <2>2. CASE outcome' = [outcome EXCEPT ![j] = "rejected"] /\ job_queue' = job_queue
    <3>1. Keeps(Place)
      BY <2>1, <2>2, KeepsPlaces
    <3>2. NeverEnters(j)
      BY <2>1, <2>2, <3>1 DEF NeverEnters
    <3>3. QueuesHoldOnce'
      BY <2>1, <2>2 DEF QueuesHoldOnce
    <3> QED  BY <3>2, <3>3 DEF Kinds
  <2>3. CASE outcome' = [outcome EXCEPT ![j] = "accepted"] /\ pronto_add_job(j)
    <3>1. job_queue \in Seq(Job)
      BY DEF TypeInv, TypeOK
    <3>2. j \notin ToSet(job_queue)
      BY <2>1, HeldAt DEF HeldIfAccepted
    <3>3. ToSet(job_queue)' = ToSet(job_queue) \cup {j} /\ NoRepeats(job_queue)'
      BY <2>3, <3>1, <3>2, EnqueueHolds DEF pronto_add_job, QueuesHoldOnce
    <3>4. Held(a)' = Held(a) \cup {j}
      BY <3>3 DEF Held
    <3>5. Enters(j, a)
      BY <2>1, <2>3, <3>4 DEF Enters
    <3>6. QueuesHoldOnce'
      BY <2>1, <3>3 DEF QueuesHoldOnce
    <3> QED  BY <2>1, <3>5, <3>6 DEF Kinds
  <2> QED  BY <1>2, <2>2, <2>3 DEF schedule
<1>3. ASSUME NEW w \in Workers, NEW j \in Job, job_done(h, w, j)
      PROVE  Kinds /\ QueuesHoldOnce'
  <2> DEFINE a == <<"client", w>>
  <2>1. /\ UNCHANGED <<job_queue, waiting_queue, scheduler_jobs, sched, resched,
                       worker, lost>>
        /\ j \in client[w] /\ client' = [client EXCEPT ![w] = client[w] \ {j}]
        /\ outcome' = [outcome EXCEPT ![j] = "freed"]
    BY <1>3 DEF job_done, queueVars, waitingVars, workerVars
  <2>2. /\ outcome \in [Job -> Outcomes] /\ client \in [Workers -> SUBSET Job]
        /\ a \in Place
    BY PlacesExist DEF TypeInv, TypeOK, Outcomes
  <2>3. Keeps(Place \ {a})
    BY <2>1, <2>2, KeepsPlaces
  <2>4. Held(a)' = Held(a) \ {j} /\ j \in Held(a)
    BY <2>1, <2>2 DEF Held
  <2>5. Leaves(j, a)
    BY <2>1, <2>2, <2>3, <2>4 DEF Leaves
  <2>6. QueuesHoldOnce'
    BY <2>1 DEF QueuesHoldOnce
  <2> QED  BY <2>2, <2>5, <2>6 DEF Kinds
<1> QED  BY <1>1, <1>2, <1>3

\* A scheduler takes the head of the job queue and puts it down in the waiting
\* queue or with a worker.
LEMMA SchedulerKinds ==
    ASSUME TypeInv, JobInv, NEW s \in Schedulers, Scheduler(s)
    PROVE  Kinds /\ QueuesHoldOnce'
<1> USE DEF JobInv
<1> DEFINE here == <<"scheduler", s>>
<1>1. /\ here \in Place /\ NULL \notin Job
      /\ sched \in [Schedulers -> [pc   : SchedPc,
                                   node : Job \cup {NULL},
                                   fit  : Workers \cup {NoFit}]]
      /\ job_queue \in Seq(Job) /\ waiting_queue \in Seq(Job)
      /\ scheduler_jobs \in [Workers -> Seq(Job)]
  BY ProntoAssumption, PlacesExist DEF TypeInv, TypeOK
<1>2. CASE SchedulerWait(s) \/ SchedulerFit(s) \/ SchedulerReserve(s) \/ SchedulerPost(s)
  <2>1. SchedulerWait(s) \/ SchedulerReserve(s)
          => \A t \in Schedulers : sched'[t].node = sched[t].node
    <3>1. SchedulerWait(s) => \A t \in Schedulers : sched'[t].node = sched[t].node
      BY <1>1 DEF SchedulerWait
    <3>2. SchedulerReserve(s) => \A t \in Schedulers : sched'[t].node = sched[t].node
      BY <1>1 DEF SchedulerReserve
    <3> QED  BY <3>1, <3>2
  <2>2. SchedulerPost(s) => \A t \in Schedulers : sched'[t].node = sched[t].node
    BY <1>1 DEF SchedulerPost, HandsAreEmpty, Idle
  <2>3. SchedulerFit(s) => \A t \in Schedulers : sched'[t].node = sched[t].node
    BY <1>1 DEF SchedulerFit
  <2>4. \A t \in Schedulers : sched'[t].node = sched[t].node
    BY <1>2, <2>1, <2>2, <2>3
  <2>5. UNCHANGED <<job_queue, waiting_queue, scheduler_jobs, clientVars, resched, worker>>
    BY <1>2 DEF SchedulerWait, SchedulerFit, SchedulerReserve, SchedulerPost, queueVars,
                waitingVars, workerVars
  <2>6. Stays /\ QueuesHoldOnce'
    BY <2>4, <2>5, QuietStep
  <2> QED  BY <2>6 DEF Kinds
<1>3. CASE SchedulerDequeue(s) /\ job_queue = <<>>
  <2>1. UNCHANGED <<job_queue, waiting_queue, scheduler_jobs, clientVars, resched, worker>>
    BY <1>3 DEF SchedulerDequeue, prio_queue_fifo_dequeue, waitingVars, workerVars
  <2>2. \A t \in Schedulers : sched'[t].node = sched[t].node
    BY <1>1, <1>3 DEF SchedulerDequeue, HandsAreEmpty, Idle
  <2>3. Stays /\ QueuesHoldOnce'
    BY <2>1, <2>2, QuietStep
  <2> QED  BY <2>3 DEF Kinds
<1>4. CASE SchedulerDequeue(s) /\ job_queue # <<>>
  <2> DEFINE j == Head(job_queue)
             a == <<"job_queue", 0>>
  <2>1. /\ UNCHANGED <<waiting_queue, scheduler_jobs, resched, worker, client, lost, outcome>>
        /\ job_queue' = prio_queue_fifo_dequeue(job_queue)
        /\ sched[s].node = NULL /\ sched'[s].node = j
        /\ \A t \in Schedulers \ {s} : sched'[t] = sched[t]
    BY <1>1, <1>4 DEF SchedulerDequeue, HandsAreEmpty, waitingVars, workerVars, clientVars
  <2>2. /\ j \in Job /\ j \in ToSet(job_queue)
        /\ ToSet(job_queue)' = ToSet(job_queue) \ {j} /\ NoRepeats(job_queue)'
    BY <1>1, <1>4, <2>1, DequeueHolds DEF QueuesHoldOnce
  <2> HIDE DEF j
  <2>3. Keeps(Place \ {a, here})
    BY <2>1, KeepsPlaces
  <2>4. j \in Held(a) /\ Held(a)' = Held(a) \ {j} /\ Held(here)' = Held(here) \cup {j}
    BY <1>1, <2>1, <2>2 DEF Held
  <2>5. Moves(j, a, here) /\ a \in Place
    BY <2>1, <2>3, <2>4, PlacesExist DEF Moves
  <2>6. QueuesHoldOnce'
    BY <2>1, <2>2 DEF QueuesHoldOnce
  <2>7. Hop(a, here)
    BY <1>1, <1>4 DEF SchedulerDequeue, Hop
  <2> QED  BY <1>1, <2>2, <2>5, <2>6, <2>7 DEF Kinds
<1>5. CASE SchedulerPark(s)
  <2> DEFINE j == sched[s].node
             b == <<"waiting_queue", 0>>
  <2>1. /\ UNCHANGED <<job_queue, scheduler_jobs, resched, worker, client, lost, outcome>>
        /\ waiting_queue' = prio_queue_enqueue(waiting_queue, j)
        /\ j \in Job /\ sched'[s].node = NULL
        /\ \A t \in Schedulers \ {s} : sched'[t] = sched[t]
    BY <1>1, <1>5 DEF SchedulerPark, pronto_add_waiting_job, Idle, TypeInv, ThreadsHoldJobs,
                      queueVars, workerVars, clientVars
  <2>2. j \in Held(here)
    BY <1>1, <2>1, HeldAt
  <2> HIDE DEF j
  <2>3. j \notin ToSet(waiting_queue)
    <3>1. b \in Place /\ b # here /\ Held(b) = ToSet(waiting_queue)
      BY HeldAt, PlacesExist
    <3> QED  BY <1>1, <2>1, <2>2, <3>1 DEF PlacesAreDisjoint
  <2>4. ToSet(waiting_queue)' = ToSet(waiting_queue) \cup {j} /\ NoRepeats(waiting_queue)'
    BY <1>1, <2>1, <2>3, EnqueueHolds DEF QueuesHoldOnce
  <2>5. Keeps(Place \ {here, b})
    BY <2>1, KeepsPlaces
  <2>6. Held(here)' = Held(here) \ {j} /\ Held(b)' = Held(b) \cup {j}
    BY <1>1, <2>1, <2>4 DEF Held, j
  <2>7. Moves(j, here, b) /\ b \in Place
    BY <2>1, <2>2, <2>5, <2>6, PlacesExist DEF Moves
  <2>8. QueuesHoldOnce'
    BY <2>1, <2>4 DEF QueuesHoldOnce
  <2>9. Hop(here, b)
    BY <1>5 DEF SchedulerPark, Hop
  <2> QED  BY <1>1, <2>1, <2>7, <2>8, <2>9 DEF Kinds
<1>6. CASE SchedulerAddJob(s)
  <2>0. PICK w \in Workers : w = sched[s].fit
    BY <1>6 DEF SchedulerAddJob, TypeInv, ThreadsHoldJobs
  <2> DEFINE j == sched[s].node
             b == <<"scheduler_jobs", w>>
  <2>1. /\ UNCHANGED <<job_queue, waiting_queue, resched, worker, client, lost, outcome>>
        /\ scheduler_jobs' = [scheduler_jobs EXCEPT ![w] =
                                prio_queue_enqueue(scheduler_jobs[w], j)]
        /\ j \in Job /\ sched'[s].node = NULL
        /\ \A t \in Schedulers \ {s} : sched'[t] = sched[t]
    BY <1>1, <1>6, <2>0 DEF SchedulerAddJob, cluster_worker_add_job, TypeInv, ThreadsHoldJobs,
                      queueVars, waitingVars, clientVars
  <2>2. j \in Held(here)
    BY <1>1, <2>1, HeldAt
  <2> HIDE DEF j
  <2>3. j \notin ToSet(scheduler_jobs[w])
    <3>1. b \in Place /\ b # here /\ Held(b) = ToSet(scheduler_jobs[w])
      BY <2>1, HeldAt, PlacesExist
    <3> QED  BY <1>1, <2>1, <2>2, <3>1 DEF PlacesAreDisjoint
  <2>4. /\ ToSet(scheduler_jobs[w])' = ToSet(scheduler_jobs[w]) \cup {j}
        /\ NoRepeats(scheduler_jobs'[w])
        /\ \A v \in Workers \ {w} : scheduler_jobs'[v] = scheduler_jobs[v]
    <3>1. scheduler_jobs[w] \in Seq(Job) /\ NoRepeats(scheduler_jobs[w])
      BY <1>1, <2>1 DEF QueuesHoldOnce
    <3>2. scheduler_jobs'[w] = prio_queue_enqueue(scheduler_jobs[w], j)
      BY <1>1, <2>1
    <3> QED  BY <1>1, <2>1, <2>3, <3>1, <3>2, EnqueueHolds
  <2>5. Keeps(Place \ {here, b})
    BY <2>1, <2>4, KeepsPlaces
  <2>6. Held(here)' = Held(here) \ {j} /\ Held(b)' = Held(b) \cup {j}
    BY <1>1, <2>1, <2>4 DEF Held, j
  <2>7. Moves(j, here, b) /\ b \in Place
    BY <2>1, <2>2, <2>5, <2>6, PlacesExist DEF Moves
  <2>8. QueuesHoldOnce'
    BY <2>1, <2>4 DEF QueuesHoldOnce
  <2>9. Hop(here, b)
    BY <1>6, <2>0 DEF SchedulerAddJob, Hop
  <2> QED  BY <1>1, <2>1, <2>7, <2>8, <2>9 DEF Kinds
<1> QED  BY <1>2, <1>3, <1>4, <1>5, <1>6 DEF Scheduler

\* The rescheduler takes the head of the waiting queue and puts it down with a worker.
LEMMA ReschedulerKinds ==
    ASSUME TypeInv, JobInv, Rescheduler
    PROVE  Kinds /\ QueuesHoldOnce'
<1> USE DEF JobInv
<1> DEFINE here == <<"rescheduler", 0>>
<1>1. /\ here \in Place /\ NULL \notin Job
      /\ waiting_queue \in Seq(Job) /\ scheduler_jobs \in [Workers -> Seq(Job)]
      /\ resched \in [pc : ReschedPc, node : Job \cup {NULL}, fit : Workers \cup {NoFit}]
  BY ProntoAssumption, PlacesExist DEF TypeInv, TypeOK
<1>2. CASE ReschedulerWait \/ ReschedulerLock \/ ReschedulerCheck \/ ReschedulerPost
  <2>1. resched'.node = resched.node
    <3>1. CASE ReschedulerWait \/ ReschedulerLock
      BY <1>1, <3>1 DEF ReschedulerWait, ReschedulerLock
    <3>2. CASE ReschedulerCheck
      <4>1. resched.pc = "check" /\ resched.node = NULL
        BY <3>2 DEF ReschedulerCheck, HandsAreEmpty
      <4> DEFINE b == IF waiting_queue = <<>> THEN NoFit
                      ELSE pronto_best_current_fit(Request[Head(waiting_queue)])
      <4>2. resched' \in {Idle, [resched EXCEPT !.pc = "reserve", !.fit = b]}
        BY <3>2 DEF ReschedulerCheck
      <4> HIDE DEF b
      <4>3. [resched EXCEPT !.pc = "reserve", !.fit = b].node = resched.node
        BY <1>1
      <4>4. Idle.node = NULL
        BY DEF Idle
      <4> QED  BY <4>1, <4>2, <4>3, <4>4
    <3>3. CASE ReschedulerPost
      BY <1>1, <3>3 DEF ReschedulerPost, HandsAreEmpty, Idle
    <3> QED  BY <1>2, <3>1, <3>2, <3>3
  <2>2. UNCHANGED <<job_queue, waiting_queue, scheduler_jobs, clientVars, sched, worker>>
    BY <1>2 DEF ReschedulerWait, ReschedulerLock, ReschedulerCheck, ReschedulerPost,
                queueVars, waitingVars, workerVars
  <2>3. Stays /\ QueuesHoldOnce'
    BY <2>1, <2>2, QuietStep
  <2> QED  BY <2>3 DEF Kinds
<1>3. CASE ReschedulerReserve
  <2> DEFINE j == Head(waiting_queue)
             a == <<"waiting_queue", 0>>
  <2>1. /\ UNCHANGED <<job_queue, scheduler_jobs, sched, worker, client, lost, outcome>>
        /\ waiting_queue' = prio_queue_fifo_dequeue(waiting_queue)
        /\ waiting_queue # <<>>
        /\ resched.node = NULL /\ resched'.node = j
    BY <1>1, <1>3 DEF ReschedulerReserve, HandsAreEmpty, TypeInv, ThreadsHoldJobs,
                      queueVars, workerVars, clientVars
  <2>2. /\ j \in Job /\ j \in ToSet(waiting_queue)
        /\ ToSet(waiting_queue)' = ToSet(waiting_queue) \ {j} /\ NoRepeats(waiting_queue)'
    BY <1>1, <2>1, DequeueHolds DEF QueuesHoldOnce
  <2> HIDE DEF j
  <2>3. Keeps(Place \ {a, here})
    BY <2>1, KeepsPlaces
  <2>4. j \in Held(a) /\ Held(a)' = Held(a) \ {j} /\ Held(here)' = Held(here) \cup {j}
    BY <1>1, <2>1, <2>2 DEF Held
  <2>5. Moves(j, a, here) /\ a \in Place
    BY <2>1, <2>3, <2>4, PlacesExist DEF Moves
  <2>6. QueuesHoldOnce'
    BY <2>1, <2>2 DEF QueuesHoldOnce
  <2>7. Hop(a, here)
    <3>1. resched'.pc = "add" /\ resched'.fit \in Workers
      BY <1>1, <1>3 DEF ReschedulerReserve, TypeInv, ThreadsHoldJobs
    <3> QED  BY <3>1 DEF Hop
  <2> QED  BY <1>1, <2>2, <2>5, <2>6, <2>7 DEF Kinds
<1>4. CASE ReschedulerAddJob
  <2>0. PICK w \in Workers : w = resched.fit
    BY <1>4 DEF ReschedulerAddJob, TypeInv, ThreadsHoldJobs
  <2> DEFINE j == resched.node
             b == <<"scheduler_jobs", w>>
  <2>1. /\ UNCHANGED <<job_queue, waiting_queue, sched, worker, client, lost, outcome>>
        /\ scheduler_jobs' = [scheduler_jobs EXCEPT ![w] =
                                prio_queue_enqueue(scheduler_jobs[w], j)]
        /\ j \in Job /\ resched'.node = NULL
    BY <1>1, <1>4, <2>0 DEF ReschedulerAddJob, cluster_worker_add_job, TypeInv,
                            ThreadsHoldJobs, queueVars, waitingVars, clientVars
  <2>2. j \in Held(here)
    BY <1>1, <2>1, HeldAt
  <2> HIDE DEF j
  <2>3. j \notin ToSet(scheduler_jobs[w])
    <3>1. b \in Place /\ b # here /\ Held(b) = ToSet(scheduler_jobs[w])
      BY HeldAt, PlacesExist
    <3> QED  BY <1>1, <2>1, <2>2, <3>1 DEF PlacesAreDisjoint
  <2>4. /\ ToSet(scheduler_jobs[w])' = ToSet(scheduler_jobs[w]) \cup {j}
        /\ NoRepeats(scheduler_jobs'[w])
        /\ \A v \in Workers \ {w} : scheduler_jobs'[v] = scheduler_jobs[v]
    <3>1. scheduler_jobs[w] \in Seq(Job) /\ NoRepeats(scheduler_jobs[w])
      BY <1>1 DEF QueuesHoldOnce
    <3>2. scheduler_jobs'[w] = prio_queue_enqueue(scheduler_jobs[w], j)
      BY <1>1, <2>1
    <3> QED  BY <1>1, <2>1, <2>3, <3>1, <3>2, EnqueueHolds
  <2>5. Keeps(Place \ {here, b})
    BY <2>1, <2>4, KeepsPlaces
  <2>6. Held(here)' = Held(here) \ {j} /\ Held(b)' = Held(b) \cup {j}
    BY <1>1, <2>1, <2>4 DEF Held, j
  <2>7. Moves(j, here, b) /\ b \in Place
    BY <2>1, <2>2, <2>5, <2>6, PlacesExist DEF Moves
  <2>8. QueuesHoldOnce'
    BY <2>1, <2>4 DEF QueuesHoldOnce
  <2>9. Hop(here, b)
    BY <2>0 DEF Hop
  <2> QED  BY <1>1, <2>1, <2>7, <2>8, <2>9 DEF Kinds
<1> QED  BY <1>2, <1>3, <1>4 DEF Rescheduler

\* A dispatcher takes the head of its queue and hands it to the machine, or loses it.
LEMMA WorkerKinds ==
    ASSUME TypeInv, JobInv, NEW w \in Workers, ClusterWorker(w)
    PROVE  Kinds /\ QueuesHoldOnce'
<1> USE DEF JobInv
<1> DEFINE here == <<"worker", w>>
<1>1. /\ here \in Place /\ NULL \notin Job
      /\ worker \in [Workers -> [pc   : {"wait", "dequeue", "post"},
                                 node : Job \cup {NULL}]]
      /\ scheduler_jobs \in [Workers -> Seq(Job)]
      /\ client \in [Workers -> SUBSET Job] /\ lost \in [Workers -> SUBSET Job]
  BY ProntoAssumption, PlacesExist DEF TypeInv, TypeOK
<1>2. CASE WorkerWait(w)
  <2>1. \A v \in Workers : worker'[v].node = worker[v].node
    BY <1>1, <1>2 DEF WorkerWait
  <2>2. UNCHANGED <<job_queue, waiting_queue, scheduler_jobs, clientVars, sched, resched>>
    BY <1>2 DEF WorkerWait, queueVars, waitingVars
  <2>3. Stays /\ QueuesHoldOnce'
    BY <2>1, <2>2, QuietStep
  <2> QED  BY <2>3 DEF Kinds
<1>3. CASE WorkerDequeue(w) /\ scheduler_jobs[w] = <<>>
  <2>1. scheduler_jobs' = scheduler_jobs
    BY <1>1, <1>3 DEF WorkerDequeue, prio_queue_fifo_dequeue
  <2>2. \A v \in Workers : worker'[v].node = worker[v].node
    BY <1>1, <1>3 DEF WorkerDequeue, HandsAreEmpty
  <2>3. UNCHANGED <<job_queue, waiting_queue, clientVars, sched, resched>>
    BY <1>3 DEF WorkerDequeue, queueVars, waitingVars
  <2>4. Stays /\ QueuesHoldOnce'
    BY <2>1, <2>2, <2>3, QuietStep
  <2> QED  BY <2>4 DEF Kinds
<1>4. CASE WorkerDequeue(w) /\ scheduler_jobs[w] # <<>>
  <2> DEFINE j == Head(scheduler_jobs[w])
             a == <<"scheduler_jobs", w>>
  <2>1. /\ UNCHANGED <<job_queue, waiting_queue, sched, resched, client, lost, outcome>>
        /\ scheduler_jobs'[w] = prio_queue_fifo_dequeue(scheduler_jobs[w])
        /\ \A v \in Workers \ {w} : /\ scheduler_jobs'[v] = scheduler_jobs[v]
                                    /\ worker'[v] = worker[v]
        /\ worker[w].node = NULL /\ worker'[w].node = j
    BY <1>1, <1>4 DEF WorkerDequeue, HandsAreEmpty, queueVars, waitingVars, clientVars
  <2>2. /\ j \in Job /\ j \in ToSet(scheduler_jobs[w])
        /\ ToSet(scheduler_jobs[w])' = ToSet(scheduler_jobs[w]) \ {j}
        /\ NoRepeats(scheduler_jobs'[w])
    BY <1>1, <1>4, <2>1, DequeueHolds DEF QueuesHoldOnce
  <2> HIDE DEF j
  <2>3. Keeps(Place \ {a, here})
    BY <2>1, KeepsPlaces
  <2>4. j \in Held(a) /\ Held(a)' = Held(a) \ {j} /\ Held(here)' = Held(here) \cup {j}
    BY <1>1, <2>1, <2>2 DEF Held
  <2>5. Moves(j, a, here) /\ a \in Place
    BY <2>1, <2>3, <2>4, PlacesExist DEF Moves
  <2>6. QueuesHoldOnce'
    BY <2>1, <2>2 DEF QueuesHoldOnce
  <2>7. Hop(a, here)
    BY DEF Hop
  <2> QED  BY <1>1, <2>2, <2>5, <2>6, <2>7 DEF Kinds
<1>5. CASE WorkerPost(w)
  <2> DEFINE j == worker[w].node
             machine == <<"client", w>>
             nowhere == <<"lost", w>>
  <2>1. /\ UNCHANGED <<job_queue, waiting_queue, scheduler_jobs, sched, resched, outcome>>
        /\ j \in Job /\ worker'[w].node = NULL
        /\ \A v \in Workers \ {w} : worker'[v] = worker[v]
    <3>1. UNCHANGED <<job_queue, waiting_queue, scheduler_jobs, sched, resched, outcome>>
      BY <1>5 DEF WorkerPost, queueVars, waitingVars, workerVars
    <3>2. j # NULL /\ worker' = [worker EXCEPT ![w] = [pc |-> "wait", node |-> NULL]]
      BY <1>5 DEF WorkerPost
    <3> QED  BY <1>1, <3>1, <3>2
  <2>2. j \in Held(here) /\ machine \in Place /\ nowhere \in Place
    <3>1. Held(here) = {j} \ {NULL}
      BY HeldAt
    <3> QED  BY <1>1, <2>1, <3>1, PlacesExist
  <2>3. Held(here)' = Held(here) \ {j}
    BY <1>1, <2>1 DEF Held
  <2>4. QueuesHoldOnce'
    BY <2>1 DEF QueuesHoldOnce
  <2>5. \/ client' = [client EXCEPT ![w] = client[w] \cup {j}] /\ lost' = lost
        \/ /\ lost' = [lost EXCEPT ![w] = lost[w] \cup {j}] /\ client' = client
           /\ PostMayFail
    BY <1>5 DEF WorkerPost
  <2> HIDE DEF j
  <2>6. CASE client' = [client EXCEPT ![w] = client[w] \cup {j}] /\ lost' = lost
    <3>1. Keeps(Place \ {here, machine})
      BY <1>1, <2>1, <2>6, KeepsPlaces
    <3>2. Held(machine)' = Held(machine) \cup {j}
      BY <1>1, <2>6 DEF Held
    <3>3. Moves(j, here, machine)
      BY <2>1, <2>2, <2>3, <3>1, <3>2 DEF Moves
    <3>4. Hop(here, machine)
      BY DEF Hop
    <3> QED  BY <1>1, <2>1, <2>2, <2>4, <3>3, <3>4 DEF Kinds
  <2>7. CASE /\ lost' = [lost EXCEPT ![w] = lost[w] \cup {j}] /\ client' = client
             /\ PostMayFail
    <3>1. Keeps(Place \ {here, nowhere})
      BY <1>1, <2>1, <2>7, KeepsPlaces
    <3>2. Held(nowhere)' = Held(nowhere) \cup {j}
      BY <1>1, <2>7 DEF Held
    <3>3. Moves(j, here, nowhere)
      BY <2>1, <2>2, <2>3, <3>1, <3>2 DEF Moves
    <3>4. Hop(here, nowhere)
      BY <2>7 DEF Hop
    <3> QED  BY <1>1, <2>1, <2>2, <2>4, <3>3, <3>4 DEF Kinds
  <2> QED  BY <2>5, <2>6, <2>7
<1> QED  BY <1>2, <1>3, <1>4, <1>5 DEF ClusterWorker

\* A completion gets lost.
LEMMA ClientKinds ==
    ASSUME TypeInv, JobInv, NEW w \in Workers, NEW j \in Job, ClientDoneLost(w, j)
    PROVE  Kinds /\ QueuesHoldOnce'
<1> DEFINE a == <<"client", w>>
           b == <<"lost", w>>
<1>1. /\ UNCHANGED <<job_queue, waiting_queue, scheduler_jobs, sched, resched, worker,
                     outcome>>
      /\ j \in client[w]
      /\ client' = [client EXCEPT ![w] = client[w] \ {j}]
      /\ lost' = [lost EXCEPT ![w] = lost[w] \cup {j}]
  BY DEF ClientDoneLost, queueVars, waitingVars, workerVars, threadVars
<1>2. /\ client \in [Workers -> SUBSET Job] /\ lost \in [Workers -> SUBSET Job]
      /\ a \in Place /\ b \in Place
  BY PlacesExist DEF TypeInv, TypeOK
<1>3. Keeps(Place \ {a, b})
  BY <1>1, <1>2, KeepsPlaces
<1>4. j \in Held(a) /\ Held(a)' = Held(a) \ {j} /\ Held(b)' = Held(b) \cup {j}
  BY <1>1, <1>2 DEF Held
<1>5. Moves(j, a, b)
  BY <1>1, <1>3, <1>4 DEF Moves
<1>6. QueuesHoldOnce'
  BY <1>1 DEF JobInv, QueuesHoldOnce
<1>7. Hop(a, b)
  BY DEF ClientDoneLost, Hop
<1> QED  BY <1>2, <1>5, <1>6, <1>7 DEF Kinds

\* A thread that is to take a job has put the last one down.
LEMMA HandsNext == TypeInv /\ HandsAreEmpty /\ [Next]_vars => HandsAreEmpty'
<1> SUFFICES ASSUME TypeInv, HandsAreEmpty, [Next]_vars  PROVE HandsAreEmpty'
  OBVIOUS
<1>1. /\ sched \in [Schedulers -> [pc   : SchedPc,
                                   node : Job \cup {NULL},
                                   fit  : Workers \cup {NoFit}]]
      /\ resched \in [pc : ReschedPc, node : Job \cup {NULL}, fit : Workers \cup {NoFit}]
      /\ worker \in [Workers -> [pc   : {"wait", "dequeue", "post"},
                                 node : Job \cup {NULL}]]
  BY DEF TypeInv, TypeOK
<1>2. CASE UNCHANGED <<sched, resched, worker>>
  BY <1>2 DEF HandsAreEmpty
<1>3. ASSUME NEW s \in Schedulers, Scheduler(s)  PROVE HandsAreEmpty'
  <2>1. UNCHANGED <<resched, worker>>
    BY <1>3 DEF Scheduler, SchedulerWait, SchedulerDequeue, SchedulerFit, SchedulerPark,
                SchedulerReserve, SchedulerAddJob, SchedulerPost
  <2>2. \A t \in Schedulers \ {s} : sched'[t] = sched[t]
    BY <1>1, <1>3 DEF Scheduler, SchedulerWait, SchedulerDequeue, SchedulerFit,
                      SchedulerPark, SchedulerReserve, SchedulerAddJob, SchedulerPost
  <2>3. sched'[s].pc \in {"wait", "dequeue", "post"} => sched'[s].node = NULL
    <3>1. CASE SchedulerWait(s) \/ SchedulerAddJob(s)
      BY <1>1, <3>1 DEF SchedulerWait, SchedulerAddJob, HandsAreEmpty
    <3>2. CASE SchedulerDequeue(s)
      BY <1>1, <3>2 DEF SchedulerDequeue, Idle
    <3>3. CASE SchedulerPark(s) \/ SchedulerPost(s)
      BY <1>1, <3>3 DEF SchedulerPark, SchedulerPost, Idle
    <3>4. CASE SchedulerReserve(s)
      BY <1>1, <3>4 DEF SchedulerReserve
    <3>5. CASE SchedulerFit(s)
      <4>1. sched'[s].pc \in {"park", "reserve"}
        BY <1>1, <3>5 DEF SchedulerFit
      <4> QED  BY <4>1
    <3> QED  BY <1>3, <3>1, <3>2, <3>3, <3>4, <3>5 DEF Scheduler
  <2> QED  BY <2>1, <2>2, <2>3 DEF HandsAreEmpty
<1>4. ASSUME Rescheduler  PROVE HandsAreEmpty'
  <2>1. UNCHANGED <<sched, worker>>
    BY <1>4 DEF Rescheduler, ReschedulerWait, ReschedulerLock, ReschedulerCheck,
                ReschedulerReserve, ReschedulerAddJob, ReschedulerPost
  <2>2. resched'.pc # "add" => resched'.node = NULL
    <3>1. CASE ReschedulerWait \/ ReschedulerLock \/ ReschedulerAddJob
      BY <1>1, <3>1 DEF ReschedulerWait, ReschedulerLock, ReschedulerAddJob, HandsAreEmpty
    <3>2. CASE ReschedulerReserve
      BY <1>1, <3>2 DEF ReschedulerReserve
    <3>3. CASE ReschedulerPost
      BY <1>1, <3>3 DEF ReschedulerPost, Idle
    <3>4. CASE ReschedulerCheck
      <4> DEFINE b == IF waiting_queue = <<>> THEN NoFit
                      ELSE pronto_best_current_fit(Request[Head(waiting_queue)])
      <4>1. resched' \in {Idle, [resched EXCEPT !.pc = "reserve", !.fit = b]}
        BY <3>4 DEF ReschedulerCheck
      <4>2. resched.node = NULL
        BY <3>4 DEF ReschedulerCheck, HandsAreEmpty
      <4> HIDE DEF b
      <4>3. [resched EXCEPT !.pc = "reserve", !.fit = b].node = resched.node
        BY <1>1
      <4>4. Idle.node = NULL
        BY DEF Idle
      <4> QED  BY <4>1, <4>2, <4>3, <4>4
    <3> QED  BY <1>4, <3>1, <3>2, <3>3, <3>4 DEF Rescheduler
  <2> QED  BY <2>1, <2>2 DEF HandsAreEmpty
<1>5. ASSUME NEW w \in Workers, ClusterWorker(w)  PROVE HandsAreEmpty'
  <2>1. UNCHANGED <<sched, resched>>
    BY <1>5 DEF ClusterWorker, WorkerWait, WorkerDequeue, WorkerPost
  <2>2. \A v \in Workers \ {w} : worker'[v] = worker[v]
    BY <1>1, <1>5 DEF ClusterWorker, WorkerWait, WorkerDequeue, WorkerPost
  <2>3. worker'[w].pc # "post" => worker'[w].node = NULL
    <3>1. CASE WorkerWait(w)
      BY <1>1, <3>1 DEF WorkerWait, HandsAreEmpty
    <3>2. CASE WorkerDequeue(w)
      BY <1>1, <3>2 DEF WorkerDequeue
    <3>3. CASE WorkerPost(w)
      BY <1>1, <3>3 DEF WorkerPost
    <3> QED  BY <1>5, <3>1, <3>2, <3>3 DEF ClusterWorker
  <2> QED  BY <2>1, <2>2, <2>3 DEF HandsAreEmpty
<1> QED
  BY <1>2, <1>3, <1>4, <1>5
     DEF Next, vars, threadVars, Handler, schedule, schedule_notify, job_done,
         job_done_notify, ClientDoneLost

\* The invariant holds at the start: nobody holds anything.
LEMMA JobInit == Init => JobInv
<1> SUFFICES ASSUME Init  PROVE JobInv
  OBVIOUS
<1>1. QueuesHoldOnce
  BY DEF Init, QueuesHoldOnce, NoRepeats
<1>2. HandsAreEmpty
  BY DEF Init, HandsAreEmpty, Idle
<1>3. \A p \in Place : Held(p) = {}
  <2> SUFFICES ASSUME NEW p \in Place  PROVE Held(p) = {}
    OBVIOUS
  <2>1. ToSet(<<>>) = {}
    BY DEF ToSet
  <2>2. /\ job_queue = <<>> /\ waiting_queue = <<>> /\ resched.node = NULL
        /\ \A s \in Schedulers : sched[s].node = NULL
        /\ \A w \in Workers : /\ scheduler_jobs[w] = <<>> /\ worker[w].node = NULL
                              /\ client[w] = {} /\ lost[w] = {}
    BY DEF Init, Idle
  <2>3. CASE \/ p = <<"job_queue", 0>> \/ p = <<"waiting_queue", 0>>
             \/ p = <<"rescheduler", 0>>
    BY <2>1, <2>2, <2>3, HeldAt
  <2>4. CASE \E s \in Schedulers : p = <<"scheduler", s>>
    BY <2>2, <2>4, HeldAt
  <2>5. ASSUME NEW w \in Workers, p \in {<<"scheduler_jobs", w>>, <<"worker", w>>,
                                         <<"client", w>>, <<"lost", w>>}
        PROVE  Held(p) = {}
    BY <2>1, <2>2, <2>5, HeldAt
  <2> QED  BY <2>3, <2>4, <2>5, PlaceCases
<1>4. PlacesAreDisjoint /\ HeldIfAccepted
  BY <1>3 DEF Init, PlacesAreDisjoint, HeldIfAccepted
<1> QED  BY <1>1, <1>2, <1>4 DEF JobInv

\* Every step keeps it.
LEMMA JobNext == TypeInv /\ JobInv /\ [Next]_vars => JobInv'
<1> SUFFICES ASSUME TypeInv, JobInv, [Next]_vars  PROVE JobInv'
  OBVIOUS
<1>1. Kinds /\ QueuesHoldOnce'
  <2>1. CASE UNCHANGED vars
    <3>1. Stays /\ QueuesHoldOnce'
      BY <2>1, QuietStep DEF vars, queueVars, waitingVars, workerVars, threadVars, JobInv
    <3> QED  BY <3>1 DEF Kinds
  <2>2. CASE Next
    BY <2>2, CallbackKinds, SchedulerKinds, ReschedulerKinds, WorkerKinds, ClientKinds
       DEF Next
  <2> QED  BY <2>1, <2>2
<1>2. outcome \in [Job -> Outcomes]
  BY DEF TypeInv, TypeOK, Outcomes
<1>3. PlacesAreDisjoint' /\ HeldIfAccepted'
  BY <1>1, <1>2, KindsKeepPlaces, PlacesExist DEF JobInv, Kinds
<1>4. HandsAreEmpty'
  BY HandsNext DEF JobInv
<1> QED  BY <1>1, <1>3, <1>4 DEF JobInv

\* The invariant holds in every state.
THEOREM JobInvariant == Spec => []JobInv
BY JobInit, JobNext, TypeInvariant, PTL DEF Spec

-------------------------------------------------------------------------------
(* One copy of every accepted job. *)

\* The place of a copy that Copies counts.
PlaceOf(c) == IF c[1] \in {"job_queue", "waiting_queue", "rescheduler"}
              THEN <<c[1], 0>> ELSE <<c[1], c[2]>>

\* A copy is one of these.
LEMMA CopyKinds ==
    ASSUME NEW j \in Job, NEW c
    PROVE  c \in Copies(j) <=>
             \/ \E i \in DOMAIN job_queue : job_queue[i] = j /\ c = <<"job_queue", i>>
             \/ \E i \in DOMAIN waiting_queue :
                  waiting_queue[i] = j /\ c = <<"waiting_queue", i>>
             \/ \E s \in Schedulers : sched[s].node = j /\ c = <<"scheduler", s>>
             \/ resched.node = j /\ c = <<"rescheduler", 0>>
             \/ \E w \in Workers :
                  \/ \E i \in DOMAIN scheduler_jobs[w] :
                       scheduler_jobs[w][i] = j /\ c = <<"scheduler_jobs", w, i>>
                  \/ worker[w].node = j /\ c = <<"worker", w>>
                  \/ j \in client[w] /\ c = <<"client", w>>
                  \/ j \in lost[w] /\ c = <<"lost", w>>
<1> DEFINE queued(w) == {<<"scheduler_jobs", w, i>> :
                           i \in {i \in DOMAIN scheduler_jobs[w] : scheduler_jobs[w][i] = j}}
           inWorkers == UNION {queued(w) : w \in Workers}
           others ==
             {<<"job_queue", i>> : i \in {i \in DOMAIN job_queue : job_queue[i] = j}}
             \cup {<<"waiting_queue", i>> :
                     i \in {i \in DOMAIN waiting_queue : waiting_queue[i] = j}}
             \cup {<<"scheduler", s>> : s \in {s \in Schedulers : sched[s].node = j}}
             \cup {<<"rescheduler", i>> : i \in {i \in {0} : resched.node = j}}
           atWorker == {<<"worker", w>> : w \in {w \in Workers : worker[w].node = j}}
           atClient == {<<"client", w>> : w \in {w \in Workers : j \in client[w]}}
           gone     == {<<"lost", w>> : w \in {w \in Workers : j \in lost[w]}}
<1>1. c \in Copies(j) <=> \/ c \in others \/ c \in inWorkers
                          \/ c \in atWorker \/ c \in atClient \/ c \in gone
  <2>1. Copies(j) = others \cup inWorkers \cup atWorker \cup atClient \cup gone
    BY DEF Copies
  <2> HIDE DEF others, inWorkers, atWorker, atClient, gone
  <2> QED  BY <2>1
<1>2. c \in inWorkers <=> \E w \in Workers : c \in queued(w)
  <2> HIDE DEF queued
  <2> QED  OBVIOUS
<1>3. \A w \in Workers : c \in queued(w) <=>
        \E i \in DOMAIN scheduler_jobs[w] :
           scheduler_jobs[w][i] = j /\ c = <<"scheduler_jobs", w, i>>
  OBVIOUS
<1>4. c \in others <=>
        \/ \E i \in DOMAIN job_queue : job_queue[i] = j /\ c = <<"job_queue", i>>
        \/ \E i \in DOMAIN waiting_queue :
             waiting_queue[i] = j /\ c = <<"waiting_queue", i>>
        \/ \E s \in Schedulers : sched[s].node = j /\ c = <<"scheduler", s>>
        \/ resched.node = j /\ c = <<"rescheduler", 0>>
  OBVIOUS
<1>5. c \in atWorker \/ c \in atClient \/ c \in gone <=>
        \E w \in Workers : \/ worker[w].node = j /\ c = <<"worker", w>>
                           \/ j \in client[w] /\ c = <<"client", w>>
                           \/ j \in lost[w] /\ c = <<"lost", w>>
  OBVIOUS
<1> HIDE DEF others, inWorkers, atWorker, atClient, gone, queued
<1> QED  BY <1>1, <1>2, <1>3, <1>4, <1>5

\* A place that holds a job has a copy of it, and one copy only.
LEMMA CopiesAreHeld ==
    ASSUME TypeInv, QueuesHoldOnce, NEW j \in Job
    PROVE  /\ \A c \in Copies(j) : PlaceOf(c) \in Place /\ j \in Held(PlaceOf(c))
           /\ \A p \in Place : j \in Held(p) => \E c \in Copies(j) : PlaceOf(c) = p
           /\ \A c, d \in Copies(j) : PlaceOf(c) = PlaceOf(d) => c = d
<1>1. /\ j # NULL /\ job_queue \in Seq(Job) /\ waiting_queue \in Seq(Job)
      /\ \A w \in Workers : scheduler_jobs[w] \in Seq(Job)
  BY ProntoAssumption DEF TypeInv, TypeOK
<1>2. ASSUME NEW c \in Copies(j)  PROVE PlaceOf(c) \in Place /\ j \in Held(PlaceOf(c))
  <2>1. CASE \E i \in DOMAIN job_queue : job_queue[i] = j /\ c = <<"job_queue", i>>
    <3>1. PlaceOf(c) = <<"job_queue", 0>> /\ j \in ToSet(job_queue)
      BY <2>1 DEF PlaceOf, ToSet
    <3> QED  BY <3>1, HeldAt, PlacesExist
  <2>2. CASE \E i \in DOMAIN waiting_queue :
               waiting_queue[i] = j /\ c = <<"waiting_queue", i>>
    <3>1. PlaceOf(c) = <<"waiting_queue", 0>> /\ j \in ToSet(waiting_queue)
      BY <2>2 DEF PlaceOf, ToSet
    <3> QED  BY <3>1, HeldAt, PlacesExist
  <2>3. CASE \E s \in Schedulers : sched[s].node = j /\ c = <<"scheduler", s>>
    <3>1. PICK s \in Schedulers : sched[s].node = j /\ c = <<"scheduler", s>>
      BY <2>3
    <3>2. PlaceOf(c) = <<"scheduler", s>>
      BY <3>1 DEF PlaceOf
    <3> QED  BY <1>1, <3>1, <3>2, HeldAt, PlacesExist
  <2>4. CASE resched.node = j /\ c = <<"rescheduler", 0>>
    <3>1. PlaceOf(c) = <<"rescheduler", 0>>
      BY <2>4 DEF PlaceOf
    <3> QED  BY <1>1, <2>4, <3>1, HeldAt, PlacesExist
  <2>5. ASSUME NEW w \in Workers, NEW i \in DOMAIN scheduler_jobs[w],
               scheduler_jobs[w][i] = j, c = <<"scheduler_jobs", w, i>>
        PROVE  PlaceOf(c) \in Place /\ j \in Held(PlaceOf(c))
    <3>1. PlaceOf(c) = <<"scheduler_jobs", w>> /\ j \in ToSet(scheduler_jobs[w])
      BY <2>5 DEF PlaceOf, ToSet
    <3>2. Held(<<"scheduler_jobs", w>>) = ToSet(scheduler_jobs[w])
      BY HeldAt
    <3> QED  BY <3>1, <3>2, PlacesExist
  <2>6. ASSUME NEW w \in Workers,
               \/ worker[w].node = j /\ c = <<"worker", w>>
               \/ j \in client[w] /\ c = <<"client", w>>
               \/ j \in lost[w] /\ c = <<"lost", w>>
        PROVE  PlaceOf(c) \in Place /\ j \in Held(PlaceOf(c))
    <3>1. PlaceOf(c) = c
      BY <2>6 DEF PlaceOf
    <3>2. c \in Place
      BY <2>6, PlacesExist
    <3>3. j \in Held(c)
      BY <1>1, <2>6, HeldAt
    <3> QED  BY <3>1, <3>2, <3>3
  <2> QED  BY <2>1, <2>2, <2>3, <2>4, <2>5, <2>6, CopyKinds
<1>3. ASSUME NEW p \in Place, j \in Held(p)  PROVE \E c \in Copies(j) : PlaceOf(c) = p
  <2>1. CASE p = <<"job_queue", 0>>
    <3>1. PICK i \in DOMAIN job_queue : job_queue[i] = j
      BY <1>3, <2>1, HeldAt DEF ToSet
    <3>2. <<"job_queue", i>> \in Copies(j) /\ PlaceOf(<<"job_queue", i>>) = p
      BY <2>1, <3>1, CopyKinds DEF PlaceOf
    <3> QED  BY <3>2
  <2>2. CASE p = <<"waiting_queue", 0>>
    <3>1. PICK i \in DOMAIN waiting_queue : waiting_queue[i] = j
      BY <1>3, <2>2, HeldAt DEF ToSet
    <3>2. <<"waiting_queue", i>> \in Copies(j) /\ PlaceOf(<<"waiting_queue", i>>) = p
      BY <2>2, <3>1, CopyKinds DEF PlaceOf
    <3> QED  BY <3>2
  <2>3. CASE p = <<"rescheduler", 0>>
    <3>1. resched.node = j
      BY <1>3, <2>3, HeldAt
    <3>2. p \in Copies(j) /\ PlaceOf(p) = p
      BY <2>3, <3>1, CopyKinds DEF PlaceOf
    <3> QED  BY <3>2
  <2>4. ASSUME NEW s \in Schedulers, p = <<"scheduler", s>>
        PROVE  \E c \in Copies(j) : PlaceOf(c) = p
    <3>1. sched[s].node = j
      BY <1>3, <2>4, HeldAt
    <3>2. p \in Copies(j) /\ PlaceOf(p) = p
      BY <2>4, <3>1, CopyKinds DEF PlaceOf
    <3> QED  BY <3>2
  <2>5. ASSUME NEW w \in Workers, p = <<"scheduler_jobs", w>>
        PROVE  \E c \in Copies(j) : PlaceOf(c) = p
    <3>1. j \in ToSet(scheduler_jobs[w])
      BY <1>3, <2>5, HeldAt
    <3>2. PICK i \in DOMAIN scheduler_jobs[w] : scheduler_jobs[w][i] = j
      BY <3>1 DEF ToSet
    <3>3. <<"scheduler_jobs", w, i>> \in Copies(j)
      BY <3>2, CopyKinds
    <3>4. PlaceOf(<<"scheduler_jobs", w, i>>) = p
      BY <2>5 DEF PlaceOf
    <3> QED  BY <3>3, <3>4
  <2>6. ASSUME NEW w \in Workers, p \in {<<"worker", w>>, <<"client", w>>, <<"lost", w>>}
        PROVE  \E c \in Copies(j) : PlaceOf(c) = p
    <3>1. PlaceOf(p) = p
      BY <2>6 DEF PlaceOf
    <3>2. \/ worker[w].node = j /\ p = <<"worker", w>>
          \/ j \in client[w] /\ p = <<"client", w>>
          \/ j \in lost[w] /\ p = <<"lost", w>>
      BY <1>3, <2>6, HeldAt
    <3> QED  BY <3>1, <3>2, CopyKinds
  <2> QED  BY <2>1, <2>2, <2>3, <2>4, <2>5, <2>6, PlaceCases
<1>4. ASSUME NEW c \in Copies(j), NEW d \in Copies(j), PlaceOf(c) = PlaceOf(d)
      PROVE  c = d
  <2>1. c[1] = d[1]
    BY <1>4, CopyKinds DEF PlaceOf
  <2>6. ASSUME NEW e \in Copies(j)
        PROVE  /\ e[1] = "job_queue" =>
                    \E i \in DOMAIN job_queue : job_queue[i] = j /\ e = <<"job_queue", i>>
               /\ e[1] = "waiting_queue" =>
                    \E i \in DOMAIN waiting_queue :
                       waiting_queue[i] = j /\ e = <<"waiting_queue", i>>
               /\ e[1] = "scheduler_jobs" =>
                    \E w \in Workers : \E i \in DOMAIN scheduler_jobs[w] :
                       scheduler_jobs[w][i] = j /\ e = <<"scheduler_jobs", w, i>>
    BY CopyKinds
  <2>2. CASE c[1] = "job_queue"
    <3>1. PICK i \in DOMAIN job_queue : job_queue[i] = j /\ c = <<"job_queue", i>>
      BY <2>2, <2>6
    <3>2. PICK k \in DOMAIN job_queue : job_queue[k] = j /\ d = <<"job_queue", k>>
      BY <2>1, <2>2, <2>6
    <3>3. i \in 1..Len(job_queue) /\ k \in 1..Len(job_queue) /\ job_queue[i] = job_queue[k]
      BY <1>1, <3>1, <3>2
    <3>4. i = k
      BY <3>3 DEF QueuesHoldOnce, NoRepeats
    <3> QED  BY <3>1, <3>2, <3>4
  <2>3. CASE c[1] = "waiting_queue"
    <3>1. PICK i \in DOMAIN waiting_queue : waiting_queue[i] = j /\ c = <<"waiting_queue", i>>
      BY <2>3, <2>6
    <3>2. PICK k \in DOMAIN waiting_queue : waiting_queue[k] = j /\ d = <<"waiting_queue", k>>
      BY <2>1, <2>3, <2>6
    <3>3. /\ i \in 1..Len(waiting_queue) /\ k \in 1..Len(waiting_queue)
          /\ waiting_queue[i] = waiting_queue[k]
      BY <1>1, <3>1, <3>2
    <3>4. i = k
      BY <3>3 DEF QueuesHoldOnce, NoRepeats
    <3> QED  BY <3>1, <3>2, <3>4
  <2>4. CASE c[1] = "scheduler_jobs"
    <3>1. PICK w \in Workers : \E i \in DOMAIN scheduler_jobs[w] :
                scheduler_jobs[w][i] = j /\ c = <<"scheduler_jobs", w, i>>
      BY <2>4, <2>6
    <3>2. PICK i \in DOMAIN scheduler_jobs[w] :
                scheduler_jobs[w][i] = j /\ c = <<"scheduler_jobs", w, i>>
      BY <3>1
    <3>3. PICK v \in Workers : \E k \in DOMAIN scheduler_jobs[v] :
                scheduler_jobs[v][k] = j /\ d = <<"scheduler_jobs", v, k>>
      BY <2>1, <2>4, <2>6
    <3>4. v = w
      BY <1>4, <3>2, <3>3 DEF PlaceOf
    <3>5. PICK k \in DOMAIN scheduler_jobs[w] :
                scheduler_jobs[w][k] = j /\ d = <<"scheduler_jobs", w, k>>
      BY <3>3, <3>4
    <3>6. /\ i \in 1..Len(scheduler_jobs[w]) /\ k \in 1..Len(scheduler_jobs[w])
          /\ scheduler_jobs[w][i] = scheduler_jobs[w][k]
      BY <1>1, <3>2, <3>5
    <3>7. i = k
      BY <3>6 DEF QueuesHoldOnce, NoRepeats
    <3> QED  BY <3>2, <3>5, <3>7
  <2>5. CASE c[1] \in {"scheduler", "rescheduler", "worker", "client", "lost"}
    <3>1. ASSUME NEW e \in Copies(j),
                 e[1] \in {"scheduler", "rescheduler", "worker", "client", "lost"}
          PROVE  PlaceOf(e) = e
      BY <3>1, CopyKinds DEF PlaceOf
    <3> QED  BY <1>4, <2>1, <2>5, <3>1
  <2> QED  BY <2>2, <2>3, <2>4, <2>5, CopyKinds
<1> QED  BY <1>2, <1>3, <1>4

\* An accepted job is in exactly one place until its units are freed; a job that
\* was not accepted, or is done, is nowhere.
THEOREM JobsInOnePlace == Spec => []JobInOnePlace
<1>1. TypeInv /\ JobInv => JobInOnePlace
  <2> SUFFICES ASSUME TypeInv, JobInv, NEW j \in Job
               PROVE  Cardinality(Copies(j)) = IF outcome[j] = "accepted" THEN 1 ELSE 0
    BY DEF JobInOnePlace
  <2>1. QueuesHoldOnce
    BY DEF JobInv
  <2>2. CASE outcome[j] = "accepted"
    <3>1. PICK p \in Place : j \in Held(p)
      BY <2>2 DEF JobInv, HeldIfAccepted
    <3>2. PICK c \in Copies(j) : PlaceOf(c) = p
      BY <2>1, <3>1, CopiesAreHeld
    <3>3. \A d \in Copies(j) : PlaceOf(d) = p
      BY <2>1, <3>1, CopiesAreHeld DEF JobInv, PlacesAreDisjoint
    <3>4. Copies(j) = {c}
      BY <2>1, <3>2, <3>3, CopiesAreHeld
    <3> QED  BY <2>2, <3>4, FS_Singleton
  <2>3. CASE outcome[j] # "accepted"
    <3>1. Copies(j) = {}
      BY <2>1, <2>3, CopiesAreHeld DEF JobInv, HeldIfAccepted
    <3> QED  BY <2>3, <3>1, FS_EmptySet
  <2> QED  BY <2>2, <2>3
<1> QED  BY <1>1, TypeInvariant, JobInvariant, PTL
-------------------------------------------------------------------------------

(* The stage of a job by its place. *)

PlaceStage(p) ==
    CASE p[1] = "job_queue"     -> "queued"
      [] p[1] = "waiting_queue" -> "waiting"
      [] p[1] = "scheduler"     -> IF sched[p[2]].pc = "add" THEN "placed" ELSE "queued"
      [] p[1] \in {"rescheduler", "scheduler_jobs", "worker"} -> "placed"
      [] p[1] = "client"        -> "running"
      [] p[1] = "lost"          -> "lost"
PlaceHost(p) ==
    CASE p[1] = "scheduler"   -> IF sched[p[2]].pc = "add" THEN sched[p[2]].fit ELSE NoFit
      [] p[1] = "rescheduler" -> resched.fit
      [] p[1] \in {"job_queue", "waiting_queue"} -> NoFit
      [] OTHER                -> p[2]

\* The parts of the state that mention a job are those of its place.
LEMMA WhereIs ==
    ASSUME TypeInv, JobInv, NEW j \in Job, NEW p \in Place, j \in Held(p)
    PROVE  /\ j \in ToSet(waiting_queue) <=> p = <<"waiting_queue", 0>>
           /\ resched.node = j <=> p = <<"rescheduler", 0>>
           /\ \A s \in Schedulers : sched[s].node = j <=> p = <<"scheduler", s>>
           /\ \A w \in Workers :
                /\ j \in ToSet(scheduler_jobs[w]) <=> p = <<"scheduler_jobs", w>>
                /\ worker[w].node = j <=> p = <<"worker", w>>
                /\ j \in client[w] <=> p = <<"client", w>>
                /\ j \in lost[w] <=> p = <<"lost", w>>
<1>1. \A q \in Place : j \in Held(q) <=> q = p
  BY DEF JobInv, PlacesAreDisjoint
<1>2. j # NULL
  BY ProntoAssumption
<1>3. j \in ToSet(waiting_queue) <=> p = <<"waiting_queue", 0>>
  BY <1>1, HeldAt, PlacesExist
<1>4. resched.node = j <=> p = <<"rescheduler", 0>>
  BY <1>1, <1>2, HeldAt, PlacesExist
<1>5. ASSUME NEW s \in Schedulers  PROVE sched[s].node = j <=> p = <<"scheduler", s>>
  <2>1. Held(<<"scheduler", s>>) = {sched[s].node} \ {NULL}
    BY HeldAt
  <2> QED  BY <1>1, <1>2, <2>1, PlacesExist
<1>6. ASSUME NEW w \in Workers
      PROVE  /\ j \in ToSet(scheduler_jobs[w]) <=> p = <<"scheduler_jobs", w>>
             /\ worker[w].node = j <=> p = <<"worker", w>>
             /\ j \in client[w] <=> p = <<"client", w>>
             /\ j \in lost[w] <=> p = <<"lost", w>>
  <2>1. /\ Held(<<"scheduler_jobs", w>>) = ToSet(scheduler_jobs[w])
        /\ Held(<<"worker", w>>) = {worker[w].node} \ {NULL}
        /\ Held(<<"client", w>>) = client[w] /\ Held(<<"lost", w>>) = lost[w]
    BY HeldAt
  <2>2. {<<"scheduler_jobs", w>>, <<"worker", w>>, <<"client", w>>, <<"lost", w>>}
          \subseteq Place
    BY PlacesExist
  <2> QED  BY <1>1, <1>2, <2>1, <2>2
<1> QED  BY <1>3, <1>4, <1>5, <1>6

\* The workers for which a job counts as placed, or as reserved.
LEMMA ReservedAt ==
    ASSUME TypeInv, JobInv, NEW j \in Job, NEW p \in Place, j \in Held(p),
           NEW w \in Workers
    PROVE  /\ j \in Placed(w) <=> PlaceStage(p) = "placed" /\ PlaceHost(p) = w
           /\ j \in Reserved(w) <=> PlaceHost(p) = w
           /\ j \in client[w] <=> PlaceStage(p) = "running" /\ PlaceHost(p) = w
           /\ j \in lost[w] <=> PlaceStage(p) = "lost" /\ PlaceHost(p) = w
<1> USE WhereIs
<1>1. resched.node = j => resched.pc = "add"
  BY ProntoAssumption DEF JobInv, HandsAreEmpty
<1>2. /\ j \in BeingAdded(w) <=>
           \/ \E s \in Schedulers : /\ sched[s].pc = "add" /\ sched[s].fit = w
                                    /\ sched[s].node = j
           \/ resched.node = j /\ resched.fit = w
      /\ j \in Placed(w) <=> \/ j \in BeingAdded(w) \/ j \in ToSet(scheduler_jobs[w])
                             \/ worker[w].node = j
      /\ j \in Reserved(w) <=> j \in Placed(w) \/ j \in client[w] \/ j \in lost[w]
  BY <1>1 DEF BeingAdded, Placed, Reserved
<1>3. NoFit # w
  BY ConstantsType
<1>4. CASE p = <<"job_queue", 0>>
  BY <1>2, <1>3, <1>4 DEF PlaceStage, PlaceHost
<1>5. CASE p = <<"waiting_queue", 0>>
  BY <1>2, <1>3, <1>5 DEF PlaceStage, PlaceHost
<1>6. CASE p = <<"rescheduler", 0>>
  BY <1>2, <1>6 DEF PlaceStage, PlaceHost
<1>7. ASSUME NEW s \in Schedulers, p = <<"scheduler", s>>
      PROVE  /\ j \in Placed(w) <=> PlaceStage(p) = "placed" /\ PlaceHost(p) = w
             /\ j \in Reserved(w) <=> PlaceHost(p) = w
             /\ j \in client[w] <=> PlaceStage(p) = "running" /\ PlaceHost(p) = w
             /\ j \in lost[w] <=> PlaceStage(p) = "lost" /\ PlaceHost(p) = w
  <2>1. /\ PlaceStage(p) = IF sched[s].pc = "add" THEN "placed" ELSE "queued"
        /\ PlaceHost(p) = IF sched[s].pc = "add" THEN sched[s].fit ELSE NoFit
    BY <1>7 DEF PlaceStage, PlaceHost
  <2>2. \A t \in Schedulers : sched[t].node = j <=> t = s
    BY <1>7
  <2>3. /\ resched.node # j /\ j \notin ToSet(scheduler_jobs[w]) /\ worker[w].node # j
        /\ j \notin client[w] /\ j \notin lost[w]
    BY <1>7
  <2> QED  BY <1>2, <1>3, <2>1, <2>2, <2>3
<1>8. ASSUME NEW v \in Workers, p \in {<<"scheduler_jobs", v>>, <<"worker", v>>,
                                       <<"client", v>>, <<"lost", v>>}
      PROVE  /\ j \in Placed(w) <=> PlaceStage(p) = "placed" /\ PlaceHost(p) = w
             /\ j \in Reserved(w) <=> PlaceHost(p) = w
             /\ j \in client[w] <=> PlaceStage(p) = "running" /\ PlaceHost(p) = w
             /\ j \in lost[w] <=> PlaceStage(p) = "lost" /\ PlaceHost(p) = w
  <2>1. j \notin BeingAdded(w)
    BY <1>2, <1>8
  <2>2. CASE p = <<"scheduler_jobs", v>>
    BY <1>2, <2>1, <2>2 DEF PlaceStage, PlaceHost
  <2>3. CASE p = <<"worker", v>>
    BY <1>2, <2>1, <2>3 DEF PlaceStage, PlaceHost
  <2>4. CASE p = <<"client", v>>
    BY <1>2, <2>1, <2>4 DEF PlaceStage, PlaceHost
  <2>5. CASE p = <<"lost", v>>
    BY <1>2, <2>1, <2>5 DEF PlaceStage, PlaceHost
  <2> QED  BY <1>8, <2>2, <2>3, <2>4, <2>5
<1> QED  BY <1>4, <1>5, <1>6, <1>7, <1>8, PlaceCases

\* Where a job has a worker, and where not.
LEMMA PlaceTypes ==
    ASSUME TypeInv, JobInv, NEW p \in Place, Held(p) # {}
    PROVE  \/ PlaceStage(p) \in {"queued", "waiting"} /\ PlaceHost(p) = NoFit
           \/ PlaceStage(p) \in {"placed", "running", "lost"} /\ PlaceHost(p) \in Workers
<1>1. CASE p = <<"job_queue", 0>> \/ p = <<"waiting_queue", 0>>
  BY <1>1 DEF PlaceStage, PlaceHost
<1>2. CASE p = <<"rescheduler", 0>>
  <2>1. resched.node # NULL
    BY <1>2, HeldAt
  <2>2. resched.fit \in Workers
    BY <2>1 DEF JobInv, HandsAreEmpty, TypeInv, ThreadsHoldJobs
  <2> QED  BY <1>2, <2>2 DEF PlaceStage, PlaceHost
<1>3. ASSUME NEW s \in Schedulers, p = <<"scheduler", s>>
      PROVE  \/ PlaceStage(p) \in {"queued", "waiting"} /\ PlaceHost(p) = NoFit
             \/ PlaceStage(p) \in {"placed", "running", "lost"} /\ PlaceHost(p) \in Workers
  <2>1. sched[s].pc = "add" => sched[s].fit \in Workers
    BY DEF TypeInv, ThreadsHoldJobs
  <2> QED  BY <1>3, <2>1 DEF PlaceStage, PlaceHost
<1>4. ASSUME NEW w \in Workers, p \in {<<"scheduler_jobs", w>>, <<"worker", w>>,
                                       <<"client", w>>, <<"lost", w>>}
      PROVE  PlaceStage(p) \in {"placed", "running", "lost"} /\ PlaceHost(p) \in Workers
  <2>1. CASE p = <<"scheduler_jobs", w>>
    BY <2>1 DEF PlaceStage, PlaceHost
  <2>2. CASE p = <<"worker", w>>
    BY <2>2 DEF PlaceStage, PlaceHost
  <2>3. CASE p = <<"client", w>>
    BY <2>3 DEF PlaceStage, PlaceHost
  <2>4. CASE p = <<"lost", w>>
    BY <2>4 DEF PlaceStage, PlaceHost
  <2> QED  BY <1>4, <2>1, <2>2, <2>3, <2>4
<1> QED  BY <1>1, <1>2, <1>3, <1>4, PlaceCases

\* The stage and the host of a job that is somewhere.
LEMMA StageAt ==
    ASSUME TypeInv, JobInv, NEW j \in Job, NEW p \in Place, j \in Held(p)
    PROVE  stageOf(j) = PlaceStage(p) /\ hostOf(j) = PlaceHost(p)
<1>1. outcome[j] = "accepted"
  BY DEF JobInv, HeldIfAccepted
<1>2. \/ PlaceStage(p) \in {"queued", "waiting"} /\ PlaceHost(p) = NoFit
      \/ PlaceStage(p) \in {"placed", "running", "lost"} /\ PlaceHost(p) \in Workers
  BY PlaceTypes
<1>3. NoFit \notin Workers
  BY ConstantsType
<1>4. /\ (\E w \in Workers : j \in lost[w]) <=> PlaceStage(p) = "lost"
      /\ (\E w \in Workers : j \in client[w]) <=> PlaceStage(p) = "running"
      /\ (\E w \in Workers : j \in Placed(w)) <=> PlaceStage(p) = "placed"
  BY <1>2, ReservedAt
<1>5. InWaitingQueue(j) <=> PlaceStage(p) = "waiting"
  <2>1. InWaitingQueue(j) <=> p = <<"waiting_queue", 0>>
    BY WhereIs DEF InWaitingQueue
  <2>2. p = <<"waiting_queue", 0>> => PlaceStage(p) = "waiting"
    BY DEF PlaceStage
  <2>3. p # <<"waiting_queue", 0>> => PlaceStage(p) # "waiting"
    <3>1. p = <<"job_queue", 0>> => PlaceStage(p) # "waiting"
      BY DEF PlaceStage
    <3>2. p = <<"rescheduler", 0>> => PlaceStage(p) # "waiting"
      BY DEF PlaceStage
    <3>3. \A s \in Schedulers : p = <<"scheduler", s>> => PlaceStage(p) # "waiting"
      BY DEF PlaceStage
    <3>4. \A w \in Workers : p \in {<<"scheduler_jobs", w>>, <<"worker", w>>,
                                    <<"client", w>>, <<"lost", w>>}
                               => PlaceStage(p) # "waiting"
      BY DEF PlaceStage
    <3> QED  BY <3>1, <3>2, <3>3, <3>4, PlaceCases
  <2> QED  BY <2>1, <2>2, <2>3
<1>6. stageOf(j) = PlaceStage(p)
  BY <1>1, <1>2, <1>4, <1>5 DEF stageOf
<1>7. \A w \in Workers : j \in Reserved(w) <=> PlaceHost(p) = w
  BY ReservedAt
<1>8. hostOf(j) = PlaceHost(p)
  <2>1. CASE PlaceHost(p) \in Workers
    <3>1. (CHOOSE w \in Workers : j \in Reserved(w)) \in Workers
      BY <1>7, <2>1
    <3> QED  BY <1>7, <2>1, <3>1 DEF hostOf
  <2>2. CASE PlaceHost(p) = NoFit
    BY <1>3, <1>7, <2>2 DEF hostOf
  <2> QED  BY <1>2, <2>1, <2>2
<1> QED  BY <1>6, <1>8

\* A job that is nowhere has the stage of its outcome, and no host.
LEMMA StageNowhere ==
    ASSUME TypeInv, JobInv, NEW j \in Job, outcome[j] # "accepted"
    PROVE  stageOf(j) = outcome[j] /\ hostOf(j) = NoFit
<1>1. \A p \in Place : j \notin Held(p)
  BY DEF JobInv, HeldIfAccepted
<1>2. j # NULL
  BY ProntoAssumption
<1>3. ASSUME NEW w \in Workers  PROVE j \notin Reserved(w)
  <2>1. \A s \in Schedulers : sched[s].node # j
    <3> SUFFICES ASSUME NEW s \in Schedulers  PROVE sched[s].node # j
      OBVIOUS
    <3>1. Held(<<"scheduler", s>>) = {sched[s].node} \ {NULL}
      BY HeldAt
    <3> QED  BY <1>1, <1>2, <3>1, PlacesExist
  <2>2. resched.node # j
    BY <1>1, <1>2, HeldAt, PlacesExist
  <2>3. /\ j \notin ToSet(scheduler_jobs[w]) /\ worker[w].node # j
        /\ j \notin client[w] /\ j \notin lost[w]
    <3>1. /\ Held(<<"scheduler_jobs", w>>) = ToSet(scheduler_jobs[w])
          /\ Held(<<"worker", w>>) = {worker[w].node} \ {NULL}
          /\ Held(<<"client", w>>) = client[w] /\ Held(<<"lost", w>>) = lost[w]
      BY HeldAt
    <3>2. {<<"scheduler_jobs", w>>, <<"worker", w>>, <<"client", w>>, <<"lost", w>>}
            \subseteq Place
      BY PlacesExist
    <3> QED  BY <1>1, <1>2, <3>1, <3>2
  <2>4. j \notin BeingAdded(w)
    BY <2>1, <2>2 DEF BeingAdded
  <2>5. j \notin Placed(w)
    BY <2>3, <2>4 DEF Placed
  <2> QED  BY <2>3, <2>5 DEF Reserved
<1>4. ~InWaitingQueue(j)
  BY <1>1, HeldAt, PlacesExist DEF InWaitingQueue
<1>5. \A w \in Workers : j \notin lost[w] /\ j \notin client[w] /\ j \notin Placed(w)
  BY <1>3 DEF Reserved
<1> QED  BY <1>3, <1>4, <1>5 DEF stageOf, hostOf

-------------------------------------------------------------------------------
(* Steps. *)

\* A thread that keeps its job keeps the stage of the job, but for the step that
\* reserves units for it.
LEMMA ThreadsKeepStages ==
    ASSUME TypeInv, HandsAreEmpty, [Next]_vars
    PROVE  /\ \A s \in Schedulers :
                sched[s].node # NULL /\ sched'[s].node # NULL
                  => \/ sched[s].pc = "add" /\ sched'[s] = sched[s]
                     \/ sched[s].pc # "add" /\ sched'[s].pc # "add"
                     \/ SchedulerReserve(s)
           /\ resched.node # NULL /\ resched'.node # NULL => resched' = resched
<1>1. /\ sched \in [Schedulers -> [pc   : SchedPc,
                                   node : Job \cup {NULL},
                                   fit  : Workers \cup {NoFit}]]
      /\ resched \in [pc : ReschedPc, node : Job \cup {NULL}, fit : Workers \cup {NoFit}]
  BY DEF TypeInv, TypeOK
<1> DEFINE Keep(s) == sched[s].node # NULL /\ sched'[s].node # NULL
                        => \/ sched[s].pc = "add" /\ sched'[s] = sched[s]
                           \/ sched[s].pc # "add" /\ sched'[s].pc # "add"
                           \/ SchedulerReserve(s)
<1>2. CASE UNCHANGED <<sched, resched>>
  BY <1>2
<1>3. ASSUME NEW t \in Schedulers, Scheduler(t)
      PROVE  (\A s \in Schedulers : Keep(s)) /\ resched' = resched
  <2>1. resched' = resched
    BY <1>3 DEF Scheduler, SchedulerWait, SchedulerDequeue, SchedulerFit, SchedulerPark,
                SchedulerReserve, SchedulerAddJob, SchedulerPost
  <2>2. \A s \in Schedulers \ {t} : sched'[s] = sched[s]
    BY <1>1, <1>3 DEF Scheduler, SchedulerWait, SchedulerDequeue, SchedulerFit,
                      SchedulerPark, SchedulerReserve, SchedulerAddJob, SchedulerPost
  <2>3. Keep(t)
    <3>1. CASE SchedulerWait(t) \/ SchedulerDequeue(t) \/ SchedulerPost(t)
      <4>1. sched[t].pc \in {"wait", "dequeue", "post"}
        BY <3>1 DEF SchedulerWait, SchedulerDequeue, SchedulerPost
      <4> QED  BY <4>1 DEF HandsAreEmpty
    <3>2. CASE SchedulerFit(t)
      <4>1. sched[t].pc = "fit" /\ sched'[t].pc \in {"park", "reserve"}
        BY <1>1, <3>2 DEF SchedulerFit
      <4> QED  BY <4>1
    <3>3. CASE SchedulerPark(t)
      BY <1>1, <3>3 DEF SchedulerPark, Idle
    <3>4. CASE SchedulerAddJob(t)
      BY <1>1, <3>4 DEF SchedulerAddJob
    <3> QED  BY <1>3, <3>1, <3>2, <3>3, <3>4 DEF Scheduler
  <2> QED  BY <2>1, <2>2, <2>3
<1>4. ASSUME Rescheduler
      PROVE  sched' = sched /\ (resched.node # NULL => resched'.node = NULL)
  <2>1. sched' = sched
    BY <1>4 DEF Rescheduler, ReschedulerWait, ReschedulerLock, ReschedulerCheck,
                ReschedulerReserve, ReschedulerAddJob, ReschedulerPost
  <2>2. ASSUME resched.node # NULL  PROVE resched'.node = NULL
    <3>1. resched.pc = "add"
      BY <2>2 DEF HandsAreEmpty
    <3>2. ReschedulerAddJob
      BY <1>4, <3>1 DEF Rescheduler, ReschedulerWait, ReschedulerLock, ReschedulerCheck,
                        ReschedulerReserve, ReschedulerPost
    <3> QED  BY <1>1, <3>2 DEF ReschedulerAddJob
  <2> QED  BY <2>1, <2>2
<1> QED
  <2>1. \/ UNCHANGED <<sched, resched>> \/ (\E t \in Schedulers : Scheduler(t))
        \/ Rescheduler
    BY DEF Next, vars, threadVars, Handler, schedule, schedule_notify, job_done,
           job_done_notify, ClusterWorker, WorkerWait, WorkerDequeue, WorkerPost,
           ClientDoneLost
  <2> HIDE DEF Keep
  <2>2. (\A s \in Schedulers : Keep(s))
          /\ (resched.node # NULL /\ resched'.node # NULL => resched' = resched)
    <3>1. CASE UNCHANGED <<sched, resched>>
      BY <3>1 DEF Keep
    <3>2. CASE Rescheduler
      BY <1>4, <3>2 DEF Keep
    <3> QED  BY <1>3, <2>1, <3>1, <3>2
  <2> QED  BY <2>2 DEF Keep

\* A place that still holds a job keeps its stage, but for that step.
LEMMA PlacesKeepStages ==
    ASSUME TypeInv, JobInv, JobInv', TypeInv', [Next]_vars,
           \A s \in Schedulers : ~SchedulerReserve(s),
           NEW p \in Place, Held(p) # {}, Held(p)' # {}
    PROVE  PlaceStage(p)' = PlaceStage(p) /\ PlaceHost(p)' = PlaceHost(p)
<1>1. CASE p = <<"job_queue", 0>> \/ p = <<"waiting_queue", 0>>
  BY <1>1 DEF PlaceStage, PlaceHost
<1>2. CASE p = <<"rescheduler", 0>>
  <2>1. resched.node # NULL /\ resched'.node # NULL
    BY <1>2 DEF Held
  <2>2. resched' = resched
    BY <2>1, ThreadsKeepStages DEF JobInv
  <2> QED  BY <1>2, <2>2 DEF PlaceStage, PlaceHost
<1>3. ASSUME NEW s \in Schedulers, p = <<"scheduler", s>>
      PROVE  PlaceStage(p)' = PlaceStage(p) /\ PlaceHost(p)' = PlaceHost(p)
  <2>1. sched[s].node # NULL /\ sched'[s].node # NULL
    BY <1>3 DEF Held
  <2>2. \/ sched[s].pc = "add" /\ sched'[s] = sched[s]
        \/ sched[s].pc # "add" /\ sched'[s].pc # "add"
    BY <2>1, ThreadsKeepStages DEF JobInv
  <2> QED  BY <1>3, <2>2 DEF PlaceStage, PlaceHost
<1>4. ASSUME NEW w \in Workers, p \in {<<"scheduler_jobs", w>>, <<"worker", w>>,
                                       <<"client", w>>, <<"lost", w>>}
      PROVE  PlaceStage(p)' = PlaceStage(p) /\ PlaceHost(p)' = PlaceHost(p)
  <2>1. CASE p = <<"scheduler_jobs", w>>
    BY <2>1 DEF PlaceStage, PlaceHost
  <2>2. CASE p = <<"worker", w>>
    BY <2>2 DEF PlaceStage, PlaceHost
  <2>3. CASE p = <<"client", w>>
    BY <2>3 DEF PlaceStage, PlaceHost
  <2>4. CASE p = <<"lost", w>>
    BY <2>4 DEF PlaceStage, PlaceHost
  <2> QED  BY <1>4, <2>1, <2>2, <2>3, <2>4
<1> QED  BY <1>1, <1>2, <1>3, <1>4, PlaceCases

-------------------------------------------------------------------------------
(* The refinement. *)

Same(i) == stageOf(i)' = stageOf(i) /\ hostOf(i)' = hostOf(i)
Unlocated(i) == stageOf(i) = outcome[i] /\ hostOf(i) = NoFit

\* What JobLifecycle lets happen to one job.
Lives(j) ==
    \/ Same(j)
    \/ /\ stageOf(j) = "unsent" /\ stageOf(j)' \in {"queued", "rejected"}
       /\ hostOf(j)' = hostOf(j)
    \/ stageOf(j) = "queued" /\ stageOf(j)' = "waiting" /\ hostOf(j)' = hostOf(j)
    \/ stageOf(j) \in {"queued", "waiting"} /\ stageOf(j)' = "placed" /\ hostOf(j)' \in Workers
    \/ stageOf(j) = "placed" /\ stageOf(j)' = "running" /\ hostOf(j)' = hostOf(j)
    \/ stageOf(j) = "running" /\ stageOf(j)' = "freed" /\ hostOf(j)' = NoFit
    \/ /\ stageOf(j) \in {"placed", "running"} /\ stageOf(j)' = "lost"
       /\ hostOf(j)' = hostOf(j) /\ (PostMayFail \/ DoneMayFail)

\* It is a step of JobLifecycle if nothing happens to the others.
LEMMA LivesIsStep ==
    ASSUME NEW j \in Job, Lives(j), \A i \in Job \ {j} : Same(i)
    PROVE  [Lifecycle!Next]_(Lifecycle!vars)
<1> DEFINE stage == [i \in Job |-> stageOf(i)]
           host == [i \in Job |-> hostOf(i)]
<1>1. /\ stage' = [stage EXCEPT ![j] = stageOf(j)']
      /\ host' = [host EXCEPT ![j] = hostOf(j)']
      /\ stage[j] = stageOf(j) /\ host[j] = hostOf(j)
  BY DEF Same
<1>2. hostOf(j)' = hostOf(j) => host' = host
  BY DEF Same
<1>3. stageOf(j)' = stageOf(j) => stage' = stage
  BY DEF Same
<1>6. stage'[j] = stageOf(j)'
  OBVIOUS
<1> HIDE DEF stage, host
<1>4. CASE Same(j)
  BY <1>2, <1>3, <1>4 DEF Same, Lifecycle!vars, stage, host
<1>5. CASE ~Same(j)
  <2>1. \/ Lifecycle!Accept(j) \/ Lifecycle!Reject(j) \/ Lifecycle!Park(j)
        \/ Lifecycle!Run(j) \/ Lifecycle!Free(j) \/ Lifecycle!Lose(j)
        \/ \E w \in Workers : Lifecycle!Place(j, w)
    <3> USE <1>1, <1>2
    <3> USE DEF Lifecycle!Move
    <3>1. CASE /\ stageOf(j) = "unsent" /\ stageOf(j)' \in {"queued", "rejected"}
               /\ hostOf(j)' = hostOf(j)
      <4>1. CASE stageOf(j)' = "queued"
        <5>1. Lifecycle!Accept(j)
          BY <3>1, <4>1 DEF Lifecycle!Accept, stage, host
        <5> QED  BY <5>1
      <4>2. CASE stageOf(j)' = "rejected"
        <5>1. Lifecycle!Reject(j)
          BY <3>1, <4>2 DEF Lifecycle!Reject, stage, host
        <5> QED  BY <5>1
      <4> QED  BY <3>1, <4>1, <4>2
    <3>2. CASE stageOf(j) = "queued" /\ stageOf(j)' = "waiting" /\ hostOf(j)' = hostOf(j)
      <4>1. Lifecycle!Park(j)
        BY <3>2 DEF Lifecycle!Park, stage, host
      <4> QED  BY <4>1
    <3>3. CASE /\ stageOf(j) \in {"queued", "waiting"} /\ stageOf(j)' = "placed"
               /\ hostOf(j)' \in Workers
      <4>1. Lifecycle!Place(j, hostOf(j)')
        BY <3>3 DEF Lifecycle!Place, stage, host
      <4> QED  BY <3>3, <4>1
    <3>4. CASE stageOf(j) = "placed" /\ stageOf(j)' = "running" /\ hostOf(j)' = hostOf(j)
      <4>1. Lifecycle!Run(j)
        BY <3>4 DEF Lifecycle!Run, stage, host
      <4> QED  BY <4>1
    <3>5. CASE stageOf(j) = "running" /\ stageOf(j)' = "freed" /\ hostOf(j)' = NoFit
      <4>1. Lifecycle!Free(j)
        BY <3>5 DEF Lifecycle!Free, stage, host
      <4> QED  BY <4>1
    <3>6. CASE /\ stageOf(j) \in {"placed", "running"} /\ stageOf(j)' = "lost"
               /\ hostOf(j)' = hostOf(j) /\ (PostMayFail \/ DoneMayFail)
      <4>1. Lifecycle!Lose(j)
        BY <3>6 DEF Lifecycle!Lose, stage, host
      <4> QED  BY <4>1
    <3> QED  BY <1>5, <3>1, <3>2, <3>3, <3>4, <3>5, <3>6 DEF Lives
  <2>2. stageOf(j)' # stageOf(j)
    BY <1>5 DEF Lives
  <2>3. stage'[j] # stage[j]
    BY <1>1, <1>6, <2>2
  <2> QED  BY <2>1, <2>3 DEF Lifecycle!Next, stage, host
<1> QED  BY <1>4, <1>5

\* The stages, in one formula.
StagesArePlaces ==
    \A j \in Job :
        /\ \A p \in Place : j \in Held(p) =>
             /\ stageOf(j) = PlaceStage(p) /\ hostOf(j) = PlaceHost(p)
             /\ \/ PlaceStage(p) \in {"queued", "waiting"} /\ PlaceHost(p) = NoFit
                \/ PlaceStage(p) \in {"placed", "running", "lost"} /\ PlaceHost(p) \in Workers
        /\ outcome[j] # "accepted" => Unlocated(j)

\* It does in every state of the invariants.
LEMMA StagesHold == TypeInv /\ JobInv => StagesArePlaces
BY StageAt, StageNowhere, PlaceTypes DEF StagesArePlaces, Unlocated

\* And in the state after a step, when they hold there.
LEMMA StagesHoldNext == TypeInv' /\ JobInv' => StagesArePlaces'
BY StagesHold, PTL

\* The reservation places the job of the thread, and nothing else happens.
LEMMA ReserveIsStep ==
    ASSUME TypeInv, JobInv, TypeInv', JobInv', NEW s \in Schedulers, SchedulerReserve(s)
    PROVE  [Lifecycle!Next]_(Lifecycle!vars)
<1> DEFINE here == <<"scheduler", s>>
<1>1. StagesArePlaces /\ StagesArePlaces'
  BY StagesHold, StagesHoldNext
<1>2. PICK j \in Job : j = sched[s].node
  BY DEF SchedulerReserve, TypeInv, ThreadsHoldJobs
<1>3. /\ sched \in [Schedulers -> [pc   : SchedPc,
                                   node : Job \cup {NULL},
                                   fit  : Workers \cup {NoFit}]]
      /\ sched' = [sched EXCEPT ![s].pc = "add"] /\ sched[s].pc = "reserve"
      /\ sched[s].fit \in Workers /\ here \in Place /\ j # NULL
  BY ProntoAssumption, PlacesExist
     DEF SchedulerReserve, TypeInv, TypeOK, ThreadsHoldJobs
<1>4. /\ sched'[s].pc = "add" /\ sched'[s].node = j /\ sched'[s].fit = sched[s].fit
      /\ \A t \in Schedulers \ {s} : sched'[t] = sched[t]
  BY <1>2, <1>3
<1>5. /\ UNCHANGED <<job_queue, waiting_queue, scheduler_jobs, resched, worker, client, lost,
                     outcome>>
      /\ \A t \in Schedulers : sched'[t].node = sched[t].node
  BY <1>2, <1>4 DEF SchedulerReserve, queueVars, waitingVars, workerVars, clientVars
<1>6. Keeps(Place)
  BY <1>5, KeepsPlaces
<1>7. j \in Held(here) /\ j \in Held(here)'
  BY <1>2, <1>3, <1>4 DEF Held
<1>8. /\ PlaceStage(here) = "queued" /\ PlaceStage(here)' = "placed"
      /\ PlaceHost(here)' \in Workers
  BY <1>3, <1>4 DEF PlaceStage, PlaceHost
<1>9. Lives(j)
  BY <1>1, <1>3, <1>7, <1>8 DEF StagesArePlaces, Lives
<1>10. ASSUME NEW p \in Place \ {here}
       PROVE  PlaceStage(p)' = PlaceStage(p) /\ PlaceHost(p)' = PlaceHost(p)
  <2>1. CASE \/ p = <<"job_queue", 0>> \/ p = <<"waiting_queue", 0>>
             \/ p = <<"rescheduler", 0>>
    BY <1>5, <2>1 DEF PlaceStage, PlaceHost
  <2>2. ASSUME NEW t \in Schedulers, p = <<"scheduler", t>>
        PROVE  PlaceStage(p)' = PlaceStage(p) /\ PlaceHost(p)' = PlaceHost(p)
    <3>1. sched'[t] = sched[t]
      BY <1>4, <2>2
    <3> QED  BY <2>2, <3>1 DEF PlaceStage, PlaceHost
  <2>3. ASSUME NEW w \in Workers, p \in {<<"scheduler_jobs", w>>, <<"worker", w>>,
                                         <<"client", w>>, <<"lost", w>>}
        PROVE  PlaceStage(p)' = PlaceStage(p) /\ PlaceHost(p)' = PlaceHost(p)
    <3>1. CASE p = <<"scheduler_jobs", w>>
      BY <3>1 DEF PlaceStage, PlaceHost
    <3>2. CASE p = <<"worker", w>>
      BY <3>2 DEF PlaceStage, PlaceHost
    <3>3. CASE p = <<"client", w>>
      BY <3>3 DEF PlaceStage, PlaceHost
    <3>4. CASE p = <<"lost", w>>
      BY <3>4 DEF PlaceStage, PlaceHost
    <3> QED  BY <2>3, <3>1, <3>2, <3>3, <3>4
  <2> QED  BY <2>1, <2>2, <2>3, PlaceCases
<1>11. ASSUME NEW i \in Job \ {j}  PROVE Same(i)
  <2>1. CASE outcome[i] # "accepted"
    BY <1>1, <1>5, <2>1 DEF StagesArePlaces, Unlocated, Same
  <2>2. CASE outcome[i] = "accepted"
    <3>1. PICK p \in Place : i \in Held(p)
      BY <2>2 DEF JobInv, HeldIfAccepted
    <3>2. i \in Held(p)' /\ p # here
      BY <1>2, <1>6, <3>1 DEF Keeps, Held
    <3> QED  BY <1>1, <1>10, <3>1, <3>2 DEF StagesArePlaces, Same
  <2> QED  BY <2>1, <2>2
<1> QED  BY <1>9, <1>11, LivesIsStep

\* So is every other step: a job changes its stage as it changes its place.
LEMMA LifecycleNext ==
    TypeInv /\ JobInv /\ TypeInv' /\ JobInv' /\ [Next]_vars
        => [Lifecycle!Next]_(Lifecycle!vars)
<1> SUFFICES ASSUME TypeInv, JobInv, TypeInv', JobInv', [Next]_vars
             PROVE  [Lifecycle!Next]_(Lifecycle!vars)
  OBVIOUS
<1>1. CASE \E s \in Schedulers : SchedulerReserve(s)
  BY <1>1, ReserveIsStep
<1>2. CASE \A s \in Schedulers : ~SchedulerReserve(s)
  <2>1. StagesArePlaces /\ StagesArePlaces'
    BY StagesHold, StagesHoldNext
  <2>2. ASSUME NEW i \in Job, NEW p \in Place, i \in Held(p), i \in Held(p)'  PROVE Same(i)
    <3>1. PlaceStage(p)' = PlaceStage(p) /\ PlaceHost(p)' = PlaceHost(p)
      BY <1>2, <2>2, PlacesKeepStages
    <3> QED  BY <2>1, <2>2, <3>1 DEF StagesArePlaces, Same
  <2>3. ASSUME NEW i \in Job, outcome[i] # "accepted", outcome'[i] = outcome[i]
        PROVE  Same(i)
    BY <2>1, <2>3 DEF StagesArePlaces, Unlocated, Same
  <2>4. ASSUME NEW i \in Job, outcome'[i] = outcome[i],
               NEW P \in SUBSET Place, Keeps(P), \A p \in Place \ P : i \notin Held(p)
        PROVE  Same(i)
    <3>1. CASE outcome[i] = "accepted"
      <4>1. PICK p \in P : i \in Held(p)
        BY <2>4, <3>1 DEF JobInv, HeldIfAccepted
      <4> QED  BY <2>2, <2>4, <4>1 DEF Keeps
    <3> QED  BY <2>3, <2>4, <3>1
  <2>5. Kinds
    <3>1. CASE UNCHANGED vars
      <4>1. Stays
        BY <3>1, QuietStep DEF vars, queueVars, waitingVars, workerVars, threadVars, JobInv
      <4> QED  BY <4>1 DEF Kinds
    <3>2. CASE Next
      BY <3>2, CallbackKinds, SchedulerKinds, ReschedulerKinds, WorkerKinds, ClientKinds
         DEF Next
    <3> QED  BY <3>1, <3>2
  <2>6. outcome \in [Job -> Outcomes]
    BY DEF TypeInv, TypeOK, Outcomes
  <2>7. CASE Stays
    <3>1. \A i \in Job : Same(i)
      BY <2>4, <2>7 DEF Stays
    <3>2. CASE Job = {}
      BY <3>2 DEF Lifecycle!vars
    <3>3. CASE Job # {}
      BY <3>1, <3>3, LivesIsStep DEF Lives
    <3> QED  BY <3>2, <3>3
  <2>8. ASSUME NEW j \in Job, NeverEnters(j)  PROVE [Lifecycle!Next]_(Lifecycle!vars)
    <3>1. \A i \in Job \ {j} : Same(i)
      BY <2>4, <2>6, <2>8 DEF NeverEnters
    <3>2. outcome[j] = "unsent" /\ outcome'[j] = "rejected"
      BY <2>6, <2>8 DEF NeverEnters
    <3>3. Lives(j)
      BY <2>1, <3>2 DEF StagesArePlaces, Unlocated, Lives
    <3> QED  BY <3>1, <3>3, LivesIsStep
  <2>9. ASSUME NEW j \in Job, Enters(j, <<"job_queue", 0>>)
        PROVE  [Lifecycle!Next]_(Lifecycle!vars)
    <3> DEFINE a == <<"job_queue", 0>>
    <3>1. ASSUME NEW i \in Job \ {j}  PROVE Same(i)
      <4>1. outcome'[i] = outcome[i]
        BY <2>6, <2>9 DEF Enters
      <4>2. CASE i \in Held(a)
        BY <2>2, <2>9, <4>2, PlacesExist DEF Enters
      <4>3. CASE i \notin Held(a)
        BY <2>4, <2>9, <4>1, <4>3 DEF Enters
      <4> QED  BY <4>2, <4>3
    <3>2. outcome[j] = "unsent" /\ j \in Held(a)' /\ a \in Place
      BY <2>9, PlacesExist DEF Enters
    <3>3. PlaceStage(a)' = "queued" /\ PlaceHost(a)' = NoFit
      BY DEF PlaceStage, PlaceHost
    <3>4. Lives(j)
      BY <2>1, <3>2, <3>3 DEF StagesArePlaces, Unlocated, Lives
    <3> QED  BY <3>1, <3>4, LivesIsStep
  <2>10. ASSUME NEW j \in Job, NEW w \in Workers, Leaves(j, <<"client", w>>)
         PROVE  [Lifecycle!Next]_(Lifecycle!vars)
    <3> DEFINE a == <<"client", w>>
    <3>0. a \in Place
      BY PlacesExist
    <3>1. ASSUME NEW i \in Job \ {j}  PROVE Same(i)
      <4>1. outcome'[i] = outcome[i]
        BY <2>6, <2>10 DEF Leaves
      <4>2. CASE i \in Held(a)
        BY <2>2, <2>10, <3>0, <4>2 DEF Leaves
      <4>3. CASE i \notin Held(a)
        BY <2>4, <2>10, <4>1, <4>3 DEF Leaves
      <4> QED  BY <4>2, <4>3
    <3>2. outcome'[j] = "freed" /\ j \in Held(a)
      BY <2>6, <2>10 DEF Leaves
    <3>3. PlaceStage(a) = "running"
      BY DEF PlaceStage
    <3>4. Lives(j)
      BY <2>1, <3>0, <3>2, <3>3 DEF StagesArePlaces, Unlocated, Lives
    <3> QED  BY <3>1, <3>4, LivesIsStep
  <2>11. ASSUME NEW j \in Job, NEW a \in Place, NEW b \in Place, Hop(a, b), Moves(j, a, b)
         PROVE  [Lifecycle!Next]_(Lifecycle!vars)
    <3>1. ASSUME NEW i \in Job \ {j}  PROVE Same(i)
      <4>1. outcome'[i] = outcome[i]
        BY <2>11 DEF Moves
      <4>2. CASE i \in Held(a)
        BY <2>2, <2>11, <4>2 DEF Moves
      <4>3. CASE i \in Held(b)
        BY <2>2, <2>11, <4>3 DEF Moves
      <4>4. CASE i \notin Held(a) /\ i \notin Held(b)
        BY <2>4, <2>11, <4>1, <4>4 DEF Moves
      <4> QED  BY <4>2, <4>3, <4>4
    <3>2. /\ stageOf(j) = PlaceStage(a) /\ hostOf(j) = PlaceHost(a)
          /\ stageOf(j)' = PlaceStage(b)' /\ hostOf(j)' = PlaceHost(b)'
      BY <2>1, <2>11 DEF StagesArePlaces, Moves
    <3>3. Lives(j)
      <4>1. ASSUME NEW s \in Schedulers, a = <<"job_queue", 0>>, b = <<"scheduler", s>>,
                   sched'[s].pc = "fit"
            PROVE  Lives(j)
        <5>1. /\ PlaceStage(a) = "queued" /\ PlaceHost(a) = NoFit
              /\ PlaceStage(b)' = "queued" /\ PlaceHost(b)' = NoFit
          BY <4>1 DEF PlaceStage, PlaceHost
        <5> QED  BY <3>2, <5>1 DEF Lives, Same
      <4>2. ASSUME NEW s \in Schedulers, a = <<"scheduler", s>>,
                   b = <<"waiting_queue", 0>>, sched[s].pc = "park"
            PROVE  Lives(j)
        <5>1. /\ PlaceStage(a) = "queued" /\ PlaceHost(a) = NoFit
              /\ PlaceStage(b)' = "waiting" /\ PlaceHost(b)' = NoFit
          BY <4>2 DEF PlaceStage, PlaceHost
        <5> QED  BY <3>2, <5>1 DEF Lives
      <4>3. ASSUME NEW s \in Schedulers, NEW w \in Workers, a = <<"scheduler", s>>,
                   b = <<"scheduler_jobs", w>>, sched[s].pc = "add", sched[s].fit = w
            PROVE  Lives(j)
        <5>1. /\ PlaceStage(a) = "placed" /\ PlaceHost(a) = w
              /\ PlaceStage(b)' = "placed" /\ PlaceHost(b)' = w
          BY <4>3 DEF PlaceStage, PlaceHost
        <5> QED  BY <3>2, <5>1 DEF Lives, Same
      <4>4. ASSUME a = <<"waiting_queue", 0>>, b = <<"rescheduler", 0>>,
                   resched'.fit \in Workers
            PROVE  Lives(j)
        <5>1. /\ PlaceStage(a) = "waiting"
              /\ PlaceStage(b)' = "placed" /\ PlaceHost(b)' \in Workers
          BY <4>4 DEF PlaceStage, PlaceHost
        <5> QED  BY <3>2, <5>1 DEF Lives
      <4>5. ASSUME NEW w \in Workers,
                   \/ /\ a = <<"rescheduler", 0>> /\ b = <<"scheduler_jobs", w>>
                      /\ resched.fit = w
                   \/ a = <<"scheduler_jobs", w>> /\ b = <<"worker", w>>
            PROVE  Lives(j)
        <5>1. /\ PlaceStage(a) = "placed" /\ PlaceHost(a) = w
              /\ PlaceStage(b)' = "placed" /\ PlaceHost(b)' = w
          BY <4>5 DEF PlaceStage, PlaceHost
        <5> QED  BY <3>2, <5>1 DEF Lives, Same
      <4>6. ASSUME NEW w \in Workers, a = <<"worker", w>>, b = <<"client", w>>
            PROVE  Lives(j)
        <5>1. /\ PlaceStage(a) = "placed" /\ PlaceHost(a) = w
              /\ PlaceStage(b)' = "running" /\ PlaceHost(b)' = w
          BY <4>6 DEF PlaceStage, PlaceHost
        <5> QED  BY <3>2, <5>1 DEF Lives
      <4>7. ASSUME NEW w \in Workers, b = <<"lost", w>>,
                   a = <<"worker", w>> \/ a = <<"client", w>>, PostMayFail \/ DoneMayFail
            PROVE  Lives(j)
        <5>1. /\ PlaceStage(a) \in {"placed", "running"} /\ PlaceHost(a) = w
              /\ PlaceStage(b)' = "lost" /\ PlaceHost(b)' = w
          BY <4>7 DEF PlaceStage, PlaceHost
        <5> QED  BY <3>2, <4>7, <5>1 DEF Lives
      <4> QED
        BY <2>11, <4>1, <4>2, <4>3, <4>4, <4>5, <4>6, <4>7 DEF Hop
    <3> QED  BY <3>1, <3>3, LivesIsStep
  <2> QED  BY <2>5, <2>7, <2>8, <2>9, <2>10, <2>11 DEF Kinds
<1> QED  BY <1>1, <1>2

\* The life of every job is the one JobLifecycle allows: it is answered once, placed
\* at most once and for good, runs at most once, and is freed at most once, after it ran.
THEOREM LifecycleImplemented == Spec => ImplementsLifecycle
<1>1. Init => Lifecycle!Init
  <2> SUFFICES ASSUME Init  PROVE Lifecycle!Init
    OBVIOUS
  <2>1. TypeInv /\ JobInv
    BY TypeInit, JobInit
  <2>2. \A j \in Job : outcome[j] = "unsent"
    BY DEF Init
  <2>3. \A j \in Job : stageOf(j) = "unsent" /\ hostOf(j) = NoFit
    BY <2>1, <2>2, StageNowhere
  <2> QED  BY <2>3 DEF Lifecycle!Init
<1> QED
  BY <1>1, LifecycleNext, TypeInvariant, JobInvariant, PTL
     DEF Spec, ImplementsLifecycle, Lifecycle!Spec

--------------------------------------------------------------------------------
(* Remainders. *)

\* Zero is the only multiple of m between -m and m.
LEMMA NoSmallMultiple ==
    ASSUME NEW m \in Nat \ {0}, NEW t \in Int, m * t < m, -m < m * t
    PROVE  t = 0
<1>1. t >= 1 => m * t >= m
  OBVIOUS
<1>2. t <= -1 => m * t <= -m
  OBVIOUS
<1> QED  BY <1>1, <1>2

\* Dividing with remainder.
LEMMA Division ==
    ASSUME NEW m \in Nat \ {0}, NEW x \in Int
    PROVE  \E q \in Int, r \in 0..(m - 1) : x = m * q + r /\ x % m = r
<1>1. x \div m \in Int /\ x % m \in 0..(m - 1) /\ m * (x \div m) \in Int
  OBVIOUS
<1>2. x % m = x - m * (x \div m)
  OBVIOUS
<1>3. x = m * (x \div m) + (x % m)
  BY <1>1, <1>2
<1>4. \A q \in Int, r \in 0..(m - 1) : q = x \div m /\ r = x % m => x = m * q + r /\ x % m = r
  BY <1>3
<1> QED  BY <1>1, <1>4

\* The remainder is unique.
LEMMA Remainder ==
    ASSUME NEW m \in Nat \ {0}, NEW q \in Int, NEW r \in 0..(m - 1), NEW x \in Int,
           x = m * q + r
    PROVE  x % m = r
<1>1. PICK p \in Int, s \in 0..(m - 1) : x = m * p + s /\ x % m = s
  BY Division
<1>2. m * q \in Int /\ m * p \in Int /\ q - p \in Int /\ m * (q - p) = m * q - m * p
  OBVIOUS
<1>3. m * (q - p) = s - r
  BY <1>1, <1>2
<1>4. q - p = 0
  BY <1>2, <1>3, NoSmallMultiple
<1>5. q = p
  BY <1>4
<1> QED  BY <1>1, <1>2, <1>5

\* Reducing a term first does not change the remainder of a sum.
LEMMA RemainderOfSum ==
    ASSUME NEW m \in Nat \ {0}, NEW x \in Int, NEW y \in Int
    PROVE  ((x % m) + y) % m = (x + y) % m
<1>1. PICK a \in Int, r \in 0..(m - 1) : x = m * a + r /\ x % m = r
  BY Division
<1>2. PICK z \in Int : z = r + y
  OBVIOUS
<1>3. PICK b \in Int, s \in 0..(m - 1) : z = m * b + s /\ z % m = s
  BY Division
<1>4. a + b \in Int /\ m * a \in Int /\ m * b \in Int /\ m * (a + b) = m * a + m * b
  OBVIOUS
<1>5. PICK u \in Int : u = x + y
  OBVIOUS
<1>6. u = m * (a + b) + s
  BY <1>1, <1>2, <1>3, <1>4, <1>5
<1>7. u % m = s
  BY <1>4, <1>6, Remainder
<1> QED  BY <1>1, <1>2, <1>3, <1>5, <1>7

\* Nor does reducing first by a multiple of the divisor.
LEMMA RemainderOfRemainder ==
    ASSUME NEW m \in Nat \ {0}, NEW n \in Nat \ {0}, n % m = 0, NEW x \in Int
    PROVE  (x % n) % m = x % m
<1>1. PICK a \in Int, r \in 0..(n - 1) : x = n * a + r /\ x % n = r
  BY Division
<1>2. r \in Int /\ n \in Int
  OBVIOUS
<1>3. PICK b \in Int, s \in 0..(m - 1) : r = m * b + s /\ r % m = s
  BY <1>2, Division
<1>4. PICK c \in Int : n = m * c
  BY <1>2, Division
<1>5. c * a \in Int /\ c * a + b \in Int
  OBVIOUS
<1>6. n * a = m * (c * a)
  BY <1>4
<1>7. m * (c * a + b) = m * (c * a) + m * b
  BY <1>5
<1>8. x = m * (c * a + b) + s
  BY <1>1, <1>3, <1>5, <1>6, <1>7
<1>9. x % m = s
  BY <1>5, <1>8, Remainder
<1> QED  BY <1>1, <1>3, <1>9

-------------------------------------------------------------------------------
(* The conversions of C. *)

\* A counter may be reduced to its type at every step or once at the end, and an
\* unsigned long may be narrowed to an int without another result.
LEMMA Conversions ==
    ASSUME NEW x \in Int, NEW q \in Int
    PROVE  /\ ULong(ULong(x) + q) = ULong(x + q)
           /\ UInt(UInt(x) + q) = UInt(x + q)
           /\ SInt(SInt(x) + q) = SInt(x + q)
           /\ SInt(ULong(x)) = SInt(x)
           /\ ULong(x) \in Int /\ UInt(x) \in Int /\ SInt(x) \in Int
<1>1. /\ UINT_MOD \in Nat \ {0} /\ ULONG_MOD \in Nat \ {0} /\ ULONG_MOD % UINT_MOD = 0
      /\ x + q \in Int /\ ULong(x) \in Int /\ UInt(x) \in Int /\ SInt(x) \in Int
  BY ConstantsType, ConversionType, WordsAssumption
<1>2. ULong(ULong(x) + q) = ULong(x + q) /\ UInt(UInt(x) + q) = UInt(x + q)
  BY <1>1, RemainderOfSum DEF ULong, UInt
<1>3. \A a, b \in Int : UInt(a) = UInt(b) => SInt(a) = SInt(b)
  BY DEF SInt
<1>4. UInt(SInt(x)) = UInt(x)
  <2>1. UInt(x) \in 0..(UINT_MOD - 1) /\ UInt(x) - UINT_MOD \in Int
    BY <1>1, ConversionType
  <2>2. UInt(x) = UINT_MOD * 0 + UInt(x) /\ UInt(x) - UINT_MOD = UINT_MOD * (-1) + UInt(x)
    BY <1>1, <2>1
  <2>3. UInt(x) % UINT_MOD = UInt(x) /\ (UInt(x) - UINT_MOD) % UINT_MOD = UInt(x)
    BY <1>1, <2>1, <2>2, Remainder
  <2> QED  BY <2>3 DEF SInt, UInt
<1>5. SInt(SInt(x) + q) = SInt(x + q)
  <2>1. UInt(UInt(SInt(x)) + q) = UInt(SInt(x) + q)
    BY <1>1, RemainderOfSum DEF UInt
  <2>2. SInt(x) + q \in Int
    BY <1>1
  <2> QED  BY <1>1, <1>2, <1>3, <1>4, <2>1, <2>2
<1>6. SInt(ULong(x)) = SInt(x)
  <2>1. UInt(ULong(x)) = UInt(x)
    BY <1>1, RemainderOfRemainder DEF UInt, ULong
  <2> QED  BY <1>1, <1>3, <2>1
<1> QED  BY <1>1, <1>2, <1>5, <1>6

\* What a word of the range of an int, or not far below zero, reads as.
LEMMA SmallInt ==
    ASSUME NEW x \in Int, x <= MAX_RESOURCES, -(UINT_MOD \div 2) <= x
    PROVE  SInt(x) = x /\ (x >= 0 => ULong(x) = x)
<1>1. /\ UINT_MOD \in Nat \ {0} /\ ULONG_MOD \in Nat \ {0} /\ MAX_RESOURCES \in Nat
      /\ 2 * MAX_RESOURCES < UINT_MOD /\ UINT_MOD <= ULONG_MOD /\ UINT_MOD % 2 = 0
  BY ConstantsType, CapacityFits, WordsAssumption
<1>2. CASE x >= 0
  <2>1. x \in 0..(UINT_MOD - 1) /\ x \in 0..(ULONG_MOD - 1)
    BY <1>1, <1>2
  <2>2. UInt(x) = x /\ ULong(x) = x
    <3>1. x = UINT_MOD * 0 + x /\ x = ULONG_MOD * 0 + x
      BY <1>1
    <3> QED  BY <1>1, <2>1, <3>1, Remainder DEF UInt, ULong
  <2>3. x < UINT_MOD \div 2
    BY <1>1, <1>2
  <2> QED  BY <2>2, <2>3 DEF SInt
<1>3. CASE x < 0
  <2>1. x + UINT_MOD \in 0..(UINT_MOD - 1) /\ ~(x + UINT_MOD < UINT_MOD \div 2)
    BY <1>1, <1>3
  <2>2. x = UINT_MOD * (-1) + (x + UINT_MOD)
    BY <1>1
  <2>3. UInt(x) = x + UINT_MOD
    BY <1>1, <2>1, <2>2, Remainder DEF UInt
  <2> QED  BY <1>1, <1>3, <2>1, <2>3 DEF SInt
<1> QED  BY <1>2, <1>3

-------------------------------------------------------------------------------
(* When units are reserved. *)

\* Units are reserved for the jobs that have the worker as their host.
LEMMA ReservedByHost ==
    ASSUME TypeInv, JobInv, NEW w \in Workers
    PROVE  Reserved(w) = {j \in Job : hostOf(j) = w}
<1>1. Reserved(w) \subseteq Job
  <2>1. scheduler_jobs[w] \in Seq(Job) /\ client[w] \subseteq Job /\ lost[w] \subseteq Job
    BY DEF TypeInv, TypeOK
  <2>2. ToSet(scheduler_jobs[w]) \subseteq Job
    BY <2>1 DEF ToSet
  <2> QED  BY <2>1, <2>2 DEF Reserved, Placed, BeingAdded
<1>2. ASSUME NEW j \in Job  PROVE j \in Reserved(w) <=> hostOf(j) = w
  <2>1. CASE outcome[j] = "accepted"
    <3>1. PICK p \in Place : j \in Held(p)
      BY <2>1 DEF JobInv, HeldIfAccepted
    <3> QED  BY <3>1, ReservedAt, StageAt
  <2>2. CASE outcome[j] # "accepted"
    <3>1. hostOf(j) = NoFit /\ NoFit \notin Workers
      BY <2>2, StageNowhere, ConstantsType
    <3>2. ASSUME j \in Reserved(w)  PROVE FALSE
      <4>1. hostOf(j) \in Workers
        BY <3>2 DEF hostOf
      <4> QED  BY <3>1, <4>1
    <3> QED  BY <3>1, <3>2
  <2> QED  BY <2>1, <2>2
<1> QED  BY <1>1, <1>2

\* And so they are after a step.
LEMMA ReservedByHostNext ==
    TypeInv' /\ JobInv' => (\A w \in Workers : Reserved(w) = {j \in Job : hostOf(j) = w})'
<1>1. TypeInv /\ JobInv => \A w \in Workers : Reserved(w) = {j \in Job : hostOf(j) = w}
  BY ReservedByHost
<1> QED  BY <1>1, PTL

\* The three actions that reserve or free.
Reserving == (\E s \in Schedulers : SchedulerReserve(s)) \/ ReschedulerReserve
Freeing   == \E h \in Handlers, w \in Workers, j \in Job : job_done(h, w, j)

\* Every step is of one of the kinds.
LEMMA NextKinds == TypeInv /\ JobInv /\ [Next]_vars => Kinds
<1> SUFFICES ASSUME TypeInv, JobInv, [Next]_vars  PROVE Kinds
  OBVIOUS
<1>1. CASE UNCHANGED vars
  <2>1. Stays
    BY <1>1, QuietStep DEF vars, queueVars, waitingVars, workerVars, threadVars, JobInv
  <2> QED  BY <2>1 DEF Kinds
<1>2. CASE Next
  BY <1>2, CallbackKinds, SchedulerKinds, ReschedulerKinds, WorkerKinds, ClientKinds
     DEF Next
<1> QED  BY <1>1, <1>2

\* Only a completion frees a job, and only the reservation gives the rescheduler one.
LEMMA OnlyThere ==
    ASSUME TypeInv, HandsAreEmpty, [Next]_vars
    PROVE  /\ (\E j \in Job : outcome[j] # "freed" /\ outcome'[j] = "freed") => Freeing
           /\ resched.node # resched'.node /\ resched'.node # NULL => ReschedulerReserve
<1>1. ASSUME NEW j \in Job, outcome[j] # "freed", outcome'[j] = "freed"  PROVE Freeing
  <2>1. outcome \in [Job -> Outcomes] /\ outcome' # outcome
    BY <1>1 DEF TypeInv, TypeOK, Outcomes
  <2>2. ASSUME NEW h \in Handlers, NEW i \in Job, schedule(h, i)  PROVE FALSE
    BY <1>1, <2>1, <2>2 DEF schedule
  <2> QED
    BY <2>1, <2>2 DEF Freeing, Next, vars, clientVars, Handler, schedule_notify,
       job_done_notify, Scheduler, SchedulerWait, SchedulerDequeue, SchedulerFit,
       SchedulerPark, SchedulerReserve, SchedulerAddJob, SchedulerPost, Rescheduler,
       ReschedulerWait, ReschedulerLock, ReschedulerCheck, ReschedulerReserve,
       ReschedulerAddJob, ReschedulerPost, ClusterWorker, WorkerWait, WorkerDequeue,
       WorkerPost, ClientDoneLost
<1>2. ASSUME resched.node # resched'.node, resched'.node # NULL  PROVE ReschedulerReserve
  <2>1. /\ resched \in [pc : ReschedPc, node : Job \cup {NULL}, fit : Workers \cup {NoFit}]
        /\ resched' # resched
    BY <1>2 DEF TypeInv, TypeOK
  <2>2. Rescheduler
    BY <2>1 DEF Next, vars, threadVars, Handler, schedule, schedule_notify, job_done,
       job_done_notify, Scheduler, SchedulerWait, SchedulerDequeue, SchedulerFit,
       SchedulerPark, SchedulerReserve, SchedulerAddJob, SchedulerPost, ClusterWorker,
       WorkerWait, WorkerDequeue, WorkerPost, ClientDoneLost
  <2>3. ~(ReschedulerWait \/ ReschedulerLock \/ ReschedulerAddJob \/ ReschedulerPost)
    BY <1>2, <2>1 DEF ReschedulerWait, ReschedulerLock, ReschedulerAddJob,
                      ReschedulerPost, Idle
  <2>4. ASSUME ReschedulerCheck  PROVE FALSE
    <3>1. \/ resched' = Idle
          \/ \E f : resched' = [resched EXCEPT !.pc = "reserve", !.fit = f]
      BY <2>4, Zenon DEF ReschedulerCheck
    <3>2. \A f : [resched EXCEPT !.pc = "reserve", !.fit = f].node = resched.node
      BY <2>1
    <3>3. Idle.node = NULL
      BY DEF Idle
    <3> QED  BY <1>2, <3>1, <3>2, <3>3
  <2> QED  BY <2>2, <2>3, <2>4 DEF Rescheduler
<1> QED  BY <1>1, <1>2

\* No other step gives a job a host or takes it away.
LEMMA HostsKept ==
    ASSUME TypeInv, JobInv, TypeInv', JobInv', [Next]_vars, ~Reserving, ~Freeing,
           NEW i \in Job
    PROVE  hostOf(i)' = hostOf(i)
<1>1. StagesArePlaces /\ StagesArePlaces' /\ Kinds
  BY StagesHold, StagesHoldNext, NextKinds
<1>2. ASSUME NEW p \in Place, i \in Held(p), i \in Held(p)'
      PROVE  hostOf(i)' = hostOf(i)
  <2>1. PlaceHost(p)' = PlaceHost(p)
    BY <1>2, PlacesKeepStages DEF Reserving
  <2> QED  BY <1>1, <1>2, <2>1 DEF StagesArePlaces
<1>3. ASSUME outcome[i] # "accepted", outcome'[i] # "accepted"
      PROVE  hostOf(i)' = hostOf(i)
  BY <1>1, <1>3 DEF StagesArePlaces, Unlocated
<1>4. ASSUME outcome'[i] = outcome[i],
             NEW P \in SUBSET Place, Keeps(P), \A p \in Place \ P : i \notin Held(p)
      PROVE  hostOf(i)' = hostOf(i)
  <2>1. CASE outcome[i] = "accepted"
    <3>1. PICK p \in P : i \in Held(p)
      BY <1>4, <2>1 DEF JobInv, HeldIfAccepted
    <3> QED  BY <1>2, <1>4, <3>1 DEF Keeps
  <2> QED  BY <1>3, <1>4, <2>1
<1>5. outcome \in [Job -> Outcomes]
  BY DEF TypeInv, TypeOK, Outcomes
<1>6. CASE Stays
  BY <1>4, <1>6 DEF Stays
<1>7. ASSUME NEW j \in Job, NeverEnters(j)  PROVE hostOf(i)' = hostOf(i)
  BY <1>3, <1>4, <1>5, <1>7 DEF NeverEnters
<1>8. ASSUME NEW j \in Job, Enters(j, <<"job_queue", 0>>)  PROVE hostOf(i)' = hostOf(i)
  <2> DEFINE a == <<"job_queue", 0>>
  <2>1. a \in Place /\ PlaceHost(a)' = NoFit
    BY PlacesExist DEF PlaceHost
  <2>2. CASE i = j
    <3>1. hostOf(i) = NoFit /\ i \in Held(a)'
      BY <1>1, <1>8, <2>2 DEF StagesArePlaces, Unlocated, Enters
    <3> QED  BY <1>1, <2>1, <3>1 DEF StagesArePlaces
  <2>3. CASE i # j /\ i \in Held(a)
    BY <1>2, <1>8, <2>1, <2>3 DEF Enters
  <2>4. CASE i # j /\ i \notin Held(a)
    <3>1. outcome'[i] = outcome[i]
      BY <1>5, <1>8, <2>4 DEF Enters
    <3> QED  BY <1>4, <1>8, <2>4, <3>1 DEF Enters
  <2> QED  BY <2>2, <2>3, <2>4
<1>9. ASSUME NEW j \in Job, NEW w \in Workers, Leaves(j, <<"client", w>>)  PROVE FALSE
  <2>1. outcome[j] = "accepted" /\ outcome'[j] = "freed"
    BY <1>5, <1>9, PlacesExist DEF Leaves, JobInv, HeldIfAccepted
  <2> QED  BY <2>1, OnlyThere DEF JobInv
<1>10. ASSUME NEW j \in Job, NEW a \in Place, NEW b \in Place, Hop(a, b), Moves(j, a, b)
       PROVE  hostOf(i)' = hostOf(i)
  <2>1. outcome'[i] = outcome[i]
    BY <1>10 DEF Moves
  <2>2. CASE i # j /\ i \in Held(a)
    BY <1>2, <1>10, <2>2 DEF Moves
  <2>3. CASE i # j /\ i \in Held(b)
    BY <1>2, <1>10, <2>3 DEF Moves
  <2>4. CASE i \notin Held(a) /\ i \notin Held(b)
    BY <1>4, <1>10, <2>1, <2>4 DEF Moves
  <2>5. CASE i = j
    <3>1. hostOf(j) = PlaceHost(a) /\ hostOf(j)' = PlaceHost(b)'
      BY <1>1, <1>10 DEF StagesArePlaces, Moves
    <3>2. ASSUME b = <<"rescheduler", 0>>  PROVE FALSE
      <4>1. j \in Held(b)' /\ j \notin Held(b)
        BY <1>10 DEF Moves, JobInv, PlacesAreDisjoint
      <4>2. resched.node # resched'.node /\ resched'.node # NULL
        BY <3>2, <4>1 DEF Held
      <4> QED  BY <4>2, OnlyThere DEF JobInv, Reserving
    <3>3. ASSUME NEW s \in Schedulers,
                 \/ a = <<"job_queue", 0>> /\ b = <<"scheduler", s>> /\ sched'[s].pc = "fit"
                 \/ a = <<"scheduler", s>> /\ b = <<"waiting_queue", 0>> /\ sched[s].pc = "park"
          PROVE  PlaceHost(a) = PlaceHost(b)'
      BY <3>3 DEF PlaceHost
    <3>4. ASSUME NEW s \in Schedulers, NEW w \in Workers,
                 a = <<"scheduler", s>>, b = <<"scheduler_jobs", w>>,
                 sched[s].pc = "add", sched[s].fit = w
          PROVE  PlaceHost(a) = PlaceHost(b)'
      BY <3>4 DEF PlaceHost
    <3>5. ASSUME NEW w \in Workers,
                 \/ a = <<"rescheduler", 0>> /\ b = <<"scheduler_jobs", w>> /\ resched.fit = w
                 \/ a = <<"scheduler_jobs", w>> /\ b = <<"worker", w>>
                 \/ a = <<"worker", w>> /\ b = <<"client", w>>
                 \/ a = <<"worker", w>> /\ b = <<"lost", w>>
                 \/ a = <<"client", w>> /\ b = <<"lost", w>>
          PROVE  PlaceHost(a) = PlaceHost(b)'
      BY <3>5 DEF PlaceHost
    <3>6. PlaceHost(a) = PlaceHost(b)'
      BY <1>10, <3>2, <3>3, <3>4, <3>5 DEF Hop
    <3> QED  BY <2>5, <3>1, <3>6
  <2> QED  BY <2>2, <2>3, <2>4, <2>5
<1> QED  BY <1>1, <1>6, <1>7, <1>8, <1>9, <1>10 DEF Kinds

\* What a step does to the books: nothing, or one job more or less for one worker.
OthersReserved(w) == \A v \in Workers \ {w} : Reserved(v)' = Reserved(v)
Reserves(w, j) ==
    /\ pronto_reserve_capacity(w, Request[j])
    /\ j \in Job \ Reserved(w) /\ Reserved(w)' = Reserved(w) \cup {j} /\ OthersReserved(w)
Frees(w, j) ==
    /\ pronto_free_capacity(w, Request[j])
    /\ j \in Reserved(w) /\ Reserved(w)' = Reserved(w) \ {j} /\ OthersReserved(w)
BooksKept == bookVars' = bookVars /\ \A w \in Workers : Reserved(w)' = Reserved(w)

\* A scheduler reserves for the job it holds.
LEMMA SchedulerReserves ==
    ASSUME TypeInv, JobInv, NEW s \in Schedulers, SchedulerReserve(s)
    PROVE  Reserves(sched[s].fit, sched[s].node)
<1> DEFINE w == sched[s].fit
           j == sched[s].node
           here == <<"scheduler", s>>
<1>1. /\ sched \in [Schedulers -> [pc   : SchedPc,
                                   node : Job \cup {NULL},
                                   fit  : Workers \cup {NoFit}]]
      /\ sched' = [sched EXCEPT ![s].pc = "add"] /\ sched[s].pc = "reserve"
      /\ w \in Workers /\ j \in Job /\ j # NULL /\ here \in Place
  BY ProntoAssumption, PlacesExist
     DEF SchedulerReserve, TypeInv, TypeOK, ThreadsHoldJobs
<1>2. /\ sched'[s].pc = "add" /\ sched'[s].node = j /\ sched'[s].fit = w
      /\ \A t \in Schedulers \ {s} : sched'[t] = sched[t]
      /\ UNCHANGED <<resched, scheduler_jobs, worker, client, lost>>
  BY <1>1 DEF SchedulerReserve, workerVars, clientVars
<1>3. j \in Held(here) /\ PlaceHost(here) = NoFit
  BY <1>1 DEF Held, PlaceHost
<1>4. \A v \in Workers : j \notin Reserved(v)
  BY <1>1, <1>3, ReservedAt, ConstantsType
<1>5. BeingAdded(w)' = BeingAdded(w) \cup {j}
  BY <1>1, <1>2 DEF BeingAdded
<1>6. \A v \in Workers \ {w} : BeingAdded(v)' = BeingAdded(v)
  BY <1>1, <1>2 DEF BeingAdded
<1>7. /\ Reserved(w)' = Reserved(w) \cup {j}
      /\ \A v \in Workers \ {w} : Reserved(v)' = Reserved(v)
  BY <1>2, <1>5, <1>6 DEF Reserved, Placed
<1>8. pronto_reserve_capacity(w, Request[j])
  BY DEF SchedulerReserve
<1> QED  BY <1>1, <1>4, <1>7, <1>8 DEF Reserves, OthersReserved

\* The rescheduler reserves for the head of the waiting queue.
LEMMA ReschedulerReserves ==
    ASSUME TypeInv, JobInv, ReschedulerReserve
    PROVE  Reserves(resched.fit, Head(waiting_queue))
<1> DEFINE w == resched.fit
           j == Head(waiting_queue)
           here == <<"waiting_queue", 0>>
<1>1. /\ resched \in [pc : ReschedPc, node : Job \cup {NULL}, fit : Workers \cup {NoFit}]
      /\ resched.pc = "reserve" /\ resched' = [resched EXCEPT !.pc = "add", !.node = j]
      /\ w \in Workers /\ waiting_queue \in Seq(Job) /\ waiting_queue # <<>>
      /\ here \in Place
  BY PlacesExist DEF ReschedulerReserve, TypeInv, TypeOK, ThreadsHoldJobs
<1>2. j \in Job /\ j \in ToSet(waiting_queue)
  BY <1>1, DequeueHolds DEF JobInv, QueuesHoldOnce
<1>3. /\ resched'.pc = "add" /\ resched'.node = j /\ resched'.fit = w
      /\ UNCHANGED <<sched, scheduler_jobs, worker, client, lost>>
  BY <1>1 DEF ReschedulerReserve, workerVars, clientVars
<1>4. j \in Held(here) /\ PlaceHost(here) = NoFit
  BY <1>2 DEF Held, PlaceHost
<1>5. \A v \in Workers : j \notin Reserved(v)
  BY <1>1, <1>2, <1>4, ReservedAt, ConstantsType
<1>6. BeingAdded(w)' = BeingAdded(w) \cup {j}
  BY <1>1, <1>2, <1>3 DEF BeingAdded
<1>7. \A v \in Workers \ {w} : BeingAdded(v)' = BeingAdded(v)
  BY <1>1, <1>3 DEF BeingAdded
<1>8. /\ Reserved(w)' = Reserved(w) \cup {j}
      /\ \A v \in Workers \ {w} : Reserved(v)' = Reserved(v)
  BY <1>3, <1>6, <1>7 DEF Reserved, Placed
<1>9. pronto_reserve_capacity(w, Request[j])
  BY DEF ReschedulerReserve
<1> QED  BY <1>1, <1>2, <1>5, <1>8, <1>9 DEF Reserves, OthersReserved

\* A completion frees the units of its job.
LEMMA CompletionFrees ==
    ASSUME TypeInv, JobInv, NEW h \in Handlers, NEW w \in Workers, NEW j \in Job,
           job_done(h, w, j)
    PROVE  Frees(w, j)
<1> DEFINE here == <<"client", w>>
<1>1. /\ client \in [Workers -> SUBSET Job] /\ j \in client[w]
      /\ client' = [client EXCEPT ![w] = client[w] \ {j}]
      /\ UNCHANGED <<sched, resched, scheduler_jobs, worker, lost>>
      /\ pronto_free_capacity(w, Request[j])
  BY DEF job_done, TypeInv, TypeOK, workerVars
<1>2. here \in Place /\ j \in Held(here)
  BY <1>1, PlacesExist DEF Held
<1>3. j \in Reserved(w) /\ j \notin Placed(w) /\ j \notin lost[w]
  <2>1. PlaceStage(here) = "running" /\ PlaceHost(here) = w
    BY DEF PlaceStage, PlaceHost
  <2> QED  BY <1>2, <2>1, ReservedAt
<1>4. \A v \in Workers : Placed(v)' = Placed(v)
  BY <1>1 DEF Placed, BeingAdded
<1>5. Reserved(w)' = Reserved(w) \ {j} /\ \A v \in Workers \ {w} : Reserved(v)' = Reserved(v)
  BY <1>1, <1>3, <1>4 DEF Reserved
<1> QED  BY <1>1, <1>3, <1>5 DEF Frees, OthersReserved

\* Every step is one of these, or leaves the books alone.
LEMMA BookSteps ==
    ASSUME TypeInv, JobInv, TypeInv', JobInv', [Next]_vars
    PROVE  \/ BooksKept /\ ~Reserving /\ ~Freeing
           \/ \E s \in Schedulers :
                SchedulerReserve(s) /\ Reserves(sched[s].fit, sched[s].node)
           \/ ReschedulerReserve /\ Reserves(resched.fit, Head(waiting_queue))
           \/ \E h \in Handlers, w \in Workers, j \in Job :
                job_done(h, w, j) /\ Frees(w, j)
<1>1. CASE Reserving \/ Freeing
  BY <1>1, SchedulerReserves, ReschedulerReserves, CompletionFrees DEF Reserving, Freeing
<1>2. CASE ~Reserving /\ ~Freeing
  <2>1. bookVars' = bookVars
    BY <1>2 DEF Reserving, Freeing, Next, vars, Handler, schedule, schedule_notify,
       job_done_notify, Scheduler, SchedulerWait, SchedulerDequeue, SchedulerFit,
       SchedulerPark, SchedulerAddJob, SchedulerPost, Rescheduler, ReschedulerWait,
       ReschedulerLock, ReschedulerCheck, ReschedulerAddJob, ReschedulerPost,
       ClusterWorker, WorkerWait, WorkerDequeue, WorkerPost, ClientDoneLost
  <2>2. \A i \in Job : hostOf(i)' = hostOf(i)
    BY <1>2, HostsKept
  <2>3. ASSUME NEW w \in Workers  PROVE Reserved(w)' = Reserved(w)
    <3>1. Reserved(w) = {j \in Job : hostOf(j) = w}
      BY ReservedByHost
    <3>2. Reserved(w)' = {j \in Job : hostOf(j)' = w}
      BY ReservedByHostNext
    <3> QED  BY <2>2, <3>1, <3>2
  <2> QED  BY <1>2, <2>1, <2>3 DEF BooksKept
<1> QED  BY <1>1, <1>2

-------------------------------------------------------------------------------
(* Counting. *)

\* The units of a job are as many as it asks for.
LEMMA CountUnits ==
    ASSUME NEW A, IsFiniteSet(A), NEW x, NEW q \in Nat, \A u \in 1..q : <<x, u>> \notin A
    PROVE  /\ IsFiniteSet(A \cup ({x} \X (1..q)))
           /\ Cardinality(A \cup ({x} \X (1..q))) = Cardinality(A) + q
<1> DEFINE B == {x} \X (1..q)
<1>1. IsFiniteSet({x}) /\ Cardinality({x}) = 1
  BY FS_Singleton
<1>2. IsFiniteSet(1..q) /\ Cardinality(1..q) = q
  BY FS_Interval
<1>3. IsFiniteSet(B) /\ Cardinality(B) = q
  <2>1. IsFiniteSet(B) /\ Cardinality(B) = Cardinality({x}) * Cardinality(1..q)
    BY <1>1, <1>2, FS_Product
  <2> QED  BY <1>1, <1>2, <2>1
<1>4. A \cap B = {}
  OBVIOUS
<1> HIDE DEF B
<1>5. /\ IsFiniteSet(A \cup B)
      /\ Cardinality(A \cup B) = Cardinality(A) + Cardinality(B) - Cardinality({})
  BY <1>3, <1>4, FS_Union
<1>6. Cardinality({}) = 0 /\ Cardinality(A) \in Nat
  BY FS_EmptySet, FS_CardinalityType
<1> QED  BY <1>3, <1>5, <1>6 DEF B

\* One job more has its own units more.
LEMMA UnitsOfOneMore ==
    ASSUME NEW w, NEW jobs, NEW j \in Job \ jobs
    PROVE  /\ Units(w, jobs \cup {j}) = Units(w, jobs) \cup ({<<w, j>>} \X (1..Request[j]))
           /\ \A u \in 1..Request[j] : <<<<w, j>>, u>> \notin Units(w, jobs)
BY DEF Units

\* What is reserved is finite, so that it can be counted.
FinitelyReserved ==
    /\ \A w \in Workers : IsFiniteSet(Reserved(w)) /\ IsFiniteSet(ReservedUnits(w))
    /\ IsFiniteSet(AllReservedUnits)

\* With one job more for a worker, its sums and that of the cluster grow by the
\* units of the job.
CountsMore(w, j) ==
    /\ Cardinality(Reserved(w))' = Cardinality(Reserved(w)) + 1
    /\ Load(w)' = Load(w) + Request[j]
    /\ Cardinality(AllReservedUnits)' = Cardinality(AllReservedUnits) + Request[j]
    /\ \A v \in Workers \ {w} :
         Cardinality(Reserved(v))' = Cardinality(Reserved(v)) /\ Load(v)' = Load(v)
CountsLess(w, j) ==
    /\ Cardinality(Reserved(w))' = Cardinality(Reserved(w)) - 1
    /\ Load(w)' = Load(w) - Request[j]
    /\ Cardinality(AllReservedUnits)' = Cardinality(AllReservedUnits) - Request[j]
    /\ \A v \in Workers \ {w} :
         Cardinality(Reserved(v))' = Cardinality(Reserved(v)) /\ Load(v)' = Load(v)

\* The units of the cluster, when those of one worker change.
LEMMA AllUnitsSplit ==
    ASSUME NEW w \in Workers, NEW B
    PROVE  /\ /\ ReservedUnits(w)' = ReservedUnits(w) \cup B
              /\ \A v \in Workers \ {w} : ReservedUnits(v)' = ReservedUnits(v)
              => AllReservedUnits' = AllReservedUnits \cup B
           /\ /\ ReservedUnits(w) = ReservedUnits(w)' \cup B
              /\ \A v \in Workers \ {w} : ReservedUnits(v)' = ReservedUnits(v)
              => AllReservedUnits = AllReservedUnits' \cup B
BY DEF AllReservedUnits

\* Nobody else has units of job j on worker w.
LEMMA UnitsApart ==
    ASSUME NEW w \in Workers, NEW j, NEW u, <<<<w, j>>, u>> \notin ReservedUnits(w)
    PROVE  <<<<w, j>>, u>> \notin AllReservedUnits
BY DEF AllReservedUnits, ReservedUnits, Units

\* A reservation.
LEMMA CountsReservation ==
    ASSUME FinitelyReserved, NEW w \in Workers, NEW j, Reserves(w, j)
    PROVE  FinitelyReserved' /\ CountsMore(w, j)
<1> DEFINE B == {<<w, j>>} \X (1..Request[j])
<1>1. /\ j \in Job \ Reserved(w) /\ Reserved(w)' = Reserved(w) \cup {j}
      /\ \A v \in Workers \ {w} : Reserved(v)' = Reserved(v)
      /\ Request[j] \in Nat
  BY ConstantsType DEF Reserves, OthersReserved
<1>2. /\ ReservedUnits(w)' = ReservedUnits(w) \cup B
      /\ \A u \in 1..Request[j] : <<<<w, j>>, u>> \notin ReservedUnits(w)
      /\ \A v \in Workers \ {w} : ReservedUnits(v)' = ReservedUnits(v)
  BY <1>1, UnitsOfOneMore DEF ReservedUnits
<1>3. /\ AllReservedUnits' = AllReservedUnits \cup B
      /\ \A u \in 1..Request[j] : <<<<w, j>>, u>> \notin AllReservedUnits
  BY <1>2, AllUnitsSplit, UnitsApart
<1>4. /\ IsFiniteSet(ReservedUnits(w)') /\ IsFiniteSet(AllReservedUnits')
      /\ Cardinality(ReservedUnits(w)') = Cardinality(ReservedUnits(w)) + Request[j]
      /\ Cardinality(AllReservedUnits') = Cardinality(AllReservedUnits) + Request[j]
  <2>1. PICK q \in Nat : q = Request[j]
    BY <1>1
  <2> DEFINE x == <<w, j>>
  <2>2. /\ ReservedUnits(w)' = ReservedUnits(w) \cup ({x} \X (1..q))
        /\ AllReservedUnits' = AllReservedUnits \cup ({x} \X (1..q))
        /\ \A u \in 1..q : <<x, u>> \notin ReservedUnits(w)
        /\ \A u \in 1..q : <<x, u>> \notin AllReservedUnits
        /\ IsFiniteSet(ReservedUnits(w)) /\ IsFiniteSet(AllReservedUnits)
    BY <1>2, <1>3, <2>1 DEF FinitelyReserved
  <2> HIDE DEF x
  <2>3. /\ IsFiniteSet(ReservedUnits(w)')
        /\ Cardinality(ReservedUnits(w)') = Cardinality(ReservedUnits(w)) + q
    <3>1. PICK A : A = ReservedUnits(w)
      OBVIOUS
    <3>2. IsFiniteSet(A) /\ \A u \in 1..q : <<x, u>> \notin A
      BY <2>2, <3>1
    <3>3. /\ IsFiniteSet(A \cup ({x} \X (1..q)))
          /\ Cardinality(A \cup ({x} \X (1..q))) = Cardinality(A) + q
      BY <3>2, CountUnits
    <3> QED  BY <2>2, <3>1, <3>3
  <2>4. /\ IsFiniteSet(AllReservedUnits')
        /\ Cardinality(AllReservedUnits') = Cardinality(AllReservedUnits) + q
    BY <2>2, CountUnits
  <2> QED  BY <2>1, <2>3, <2>4
<1>5. /\ IsFiniteSet(Reserved(w)')
      /\ Cardinality(Reserved(w)') = Cardinality(Reserved(w)) + 1
  BY <1>1, FS_AddElement DEF FinitelyReserved
<1>6. FinitelyReserved'
  BY <1>1, <1>2, <1>4, <1>5 DEF FinitelyReserved
<1>7. CountsMore(w, j)
  BY <1>1, <1>2, <1>4, <1>5 DEF CountsMore, Load
<1> QED  BY <1>6, <1>7

\* A completion.
LEMMA CountsCompletion ==
    ASSUME FinitelyReserved, NEW w \in Workers, NEW j \in Job, Frees(w, j)
    PROVE  FinitelyReserved' /\ CountsLess(w, j)
<1> DEFINE B == {<<w, j>>} \X (1..Request[j])
<1>1. /\ j \in Reserved(w) /\ Reserved(w)' = Reserved(w) \ {j}
      /\ \A v \in Workers \ {w} : Reserved(v)' = Reserved(v)
      /\ Request[j] \in Nat /\ Reserved(w) = Reserved(w)' \cup {j}
  BY ConstantsType DEF Frees, OthersReserved
<1>2. /\ ReservedUnits(w) = ReservedUnits(w)' \cup B
      /\ \A u \in 1..Request[j] : <<<<w, j>>, u>> \notin ReservedUnits(w)'
      /\ \A v \in Workers \ {w} : ReservedUnits(v)' = ReservedUnits(v)
  <2>1. j \in Job \ Reserved(w)'
    BY <1>1
  <2> QED  BY <1>1, <2>1, UnitsOfOneMore DEF ReservedUnits
<1>3. /\ AllReservedUnits = AllReservedUnits' \cup B
      /\ \A u \in 1..Request[j] : <<<<w, j>>, u>> \notin AllReservedUnits'
  <2>1. AllReservedUnits = AllReservedUnits' \cup B
    BY <1>2, AllUnitsSplit
  <2> QED  BY <1>2, <2>1 DEF AllReservedUnits, ReservedUnits, Units
<1>4. IsFiniteSet(ReservedUnits(w)') /\ IsFiniteSet(AllReservedUnits')
  <2>1. /\ ReservedUnits(w)' \subseteq ReservedUnits(w)
        /\ AllReservedUnits' \subseteq AllReservedUnits
    BY <1>2, <1>3
  <2> QED  BY <2>1, FS_Subset DEF FinitelyReserved
<1>5. /\ Cardinality(ReservedUnits(w)) = Cardinality(ReservedUnits(w)') + Request[j]
      /\ Cardinality(AllReservedUnits) = Cardinality(AllReservedUnits') + Request[j]
  <2>1. PICK q \in Nat : q = Request[j]
    BY <1>1
  <2> DEFINE x == <<w, j>>
  <2>2. /\ ReservedUnits(w) = ReservedUnits(w)' \cup ({x} \X (1..q))
        /\ AllReservedUnits = AllReservedUnits' \cup ({x} \X (1..q))
        /\ \A u \in 1..q : <<x, u>> \notin ReservedUnits(w)'
        /\ \A u \in 1..q : <<x, u>> \notin AllReservedUnits'
    BY <1>2, <1>3, <2>1
  <2> HIDE DEF x
  <2>3. Cardinality(ReservedUnits(w)) = Cardinality(ReservedUnits(w)') + q
    <3>1. PICK A : A = ReservedUnits(w)'
      OBVIOUS
    <3>2. IsFiniteSet(A) /\ \A u \in 1..q : <<x, u>> \notin A
      BY <1>4, <2>2, <3>1
    <3>3. Cardinality(A \cup ({x} \X (1..q))) = Cardinality(A) + q
      BY <3>2, CountUnits
    <3> QED  BY <2>2, <3>1, <3>3
  <2>4. Cardinality(AllReservedUnits) = Cardinality(AllReservedUnits') + q
    BY <1>4, <2>2, CountUnits
  <2> QED  BY <2>1, <2>3, <2>4
<1>6. /\ IsFiniteSet(Reserved(w)')
      /\ Cardinality(Reserved(w)') = Cardinality(Reserved(w)) - 1
  BY ZenonT(60), <1>1, FS_RemoveElement DEF FinitelyReserved
<1>7. FinitelyReserved'
  BY <1>1, <1>2, <1>4, <1>6 DEF FinitelyReserved
<1>8. /\ Cardinality(ReservedUnits(w)') \in Nat
      /\ Cardinality(AllReservedUnits') \in Nat
  BY <1>4, FS_CardinalityType
<1>9. CountsLess(w, j)
  BY <1>1, <1>2, <1>5, <1>6, <1>8 DEF CountsLess, Load
<1> QED  BY <1>7, <1>9

-------------------------------------------------------------------------------
(* The books balance. *)

\* The sums are numbers.
LEMMA CountsType ==
    ASSUME FinitelyReserved
    PROVE  /\ Cardinality(AllReservedUnits) \in Nat
           /\ \A w \in Workers : Load(w) \in Nat /\ Cardinality(Reserved(w)) \in Nat
BY FS_CardinalityType DEF FinitelyReserved, Load

\* pronto_init leaves balanced books behind, and nothing reserved.
LEMMA BooksInit ==
    Init => FinitelyReserved /\ Bookkeeping /\ \A w \in Workers : Load(w) = 0
<1> SUFFICES ASSUME Init
             PROVE  FinitelyReserved /\ Bookkeeping /\ \A w \in Workers : Load(w) = 0
  OBVIOUS
<1>1. ASSUME NEW w \in Workers  PROVE Reserved(w) = {}
  <2>1. /\ \A s \in Schedulers : sched[s].pc = "wait"
        /\ resched.pc = "wait"
    BY DEF Init, Idle
  <2>2. BeingAdded(w) = {}
    BY <2>1 DEF BeingAdded
  <2>3. ToSet(scheduler_jobs[w]) = {}
    BY DEF Init, ToSet
  <2>4. {j \in Job : worker[w].node = j} = {}
    BY ProntoAssumption DEF Init
  <2>5. client[w] = {} /\ lost[w] = {}
    BY DEF Init
  <2> QED  BY <2>2, <2>3, <2>4, <2>5 DEF Reserved, Placed
<1>2. \A w \in Workers : ReservedUnits(w) = {}
  BY <1>1 DEF ReservedUnits, Units
<1>3. AllReservedUnits = {}
  BY <1>2 DEF AllReservedUnits
<1>4. IsFiniteSet({}) /\ Cardinality({}) = 0
  BY FS_EmptySet
<1>5. FinitelyReserved /\ \A w \in Workers : Load(w) = 0 /\ Cardinality(Reserved(w)) = 0
  BY <1>1, <1>2, <1>3, <1>4 DEF FinitelyReserved, Load
<1>6. /\ MAX_RESOURCES \in Nat /\ TotalCapacity \in Nat /\ TotalCapacity < UINT_MOD \div 2
      /\ MAX_RESOURCES < UINT_MOD /\ MAX_RESOURCES < ULONG_MOD
      /\ UINT_MOD \in Nat \ {0} /\ ULONG_MOD \in Nat \ {0}
  BY ConstantsType, CapacityFits, WordsAssumption
<1>7. ULong(MAX_RESOURCES) = MAX_RESOURCES /\ UInt(0) = 0 /\ UInt(TotalCapacity) = TotalCapacity
  <2>1. \A m \in Nat \ {0}, x \in Nat : x < m => x % m = x
    OBVIOUS
  <2> QED  BY <1>6, <2>1 DEF UInt, ULong
<1>8. SInt(TotalCapacity) = TotalCapacity
  BY <1>6, <1>7 DEF SInt
<1>9. Bookkeeping
  BY <1>3, <1>4, <1>5, <1>6, <1>7, <1>8 DEF Bookkeeping, Init
<1> QED  BY <1>5, <1>9

\* A reservation is entered everywhere.
LEMMA ReservationBooked ==
    ASSUME TypeInv, FinitelyReserved, Bookkeeping, NEW w \in Workers, NEW j, Reserves(w, j)
    PROVE  Bookkeeping'
<1> DEFINE q == Request[j]
           total == Cardinality(AllReservedUnits)
<1>1. FinitelyReserved' /\ CountsMore(w, j)
  BY CountsReservation
<1>2. /\ q \in Nat /\ total \in Nat /\ MAX_RESOURCES \in Nat /\ TotalCapacity \in Nat
      /\ \A v \in Workers : Load(v) \in Nat /\ Cardinality(Reserved(v)) \in Nat
  BY ConstantsType, CountsType DEF Reserves
<1>3. /\ current_capacity' = SInt(current_capacity - q)
      /\ current_resources' = [current_resources EXCEPT ![w] = ULong(current_resources[w] - q)]
      /\ scheduled_jobs' = [scheduled_jobs EXCEPT ![w] = UInt(scheduled_jobs[w] + 1)]
      /\ current_resources \in [Workers -> 0..(ULONG_MOD - 1)]
      /\ scheduled_jobs \in [Workers -> 0..(UINT_MOD - 1)]
  BY DEF Reserves, pronto_reserve_capacity, TypeInv, TypeOK
<1>4. /\ current_resources[w] = ULong(MAX_RESOURCES - Load(w))
      /\ scheduled_jobs[w] = UInt(Cardinality(Reserved(w)))
      /\ current_capacity = SInt(TotalCapacity - total)
  BY DEF Bookkeeping
<1>5. current_resources'[w] = ULong(MAX_RESOURCES - Load(w)')
  <2>1. PICK x \in Int, m \in Int : x = MAX_RESOURCES - Load(w) /\ m = -q
    BY <1>2
  <2>2. ULong(x) \in Int /\ ULong(ULong(x) + m) = ULong(x + m)
    BY <2>1, Conversions
  <2>3. /\ current_resources[w] - q = ULong(x) + m
        /\ MAX_RESOURCES - Load(w)' = x + m
    BY <1>1, <1>2, <1>4, <2>1, <2>2 DEF CountsMore
  <2> QED  BY <1>3, <2>2, <2>3
<1>6. scheduled_jobs'[w] = UInt(Cardinality(Reserved(w))')
  <2>1. PICK x \in Int : x = Cardinality(Reserved(w))
    BY <1>2
  <2>2. UInt(UInt(x) + 1) = UInt(x + 1)
    BY <2>1, Conversions
  <2> QED  BY <1>1, <1>3, <1>4, <2>1, <2>2 DEF CountsMore
<1>7. current_capacity' = SInt(TotalCapacity - total')
  <2>1. PICK x \in Int, m \in Int : x = TotalCapacity - total /\ m = -q
    BY <1>2
  <2>2. SInt(x) \in Int /\ SInt(SInt(x) + m) = SInt(x + m)
    BY <2>1, Conversions
  <2>3. /\ current_capacity - q = SInt(x) + m
        /\ TotalCapacity - total' = x + m
    BY <1>1, <1>2, <1>4, <2>1, <2>2 DEF CountsMore
  <2> QED  BY <1>3, <2>2, <2>3
<1>8. ASSUME NEW v \in Workers \ {w}
      PROVE  /\ current_resources'[v] = ULong(MAX_RESOURCES - Load(v)')
             /\ scheduled_jobs'[v] = UInt(Cardinality(Reserved(v))')
  BY <1>1, <1>3 DEF CountsMore, Bookkeeping
<1> QED  BY <1>5, <1>6, <1>7, <1>8 DEF Bookkeeping

\* So is a completion.
LEMMA CompletionBooked ==
    ASSUME TypeInv, FinitelyReserved, Bookkeeping, NEW w \in Workers, NEW j \in Job,
           Frees(w, j)
    PROVE  Bookkeeping'
<1> DEFINE q == Request[j]
           total == Cardinality(AllReservedUnits)
<1>1. FinitelyReserved' /\ CountsLess(w, j)
  BY CountsCompletion
<1>2. /\ q \in Nat /\ total \in Nat /\ MAX_RESOURCES \in Nat /\ TotalCapacity \in Nat
      /\ \A v \in Workers : Load(v) \in Nat /\ Cardinality(Reserved(v)) \in Nat
  BY ConstantsType, CountsType
<1>3. /\ current_capacity' = SInt(current_capacity + q)
      /\ current_resources' = [current_resources EXCEPT ![w] = ULong(current_resources[w] + q)]
      /\ scheduled_jobs' = [scheduled_jobs EXCEPT ![w] = UInt(scheduled_jobs[w] - 1)]
      /\ current_resources \in [Workers -> 0..(ULONG_MOD - 1)]
      /\ scheduled_jobs \in [Workers -> 0..(UINT_MOD - 1)]
  BY DEF Frees, pronto_free_capacity, TypeInv, TypeOK
<1>4. /\ current_resources[w] = ULong(MAX_RESOURCES - Load(w))
      /\ scheduled_jobs[w] = UInt(Cardinality(Reserved(w)))
      /\ current_capacity = SInt(TotalCapacity - total)
  BY DEF Bookkeeping
<1>5. current_resources'[w] = ULong(MAX_RESOURCES - Load(w)')
  <2>1. PICK x \in Int, m \in Int : x = MAX_RESOURCES - Load(w) /\ m = q
    BY <1>2
  <2>2. ULong(x) \in Int /\ ULong(ULong(x) + m) = ULong(x + m)
    BY <2>1, Conversions
  <2>3. MAX_RESOURCES - Load(w)' = x + m
    BY <1>1, <1>2, <2>1 DEF CountsLess
  <2> QED  BY <1>3, <1>4, <2>1, <2>2, <2>3
<1>6. scheduled_jobs'[w] = UInt(Cardinality(Reserved(w))')
  <2>1. PICK x \in Int, m \in Int : x = Cardinality(Reserved(w)) /\ m = -1
    BY <1>2
  <2>2. UInt(x) \in Int /\ UInt(UInt(x) + m) = UInt(x + m)
    BY <2>1, Conversions
  <2>3. scheduled_jobs[w] - 1 = UInt(x) + m /\ Cardinality(Reserved(w))' = x + m
    BY <1>1, <1>2, <1>4, <2>1, <2>2 DEF CountsLess
  <2> QED  BY <1>3, <2>2, <2>3
<1>7. current_capacity' = SInt(TotalCapacity - total')
  <2>1. PICK x \in Int, m \in Int : x = TotalCapacity - total /\ m = q
    BY <1>2
  <2>2. SInt(x) \in Int /\ SInt(SInt(x) + m) = SInt(x + m)
    BY <2>1, Conversions
  <2>3. TotalCapacity - total' = x + m
    BY <1>1, <1>2, <2>1 DEF CountsLess
  <2> QED  BY <1>3, <1>4, <2>1, <2>2, <2>3
<1>8. ASSUME NEW v \in Workers \ {w}
      PROVE  /\ current_resources'[v] = ULong(MAX_RESOURCES - Load(v)')
             /\ scheduled_jobs'[v] = UInt(Cardinality(Reserved(v))')
  BY <1>1, <1>3 DEF CountsLess, Bookkeeping
<1> QED  BY <1>5, <1>6, <1>7, <1>8 DEF Bookkeeping

\* A step that leaves the books alone leaves the sums alone.
LEMMA SumsKept ==
    ASSUME BooksKept
    PROVE  /\ \A w \in Workers : Load(w)' = Load(w)
           /\ FinitelyReserved => FinitelyReserved'
           /\ Bookkeeping => Bookkeeping'
<1>1. \A w \in Workers : Reserved(w)' = Reserved(w) /\ ReservedUnits(w)' = ReservedUnits(w)
  BY DEF BooksKept, ReservedUnits
<1>2. AllReservedUnits' = AllReservedUnits
  BY <1>1 DEF AllReservedUnits
<1>3. UNCHANGED <<current_capacity, current_resources, scheduled_jobs>>
  BY DEF BooksKept, bookVars
<1>4. \A w \in Workers : Load(w)' = Load(w)
  BY <1>1 DEF Load
<1>5. FinitelyReserved => FinitelyReserved'
  BY <1>1, <1>2 DEF FinitelyReserved
<1>6. Bookkeeping => Bookkeeping'
  BY <1>1, <1>2, <1>3, <1>4 DEF Bookkeeping
<1> QED  BY <1>4, <1>5, <1>6

\* Every step keeps the books balanced.
LEMMA BooksNext ==
    /\ TypeInv /\ JobInv /\ TypeInv' /\ JobInv'
    /\ FinitelyReserved /\ Bookkeeping /\ [Next]_vars
    => FinitelyReserved' /\ Bookkeeping'
<1> SUFFICES ASSUME TypeInv, JobInv, TypeInv', JobInv', FinitelyReserved, Bookkeeping,
                    [Next]_vars
             PROVE  FinitelyReserved' /\ Bookkeeping'
  OBVIOUS
<1>1. CASE BooksKept
  BY <1>1, SumsKept
<1>2. ASSUME NEW s \in Schedulers, SchedulerReserve(s), Reserves(sched[s].fit, sched[s].node)
      PROVE  FinitelyReserved' /\ Bookkeeping'
  <2>1. sched[s].fit \in Workers
    BY <1>2 DEF SchedulerReserve, TypeInv, ThreadsHoldJobs
  <2> QED  BY <1>2, <2>1, CountsReservation, ReservationBooked
<1>3. ASSUME ReschedulerReserve, Reserves(resched.fit, Head(waiting_queue))
      PROVE  FinitelyReserved' /\ Bookkeeping'
  <2>1. resched.fit \in Workers
    BY <1>3 DEF ReschedulerReserve, TypeInv, ThreadsHoldJobs
  <2> QED  BY <1>3, <2>1, CountsReservation, ReservationBooked
<1>4. ASSUME NEW w \in Workers, NEW j \in Job, Frees(w, j)
      PROVE  FinitelyReserved' /\ Bookkeeping'
  BY <1>4, CountsCompletion, CompletionBooked
<1> QED  BY <1>1, <1>2, <1>3, <1>4, BookSteps

\* The three counters agree with the jobs, whatever the threads do and however often
\* the counters wrap.
THEOREM BooksBalance == Spec => [](FinitelyReserved /\ Bookkeeping)
<1>1. Init => FinitelyReserved /\ Bookkeeping
  BY BooksInit
<1> QED  BY <1>1, BooksNext, TypeInvariant, JobInvariant, PTL DEF Spec

-------------------------------------------------------------------------------
(* Searches. *)

\* The largest request a worker can serve is not above any bound on all of them.
LEMMA LargestBounds ==
    /\ LargestThatFits \in Nat /\ LargestThatFits <= MAX_RESOURCES
    /\ \A j \in Job : Request[j] <= MAX_RESOURCES => Request[j] <= LargestThatFits
<1> DEFINE S == {0} \cup ({Request[j] : j \in Job} \cap 1..MAX_RESOURCES)
<1>1. /\ S # {} /\ MAX_RESOURCES \in Nat
      /\ \A x \in S : x \in Nat /\ x <= MAX_RESOURCES
      /\ \A j \in Job : Request[j] \in Nat /\ (Request[j] <= MAX_RESOURCES => Request[j] \in S)
  BY ConstantsType
<1>2. \E x \in S : \A y \in S : y <= x
  <2> DEFINE f == [x \in S |-> x]
  <2>1. \A x \in S : f[x] = x /\ f[x] \in Int /\ f[x] <= MAX_RESOURCES
    BY <1>1
  <2> HIDE DEF S, f
  <2>2. \E x \in S : \A y \in S : f[y] <= f[x]
    BY <1>1, <2>1, HasMaximum
  <2> QED  BY <2>1, <2>2
<1>3. LargestThatFits = Max(S)
  BY DEF LargestThatFits
<1> HIDE DEF S
<1>4. Max(S) \in S /\ \A y \in S : y <= Max(S)
  BY <1>1, <1>2 DEF Max
<1> QED  BY <1>1, <1>3, <1>4

\* The worker a search returns fits, and nobody who fits has more.
LEMMA BestFitIsBest ==
    ASSUME TypeOK, NEW value \in Nat, NEW b, b = pronto_best_current_fit(value), b # NoFit
    PROVE  /\ b \in Workers /\ value <= current_resources[b]
           /\ SInt(current_resources[b]) > -1
           /\ \A k \in Workers :
                value <= current_resources[k] /\ SInt(current_resources[k]) > -1
                  => SInt(current_resources[k]) <= SInt(current_resources[b])
<1> DEFINE capacity(i) == SInt(current_resources[i])
           fits == {i \in Workers : value <= current_resources[i] /\ capacity(i) > -1}
           best == {i \in fits : \A k \in fits : capacity(k) <= capacity(i)}
           f == [i \in Workers |-> capacity(i)]
<1>1. \A i \in Workers : capacity(i) \in Int /\ capacity(i) < UINT_MOD
  BY SMTT(60), ConstantsType, ConversionType DEF TypeOK
<1>2. fits # {} /\ b = Min(best)
  BY DEF pronto_best_current_fit
<1>3. best # {}
  <2>1. UINT_MOD \in Nat /\ fits \subseteq Workers
    BY ConstantsType
  <2>2. \A i \in fits : f[i] = capacity(i) /\ f[i] \in Int /\ f[i] <= UINT_MOD
    BY <1>1, <2>1
  <2>3. \E i \in fits : \A k \in fits : f[k] <= f[i]
    <3> HIDE DEF fits, f
    <3> QED  BY <1>2, <2>1, <2>2, HasMaximum
  <2> QED  BY <2>2, <2>3
<1>4. b \in best
  <2>1. best \in SUBSET Nat
    BY ConstantsType
  <2> HIDE DEF best
  <2> QED  BY <1>2, <1>3, <2>1, MinOfNaturals
<1> QED  BY <1>4

\* The counter of a worker reads as its free units: these may be negative, but not so
\* much that they do not read as what they are.
LEMMA FreeUnitsAreExact ==
    ASSUME TypeInv, FinitelyReserved, Bookkeeping, OvercommitBounded, NEW v \in Workers
    PROVE  /\ Available(v) \in Int /\ SInt(current_resources[v]) = Available(v)
           /\ Available(v) >= 0 => current_resources[v] = Available(v)
<1>1. PICK x \in Int : x = Available(v)
  BY CountsType, ConstantsType DEF Available
<1>2. current_resources[v] = ULong(x)
  BY <1>1 DEF Bookkeeping, Available
<1>3. x <= MAX_RESOURCES /\ -(UINT_MOD \div 2) <= x
  <2>1. \A n, a, b2 \in Nat : a <= b2 => n * a <= n * b2 /\ n * a \in Nat /\ n * b2 \in Nat
    OBVIOUS
  <2>2. /\ Cardinality(Schedulers) \in Nat /\ MAX_RESOURCES \in Nat /\ UINT_MOD \in Nat
        /\ Load(v) \in Nat
        /\ LargestThatFits \in Nat /\ LargestThatFits <= MAX_RESOURCES
    BY FS_CardinalityType, ProntoAssumption, ConstantsType, CountsType, LargestBounds
  <2>3. PICK m \in Nat, n \in Nat, h \in Int :
          /\ m = Cardinality(Schedulers) * LargestThatFits
          /\ n = Cardinality(Schedulers) * MAX_RESOURCES
          /\ h = UINT_MOD \div 2 /\ m <= n
    BY <2>1, <2>2
  <2>4. n <= h /\ Load(v) <= MAX_RESOURCES + m
    BY <2>3, WordsAssumption DEF OvercommitBounded
  <2> QED  BY <1>1, <2>2, <2>3, <2>4 DEF Available
<1>4. SInt(x) = x /\ (x >= 0 => ULong(x) = x) /\ SInt(ULong(x)) = SInt(x)
  BY <1>3, SmallInt, Conversions
<1> QED  BY <1>1, <1>2, <1>4

\* In true units too.
LEMMA SearchIsExact ==
    ASSUME TypeInv, FinitelyReserved, Bookkeeping, OvercommitBounded,
           NEW value \in Nat, NEW b, b = pronto_best_current_fit(value), b # NoFit
    PROVE  /\ b \in Workers /\ value <= Available(b)
           /\ \A v \in Workers : Available(v) <= Available(b)
<1>1. /\ b \in Workers /\ value <= current_resources[b]
      /\ SInt(current_resources[b]) > -1
      /\ \A k \in Workers :
           value <= current_resources[k] /\ SInt(current_resources[k]) > -1
             => SInt(current_resources[k]) <= SInt(current_resources[b])
  BY BestFitIsBest DEF TypeInv
<1>2. \A v \in Workers :
        /\ Available(v) \in Int /\ SInt(current_resources[v]) = Available(v)
        /\ Available(v) >= 0 => current_resources[v] = Available(v)
  BY FreeUnitsAreExact
<1>3. value <= Available(b) /\ Available(b) >= 0
  BY <1>1, <1>2
<1>4. ASSUME NEW v \in Workers  PROVE Available(v) <= Available(b)
  <2>1. CASE Available(v) >= 0 /\ value <= Available(v)
    BY <1>1, <1>2, <2>1
  <2>2. CASE ~(Available(v) >= 0 /\ value <= Available(v))
    BY <1>1, <1>2, <1>3, <2>2
  <2> QED  BY <2>1, <2>2
<1> QED  BY <1>1, <1>3, <1>4

-------------------------------------------------------------------------------
(* Claims. *)

\* The threads that reserve, and the units of w for which one of them has found
\* room and not yet reserved.
Reservers == ({"scheduler"} \X Schedulers) \cup {<<"rescheduler", 0>>}
Claim(t, w) ==
    IF t[1] = "scheduler"
    THEN IF sched[t[2]].pc = "reserve" /\ sched[t[2]].fit = w
         THEN Request[sched[t[2]].node] ELSE 0
    ELSE IF resched.pc = "reserve" /\ resched.fit = w
         THEN Request[Head(waiting_queue)] ELSE 0
Claimed(w) == {c \in Reservers \X (1..LargestThatFits) : c[2] <= Claim(c[1], w)}

\* OvercommitBounded is not inductive: the reservations to come count too.  A thread
\* that has just searched was right about what is reserved, and at most every other
\* thread has a claim it does not see.
ClaimsFit == \A t \in Reservers, w \in Workers : Claim(t, w) \in 0..LargestThatFits
ClaimsBounded ==
    \A w \in Workers :
        Load(w) + Cardinality(Claimed(w))
            <= MAX_RESOURCES + Cardinality(Schedulers) * LargestThatFits

\* A step leaves the claims of these threads alone.
ClaimsKept(T) == \A t \in T, w \in Workers : Claim(t, w)' = Claim(t, w)
\* Thread t has found room on w for job j; it uses the room.
Claims(t, w, j) ==
    /\ \A v \in Workers : Claim(t, v) = 0
    /\ \A v \in Workers : Claim(t, v)' = IF v = w THEN Request[j] ELSE 0
    /\ ClaimsKept(Reservers \ {t})
Uses(t, w, j) ==
    /\ \A v \in Workers : Claim(t, v) = IF v = w THEN Request[j] ELSE 0
    /\ \A v \in Workers : Claim(t, v)' = 0
    /\ ClaimsKept(Reservers \ {t})

\* A thread keeps its claims if it is not about to reserve before or after the step.
LEMMA ClaimsKeptBy ==
    ASSUME NEW S \in SUBSET Schedulers,
           \A s \in S : \/ sched'[s] = sched[s]
                        \/ sched[s].pc # "reserve" /\ sched'[s].pc # "reserve"
    PROVE  /\ ClaimsKept({"scheduler"} \X S)
           /\ \/ resched'.pc # "reserve" /\ resched.pc # "reserve"
              \/ /\ resched' = resched
                 /\ resched.pc = "reserve" => waiting_queue' = waiting_queue
              => ClaimsKept({<<"rescheduler", 0>>})
BY DEF ClaimsKept, Claim

\* The steps of the schedulers.
LEMMA SchedulerClaims ==
    ASSUME TypeInv, NEW s \in Schedulers, Scheduler(s)
    PROVE  /\ SchedulerReserve(s) => Uses(<<"scheduler", s>>, sched[s].fit, sched[s].node)
           /\ \/ SchedulerReserve(s) \/ ClaimsKept(Reservers)
              \/ \E b : /\ SchedulerFit(s) /\ b # NoFit
                        /\ b = pronto_best_current_fit(Request[sched[s].node])
                        /\ Claims(<<"scheduler", s>>, b, sched[s].node)
<1> DEFINE t == <<"scheduler", s>>
           S == Schedulers \ {s}
<1>1. /\ sched \in [Schedulers -> [pc   : SchedPc,
                                   node : Job \cup {NULL},
                                   fit  : Workers \cup {NoFit}]]
      /\ resched' = resched
      /\ \A u \in S : sched'[u] = sched[u]
      /\ resched.pc = "reserve" => waiting_queue' = waiting_queue
  <2>1. resched.pc = "reserve" => waiting_mutex
    BY DEF TypeInv, PassHoldsMutex
  <2> QED
    BY <2>1 DEF Scheduler, SchedulerWait, SchedulerDequeue, SchedulerFit, SchedulerPark,
       SchedulerReserve, SchedulerAddJob, SchedulerPost, TypeInv, TypeOK, waitingVars
<1>2. ClaimsKept(Reservers \ {t})
  <2>1. ClaimsKept({"scheduler"} \X S) /\ ClaimsKept({<<"rescheduler", 0>>})
    BY <1>1, ClaimsKeptBy
  <2>2. Reservers \ {t} = ({"scheduler"} \X S) \cup {<<"rescheduler", 0>>}
    BY DEF Reservers
  <2> QED  BY <2>1, <2>2 DEF ClaimsKept
<1>3. ASSUME sched[s].pc # "reserve", sched'[s].pc # "reserve"
      PROVE  ClaimsKept(Reservers)
  <2>1. \A w \in Workers : Claim(t, w)' = Claim(t, w)
    BY <1>3 DEF Claim
  <2> QED  BY <1>2, <2>1 DEF ClaimsKept
<1>4. ASSUME SchedulerWait(s)  PROVE ClaimsKept(Reservers)
  BY <1>1, <1>3, <1>4 DEF SchedulerWait
<1>5. ASSUME SchedulerDequeue(s) \/ SchedulerPark(s) \/ SchedulerPost(s)
      PROVE  ClaimsKept(Reservers)
  <2>1. sched'[s].pc # "reserve" /\ sched[s].pc # "reserve"
    BY <1>1, <1>5 DEF SchedulerDequeue, SchedulerPark, SchedulerPost, Idle
  <2> QED  BY <1>3, <2>1
<1>6. ASSUME SchedulerAddJob(s)  PROVE ClaimsKept(Reservers)
  BY <1>1, <1>3, <1>6 DEF SchedulerAddJob
<1>7. ASSUME SchedulerFit(s)
      PROVE  \/ ClaimsKept(Reservers)
             \/ \E b : /\ b # NoFit /\ b = pronto_best_current_fit(Request[sched[s].node])
                       /\ Claims(t, b, sched[s].node)
  <2>1. PICK b : b = pronto_best_current_fit(Request[sched[s].node])
    OBVIOUS
  <2>2. /\ sched[s].pc = "fit" /\ sched'[s].node = sched[s].node
        /\ sched'[s].pc = IF b = NoFit THEN "park" ELSE "reserve"
        /\ sched'[s].fit = b
    BY <1>1, <1>7, <2>1 DEF SchedulerFit
  <2>3. CASE b = NoFit
    BY <1>3, <2>2, <2>3
  <2>4. CASE b # NoFit
    <3>1. /\ \A v \in Workers : Claim(t, v) = 0
          /\ \A v \in Workers : Claim(t, v)' = IF v = b THEN Request[sched[s].node] ELSE 0
      BY <2>2, <2>4 DEF Claim
    <3> QED  BY <1>2, <1>7, <2>1, <2>4, <3>1 DEF Claims
  <2> QED  BY <2>3, <2>4
<1>8. ASSUME SchedulerReserve(s)  PROVE Uses(t, sched[s].fit, sched[s].node)
  <2>1. sched[s].pc = "reserve" /\ sched'[s].pc = "add"
    BY <1>1, <1>8 DEF SchedulerReserve
  <2>2. /\ \A v \in Workers : Claim(t, v)' = 0
        /\ \A v \in Workers : Claim(t, v) = IF v = sched[s].fit
                                            THEN Request[sched[s].node] ELSE 0
    BY <2>1 DEF Claim
  <2> QED  BY <1>2, <1>8, <2>2 DEF Uses
<1> QED  BY <1>4, <1>5, <1>6, <1>7, <1>8 DEF Scheduler

\* The steps of the rescheduler.
LEMMA ReschedulerClaims ==
    ASSUME TypeInv, Rescheduler
    PROVE  /\ ReschedulerReserve
                => Uses(<<"rescheduler", 0>>, resched.fit, Head(waiting_queue))
           /\ \/ ReschedulerReserve \/ ClaimsKept(Reservers)
              \/ \E b : /\ ReschedulerCheck /\ waiting_queue # <<>> /\ b # NoFit
                        /\ b = pronto_best_current_fit(Request[Head(waiting_queue)])
                        /\ Claims(<<"rescheduler", 0>>, b, Head(waiting_queue))
<1> DEFINE t == <<"rescheduler", 0>>
<1>1. /\ resched \in [pc : ReschedPc, node : Job \cup {NULL}, fit : Workers \cup {NoFit}]
      /\ sched' = sched
  BY DEF Rescheduler, ReschedulerWait, ReschedulerLock, ReschedulerCheck,
     ReschedulerReserve, ReschedulerAddJob, ReschedulerPost, TypeInv, TypeOK
<1>2. ClaimsKept(Reservers \ {t})
  <2>1. ClaimsKept({"scheduler"} \X Schedulers)
    BY <1>1, ClaimsKeptBy
  <2>2. Reservers \ {t} = {"scheduler"} \X Schedulers
    BY DEF Reservers
  <2> QED  BY <2>1, <2>2
<1>3. ASSUME resched.pc # "reserve", resched'.pc # "reserve"
      PROVE  ClaimsKept(Reservers)
  <2>1. \A w \in Workers : Claim(t, w)' = Claim(t, w)
    BY <1>3 DEF Claim
  <2> QED  BY <1>2, <2>1 DEF ClaimsKept
<1>4. ASSUME ReschedulerWait \/ ReschedulerLock \/ ReschedulerAddJob
      PROVE  ClaimsKept(Reservers)
  BY <1>1, <1>3, <1>4 DEF ReschedulerWait, ReschedulerLock, ReschedulerAddJob
<1>5. ASSUME ReschedulerPost  PROVE ClaimsKept(Reservers)
  BY <1>1, <1>3, <1>5 DEF ReschedulerPost, Idle
<1>6. ASSUME ReschedulerCheck
      PROVE  \/ ClaimsKept(Reservers)
             \/ \E b : /\ waiting_queue # <<>> /\ b # NoFit
                       /\ b = pronto_best_current_fit(Request[Head(waiting_queue)])
                       /\ Claims(t, b, Head(waiting_queue))
  <2>1. PICK b : b = IF waiting_queue = <<>> THEN NoFit
                     ELSE pronto_best_current_fit(Request[Head(waiting_queue)])
    OBVIOUS
  <2>2. /\ resched.pc = "check"
        /\ \/ b = NoFit /\ resched' = Idle
           \/ b # NoFit /\ resched' = [resched EXCEPT !.pc = "reserve", !.fit = b]
        /\ waiting_queue' = waiting_queue
    BY <1>6, <2>1 DEF ReschedulerCheck
  <2>3. CASE b = NoFit
    BY <1>3, <2>2, <2>3 DEF Idle
  <2>4. CASE b # NoFit
    <3>1. resched'.pc = "reserve" /\ resched'.fit = b
      BY <1>1, <2>2, <2>4
    <3>2. /\ \A v \in Workers : Claim(t, v) = 0
          /\ \A v \in Workers : Claim(t, v)' = IF v = b THEN Request[Head(waiting_queue)]
                                               ELSE 0
      BY <2>2, <3>1 DEF Claim
    <3> QED  BY <1>2, <1>6, <2>1, <2>4, <3>2 DEF Claims
  <2> QED  BY <2>3, <2>4
<1>7. ASSUME ReschedulerReserve  PROVE Uses(t, resched.fit, Head(waiting_queue))
  <2>1. resched.pc = "reserve" /\ resched'.pc = "add"
    BY <1>1, <1>7 DEF ReschedulerReserve
  <2>2. /\ \A v \in Workers : Claim(t, v)' = 0
        /\ \A v \in Workers : Claim(t, v) = IF v = resched.fit
                                            THEN Request[Head(waiting_queue)] ELSE 0
    BY <2>1 DEF Claim
  <2> QED  BY <1>2, <1>7, <2>2 DEF Uses
<1> QED  BY <1>4, <1>5, <1>6, <1>7 DEF Rescheduler

\* Nobody else touches what the claims are made of.
LEMMA OthersClaim ==
    /\ UNCHANGED <<sched, resched, waiting_queue>> => ClaimsKept(Reservers)
    /\ [Next]_vars /\ (\A s \in Schedulers : ~Scheduler(s)) /\ ~Rescheduler
         => UNCHANGED <<sched, resched, waiting_queue>>
    /\ Freeing => UNCHANGED <<sched, resched, waiting_queue>>
<1>1. UNCHANGED <<sched, resched, waiting_queue>> => ClaimsKept(Reservers)
  BY DEF ClaimsKept, Claim
<1>2. [Next]_vars /\ (\A s \in Schedulers : ~Scheduler(s)) /\ ~Rescheduler
         => UNCHANGED <<sched, resched, waiting_queue>>
  BY DEF Next, vars, threadVars, waitingVars, Handler, schedule, schedule_notify, job_done,
     job_done_notify, ClusterWorker, WorkerWait, WorkerDequeue, WorkerPost, ClientDoneLost
<1>3. Freeing => UNCHANGED <<sched, resched, waiting_queue>>
  BY DEF Freeing, job_done, waitingVars
<1> QED  BY <1>1, <1>2, <1>3

-------------------------------------------------------------------------------
(* Counting claims. *)

\* All but one of the reservers are as many as the schedulers, and claim at most the
\* largest request each.
LEMMA ReserversCount ==
    ASSUME NEW t \in Reservers
    PROVE  /\ IsFiniteSet((Reservers \ {t}) \X (1..LargestThatFits))
           /\ Cardinality((Reservers \ {t}) \X (1..LargestThatFits))
                = Cardinality(Schedulers) * LargestThatFits
           /\ IsFiniteSet(Reservers \X (1..LargestThatFits))
<1> DEFINE S == {"scheduler"} \X Schedulers
           r == <<"rescheduler", 0>>
<1>1. IsFiniteSet(Schedulers) /\ Cardinality(Schedulers) \in Nat /\ LargestThatFits \in Nat
  BY ProntoAssumption, FS_CardinalityType, LargestBounds
<1>2. IsFiniteSet({"scheduler"}) /\ Cardinality({"scheduler"}) = 1
  BY FS_Singleton
<1>3. IsFiniteSet(S) /\ Cardinality(S) = Cardinality(Schedulers)
  <2>1. IsFiniteSet(S) /\ Cardinality(S) = Cardinality({"scheduler"}) * Cardinality(Schedulers)
    BY <1>1, <1>2, FS_Product
  <2> QED  BY <1>1, <1>2, <2>1
<1>4. r \notin S /\ Reservers = S \cup {r}
  BY DEF Reservers
<1> HIDE DEF S, r
<1>5. IsFiniteSet(Reservers) /\ Cardinality(Reservers) = Cardinality(Schedulers) + 1
  BY <1>3, <1>4, FS_AddElement
<1>6. /\ IsFiniteSet(Reservers \ {t})
      /\ Cardinality(Reservers \ {t}) = Cardinality(Schedulers)
  <2>1. PICK R : R = Reservers
    OBVIOUS
  <2>2. /\ IsFiniteSet(R) /\ t \in R /\ IsFiniteSet(R \ {t})
        /\ Cardinality(R \ {t}) = Cardinality(R) - 1
    BY <1>5, <2>1, FS_RemoveElement
  <2> QED  BY <1>1, <1>5, <2>1, <2>2
<1>7. IsFiniteSet(1..LargestThatFits) /\ Cardinality(1..LargestThatFits) = LargestThatFits
  BY SMTT(60), <1>1, FS_Interval
<1>8. PICK R, Q, L : R = Reservers /\ Q = Reservers \ {t} /\ L = 1..LargestThatFits
  OBVIOUS
<1>9. /\ IsFiniteSet(R \X L) /\ IsFiniteSet(Q \X L)
      /\ Cardinality(Q \X L) = Cardinality(Q) * Cardinality(L)
  BY <1>5, <1>6, <1>7, <1>8, FS_Product
<1> QED  BY <1>6, <1>7, <1>8, <1>9

\* Claims are finite.
LEMMA ClaimedFinite ==
    ASSUME NEW w
    PROVE  /\ IsFiniteSet(Claimed(w)) /\ Cardinality(Claimed(w)) \in Nat
           /\ IsFiniteSet(Claimed(w)') /\ Cardinality(Claimed(w)') \in Nat
<1>1. <<"rescheduler", 0>> \in Reservers
  BY DEF Reservers
<1>2. IsFiniteSet(Reservers \X (1..LargestThatFits))
  BY <1>1, ReserversCount
<1>3. /\ Claimed(w) \subseteq Reservers \X (1..LargestThatFits)
      /\ Claimed(w)' \subseteq Reservers \X (1..LargestThatFits)
  BY DEF Claimed
<1> QED  BY <1>2, <1>3, FS_Subset, FS_CardinalityType

\* Claims that are kept are as many as before.
LEMMA KeptCount ==
    ASSUME ClaimsKept(Reservers)
    PROVE  /\ \A w \in Workers : Claimed(w)' = Claimed(w)
           /\ ClaimsFit => ClaimsFit'
<1>1. \A t \in Reservers, w \in Workers : Claim(t, w)' = Claim(t, w)
  BY DEF ClaimsKept
<1> QED  BY <1>1 DEF Claimed, ClaimsFit

\* A thread that has found room on w claims as much; the others claim what they may.
LEMMA ClaimsCount ==
    ASSUME ClaimsFit, NEW t \in Reservers, NEW w \in Workers, NEW j \in Job,
           Request[j] \in 0..LargestThatFits, Claims(t, w, j)
    PROVE  /\ ClaimsFit'
           /\ Cardinality(Claimed(w)')
                <= Cardinality(Schedulers) * LargestThatFits + Request[j]
           /\ \A v \in Workers \ {w} : Claimed(v)' = Claimed(v)
<1>1. /\ \A v \in Workers : Claim(t, v) = 0
      /\ \A v \in Workers : Claim(t, v)' = IF v = w THEN Request[j] ELSE 0
      /\ \A u \in Reservers \ {t}, v \in Workers : Claim(u, v)' = Claim(u, v)
  BY DEF Claims, ClaimsKept
<1>2. ClaimsFit'
  BY <1>1, LargestBounds DEF ClaimsFit
<1>3. ASSUME NEW v \in Workers \ {w}  PROVE Claimed(v)' = Claimed(v)
  <2>1. \A u \in Reservers : Claim(u, v)' = Claim(u, v)
    BY <1>1
  <2> QED  BY <2>1 DEF Claimed
<1>4. PICK q \in Nat : q = Request[j]
  BY LargestBounds
<1>5. PICK A : A = (Reservers \ {t}) \X (1..LargestThatFits)
  OBVIOUS
<1>6. PICK B : B = A \cup ({t} \X (1..q))
  OBVIOUS
<1>7. /\ IsFiniteSet(A) /\ Cardinality(A) = Cardinality(Schedulers) * LargestThatFits
      /\ \A u \in 1..q : <<t, u>> \notin A
  BY <1>5, ReserversCount
<1>8. IsFiniteSet(B) /\ Cardinality(B) = Cardinality(A) + q
  BY <1>6, <1>7, CountUnits
<1>9. Claimed(w)' \subseteq B
  <2> SUFFICES ASSUME NEW c \in Claimed(w)'  PROVE c \in B
    OBVIOUS
  <2>1. PICK u \in Reservers, n \in 1..LargestThatFits : c = <<u, n>> /\ n <= Claim(u, w)'
    BY DEF Claimed
  <2>2. CASE u = t
    BY <1>1, <1>4, <1>6, <2>1, <2>2
  <2>3. CASE u # t
    BY <1>5, <1>6, <2>1, <2>3
  <2> QED  BY <2>2, <2>3
<1>10. Cardinality(Claimed(w)') <= Cardinality(B)
  <2>1. PICK C : C = Claimed(w)'
    OBVIOUS
  <2>2. Cardinality(C) <= Cardinality(B)
    BY <1>8, <1>9, <2>1, FS_Subset
  <2> QED  BY <2>1, <2>2
<1> QED  BY <1>2, <1>3, <1>4, <1>7, <1>8, <1>10

\* A thread that reserves uses up its claim.
LEMMA UsesCount ==
    ASSUME ClaimsFit, NEW t \in Reservers, NEW w \in Workers, NEW j \in Job, Uses(t, w, j)
    PROVE  /\ ClaimsFit' /\ Request[j] <= LargestThatFits
           /\ Cardinality(Claimed(w)) = Cardinality(Claimed(w)') + Request[j]
           /\ \A v \in Workers \ {w} : Claimed(v)' = Claimed(v)
<1>1. /\ \A v \in Workers : Claim(t, v) = IF v = w THEN Request[j] ELSE 0
      /\ \A v \in Workers : Claim(t, v)' = 0
      /\ \A u \in Reservers \ {t}, v \in Workers : Claim(u, v)' = Claim(u, v)
  BY DEF Uses, ClaimsKept
<1>2. ClaimsFit' /\ Request[j] \in 0..LargestThatFits
  BY <1>1, LargestBounds DEF ClaimsFit
<1>3. ASSUME NEW v \in Workers \ {w}  PROVE Claimed(v)' = Claimed(v)
  <2>1. \A u \in Reservers : Claim(u, v)' = Claim(u, v)
    BY <1>1
  <2> QED  BY <2>1 DEF Claimed
<1>4. PICK q \in Nat : q = Request[j]
  BY <1>2, LargestBounds
<1>5. PICK A : A = Claimed(w)'
  OBVIOUS
<1>6. IsFiniteSet(A) /\ \A u \in 1..q : <<t, u>> \notin A
  <2>1. \A c \in A : c[2] \in 1..LargestThatFits /\ c[2] <= Claim(c[1], w)'
    BY <1>5 DEF Claimed
  <2>2. \A u \in 1..q : <<t, u>>[1] = t /\ <<t, u>>[2] = u /\ ~(u <= Claim(t, w)')
    BY <1>1
  <2>3. IsFiniteSet(A)
    BY <1>5, ClaimedFinite
  <2> QED  BY <2>1, <2>2, <2>3
<1>7. Cardinality(A \cup ({t} \X (1..q))) = Cardinality(A) + q
  BY <1>6, CountUnits
<1>8. Claimed(w) = A \cup ({t} \X (1..q))
  <2>1. ASSUME NEW c \in Claimed(w)  PROVE c \in A \cup ({t} \X (1..q))
    <3>1. PICK u \in Reservers, n \in 1..LargestThatFits : c = <<u, n>> /\ n <= Claim(u, w)
      BY <2>1 DEF Claimed
    <3>2. CASE u = t
      BY <1>1, <1>4, <3>1, <3>2
    <3>3. CASE u # t
      <4>1. n <= Claim(u, w)'
        BY <1>1, <3>1, <3>3
      <4> QED  BY <1>5, <3>1, <4>1 DEF Claimed
    <3> QED  BY <3>2, <3>3
  <2>2. ASSUME NEW n \in 1..q  PROVE <<t, n>> \in Claimed(w)
    <3>1. n \in 1..LargestThatFits /\ n <= Claim(t, w)
      BY <1>1, <1>2, <1>4, LargestBounds
    <3> QED  BY <3>1 DEF Claimed
  <2>3. ASSUME NEW c \in A  PROVE c \in Claimed(w)
    <3>1. PICK u \in Reservers, n \in 1..LargestThatFits : c = <<u, n>> /\ n <= Claim(u, w)'
      BY <1>5, <2>3 DEF Claimed
    <3>2. u # t
      BY <1>1, <3>1
    <3>3. n <= Claim(u, w)
      BY <1>1, <3>1, <3>2
    <3> QED  BY <3>1, <3>3 DEF Claimed
  <2> QED  BY <2>1, <2>2, <2>3
<1> QED  BY <1>2, <1>3, <1>4, <1>5, <1>7, <1>8

-------------------------------------------------------------------------------
(* Overcommitment. *)

CapacityInv == FinitelyReserved /\ Bookkeeping /\ ClaimsFit /\ ClaimsBounded

\* What is bounded with the claims is bounded without.
LEMMA ClaimsBoundLoads == CapacityInv => OvercommitBounded
<1> SUFFICES ASSUME CapacityInv, NEW w \in Workers
             PROVE  Load(w) <= MAX_RESOURCES + Cardinality(Schedulers) * LargestThatFits
  BY DEF OvercommitBounded
<1>1. Load(w) \in Nat /\ Cardinality(Claimed(w)) \in Nat
  BY CountsType, ClaimedFinite DEF CapacityInv
<1>2. PICK bound \in Int : bound = MAX_RESOURCES + Cardinality(Schedulers) * LargestThatFits
  BY ConstantsType, ProntoAssumption, FS_CardinalityType, LargestBounds
<1> QED  BY <1>1, <1>2 DEF CapacityInv, ClaimsBounded

\* A search that succeeds leaves room for its claim: what is reserved and what it
\* claims fit the worker, and every other thread has one claim at most.
LEMMA SearchBounded ==
    ASSUME TypeInv, CapacityInv, BooksKept, NEW t \in Reservers, NEW j \in Job,
           NEW b, b = pronto_best_current_fit(Request[j]), b # NoFit, Claims(t, b, j)
    PROVE  ClaimsFit' /\ ClaimsBounded'
<1>1. PICK m \in Int : m = Cardinality(Schedulers) * LargestThatFits
  BY ProntoAssumption, FS_CardinalityType, LargestBounds
<1>2. b \in Workers /\ Request[j] \in Nat /\ Request[j] <= Available(b)
  BY SearchIsExact, ClaimsBoundLoads, ConstantsType DEF CapacityInv
<1>3. /\ MAX_RESOURCES \in Nat /\ Load(b) \in Nat
      /\ \A w \in Workers : Load(w)' = Load(w)
  BY <1>2, ConstantsType, CountsType, SumsKept DEF CapacityInv
<1>4. Request[j] + Load(b) <= MAX_RESOURCES
  BY <1>2, <1>3 DEF Available
<1>5. Request[j] \in 0..LargestThatFits
  BY <1>2, <1>3, <1>4, LargestBounds
<1>6. /\ ClaimsFit'
      /\ Cardinality(Claimed(b)') <= m + Request[j]
      /\ \A v \in Workers \ {b} : Claimed(v)' = Claimed(v)
  BY <1>1, <1>2, <1>5, ClaimsCount DEF CapacityInv
<1>7. Load(b)' + Cardinality(Claimed(b)') <= MAX_RESOURCES + m
  <2>1. Cardinality(Claimed(b)') \in Nat
    BY ClaimedFinite
  <2> QED  BY <1>2, <1>3, <1>4, <1>6, <2>1
<1>8. ASSUME NEW v \in Workers \ {b}
      PROVE  Load(v)' + Cardinality(Claimed(v)') <= MAX_RESOURCES + m
  BY <1>1, <1>3, <1>6 DEF CapacityInv, ClaimsBounded
<1> QED  BY <1>1, <1>6, <1>7, <1>8 DEF ClaimsBounded

\* A reservation turns a claim into a load.
LEMMA ReservationBounded ==
    ASSUME CapacityInv, NEW t \in Reservers, NEW w \in Workers, NEW j \in Job,
           Reserves(w, j), Uses(t, w, j)
    PROVE  ClaimsFit' /\ ClaimsBounded'
<1>1. PICK m \in Int : m = Cardinality(Schedulers) * LargestThatFits
  BY ProntoAssumption, FS_CardinalityType, LargestBounds
<1>2. CountsMore(w, j)
  BY CountsReservation DEF CapacityInv
<1>3. /\ ClaimsFit' /\ Cardinality(Claimed(w)) = Cardinality(Claimed(w)') + Request[j]
      /\ \A v \in Workers \ {w} : Claimed(v)' = Claimed(v)
  BY UsesCount DEF CapacityInv
<1>4. /\ Load(w) \in Nat /\ Request[j] \in Nat /\ Cardinality(Claimed(w)') \in Nat
  BY CountsType, ConstantsType, ClaimedFinite DEF CapacityInv
<1>5. Load(w)' + Cardinality(Claimed(w)') = Load(w) + Cardinality(Claimed(w))
  BY <1>2, <1>3, <1>4 DEF CountsMore
<1>6. ASSUME NEW v \in Workers \ {w}
      PROVE  Load(v)' + Cardinality(Claimed(v)') = Load(v) + Cardinality(Claimed(v))
  BY <1>2, <1>3 DEF CountsMore
<1> QED  BY <1>3, <1>5, <1>6 DEF CapacityInv, ClaimsBounded

\* A completion lowers a load.
LEMMA CompletionBounded ==
    ASSUME CapacityInv, NEW w \in Workers, NEW j \in Job, Frees(w, j), ClaimsKept(Reservers)
    PROVE  ClaimsFit' /\ ClaimsBounded'
<1>1. PICK bound \in Int : bound = MAX_RESOURCES + Cardinality(Schedulers) * LargestThatFits
  BY ConstantsType, ProntoAssumption, FS_CardinalityType, LargestBounds
<1>2. CountsLess(w, j)
  BY CountsCompletion DEF CapacityInv
<1>3. ClaimsFit' /\ \A v \in Workers : Claimed(v)' = Claimed(v)
  BY KeptCount DEF CapacityInv
<1>4. ASSUME NEW v \in Workers  PROVE Load(v)' + Cardinality(Claimed(v)') <= bound
  <2>1. /\ Load(v) \in Nat /\ Load(w) \in Nat /\ Request[j] \in Nat
        /\ Cardinality(Claimed(v)) \in Nat
    BY CountsType, ConstantsType, ClaimedFinite DEF CapacityInv
  <2>2. Load(v)' = Load(v) \/ Load(v)' = Load(v) - Request[j]
    BY <1>2 DEF CountsLess
  <2>3. Load(v) + Cardinality(Claimed(v)) <= bound
    BY <1>1 DEF CapacityInv, ClaimsBounded
  <2>4. Cardinality(Claimed(v)') = Cardinality(Claimed(v))
    BY <1>3
  <2> QED  BY <1>1, <2>1, <2>2, <2>3, <2>4
<1> QED  BY <1>1, <1>3, <1>4 DEF ClaimsBounded

\* A step that touches neither the books nor the claims.
LEMMA NothingBounded ==
    ASSUME CapacityInv, BooksKept, ClaimsKept(Reservers)
    PROVE  ClaimsFit' /\ ClaimsBounded'
<1>1. /\ ClaimsFit'
      /\ \A v \in Workers : Claimed(v)' = Claimed(v) /\ Load(v)' = Load(v)
  BY KeptCount, SumsKept DEF CapacityInv
<1> QED  BY <1>1 DEF CapacityInv, ClaimsBounded

\* Every step is one of these.
LEMMA ClaimsNext ==
    TypeInv /\ JobInv /\ TypeInv' /\ JobInv' /\ CapacityInv /\ [Next]_vars
        => ClaimsFit' /\ ClaimsBounded'
<1> SUFFICES ASSUME TypeInv, JobInv, TypeInv', JobInv', CapacityInv, [Next]_vars
             PROVE  ClaimsFit' /\ ClaimsBounded'
  OBVIOUS
<1>1. /\ <<"rescheduler", 0>> \in Reservers
      /\ \A s \in Schedulers : <<"scheduler", s>> \in Reservers
  BY DEF Reservers
<1>2. CASE BooksKept /\ ~Reserving /\ ~Freeing
  <2>1. ASSUME NEW s \in Schedulers, Scheduler(s)  PROVE ClaimsFit' /\ ClaimsBounded'
    <3>1. CASE ClaimsKept(Reservers)
      BY <1>2, <3>1, NothingBounded
    <3>2. ASSUME NEW b, SchedulerFit(s), b # NoFit,
                 b = pronto_best_current_fit(Request[sched[s].node]),
                 Claims(<<"scheduler", s>>, b, sched[s].node)
          PROVE  ClaimsFit' /\ ClaimsBounded'
      <4>1. sched[s].node \in Job
        BY <3>2 DEF SchedulerFit, TypeInv, ThreadsHoldJobs
      <4> QED  BY <1>1, <1>2, <3>2, <4>1, SearchBounded
    <3> QED  BY <1>2, <2>1, <3>1, <3>2, SchedulerClaims DEF Reserving
  <2>2. ASSUME Rescheduler  PROVE ClaimsFit' /\ ClaimsBounded'
    <3>1. CASE ClaimsKept(Reservers)
      BY <1>2, <3>1, NothingBounded
    <3>2. ASSUME NEW b, waiting_queue # <<>>, b # NoFit,
                 b = pronto_best_current_fit(Request[Head(waiting_queue)]),
                 Claims(<<"rescheduler", 0>>, b, Head(waiting_queue))
          PROVE  ClaimsFit' /\ ClaimsBounded'
      <4>1. Head(waiting_queue) \in Job
        BY <3>2 DEF TypeInv, TypeOK
      <4> QED  BY <1>1, <1>2, <3>2, <4>1, SearchBounded
    <3> QED  BY <1>2, <2>2, <3>1, <3>2, ReschedulerClaims DEF Reserving
  <2>3. CASE (\A s \in Schedulers : ~Scheduler(s)) /\ ~Rescheduler
    BY <1>2, <2>3, OthersClaim, NothingBounded
  <2> QED  BY <2>1, <2>2, <2>3
<1>3. ASSUME NEW s \in Schedulers, SchedulerReserve(s), Reserves(sched[s].fit, sched[s].node)
      PROVE  ClaimsFit' /\ ClaimsBounded'
  <2>1. sched[s].fit \in Workers /\ sched[s].node \in Job
    BY <1>3 DEF SchedulerReserve, TypeInv, ThreadsHoldJobs
  <2>2. Uses(<<"scheduler", s>>, sched[s].fit, sched[s].node)
    BY <1>3, SchedulerClaims DEF Scheduler
  <2> QED  BY <1>1, <1>3, <2>1, <2>2, ReservationBounded
<1>4. ASSUME ReschedulerReserve, Reserves(resched.fit, Head(waiting_queue))
      PROVE  ClaimsFit' /\ ClaimsBounded'
  <2>1. resched.fit \in Workers /\ Head(waiting_queue) \in Job
    BY <1>4 DEF ReschedulerReserve, TypeInv, TypeOK, ThreadsHoldJobs
  <2>2. Uses(<<"rescheduler", 0>>, resched.fit, Head(waiting_queue))
    BY <1>4, ReschedulerClaims DEF Rescheduler
  <2> QED  BY <1>1, <1>4, <2>1, <2>2, ReservationBounded
<1>5. ASSUME NEW h \in Handlers, NEW w \in Workers, NEW j \in Job, job_done(h, w, j), Frees(w, j)
      PROVE  ClaimsFit' /\ ClaimsBounded'
  <2>1. ClaimsKept(Reservers)
    BY <1>5, OthersClaim DEF Freeing
  <2> QED  BY <1>5, <2>1, CompletionBounded
<1> QED  BY <1>2, <1>3, <1>4, <1>5, BookSteps

\* At the start nobody claims anything.
LEMMA ClaimsInit == Init => ClaimsFit /\ ClaimsBounded
<1> SUFFICES ASSUME Init  PROVE ClaimsFit /\ ClaimsBounded
  OBVIOUS
<1>1. (\A s \in Schedulers : sched[s].pc = "wait") /\ resched.pc = "wait"
  BY DEF Init, Idle
<1>2. \A t \in Reservers, w \in Workers : Claim(t, w) = 0
  BY <1>1 DEF Reservers, Claim
<1>3. ClaimsFit
  BY <1>2, LargestBounds DEF ClaimsFit
<1>4. ASSUME NEW w \in Workers  PROVE Cardinality(Claimed(w)) = 0
  <2>1. Claimed(w) = {}
    <3> SUFFICES ASSUME NEW c \in Claimed(w)  PROVE FALSE
      OBVIOUS
    <3>1. c[1] \in Reservers /\ c[2] \in 1..LargestThatFits /\ c[2] <= Claim(c[1], w)
      BY DEF Claimed
    <3> QED  BY <1>2, <3>1
  <2> QED  BY <2>1, FS_EmptySet
<1>5. \A w \in Workers : Load(w) = 0
  BY BooksInit
<1>6. \A a, b \in Nat : 0 <= a * b /\ a * b \in Nat
  OBVIOUS
<1>7. PICK m \in Nat : m = Cardinality(Schedulers) * LargestThatFits
  BY <1>6, ProntoAssumption, FS_CardinalityType, LargestBounds
<1>8. ClaimsBounded
  BY <1>4, <1>5, <1>7, ConstantsType DEF ClaimsBounded
<1> QED  BY <1>3, <1>8

\* The inductive invariant of the capacity of the cluster.
THEOREM CapacityInvariant == Spec => []CapacityInv
<1>1. Init => CapacityInv
  BY BooksInit, ClaimsInit DEF CapacityInv
<1>2. TypeInv /\ JobInv /\ TypeInv' /\ JobInv' /\ CapacityInv /\ [Next]_vars => CapacityInv'
  BY BooksNext, ClaimsNext DEF CapacityInv
<1> QED  BY <1>1, <1>2, TypeInvariant, JobInvariant, PTL DEF Spec

\* Threads that search and reserve in two critical sections reserve the same units
\* twice, but never more than one job for each scheduler.
THEOREM Overcommit == Spec => []OvercommitBounded
BY CapacityInvariant, ClaimsBoundLoads, PTL

\* And neither that nor the wrapping of the counters ever makes a search pick a worker
\* that has less room than it seems, or than another one.
THEOREM PicksLeastBusy == Spec => PickIsLeastBusy
<1>1. ASSUME TypeInv, CapacityInv, NEW j \in Job, NEW b,
             b = pronto_best_current_fit(Request[j]), b # NoFit
      PROVE  LeastBusy(b, j)
  <2>1. Request[j] \in Nat
    BY ConstantsType
  <2> QED  BY <1>1, <2>1, SearchIsExact, ClaimsBoundLoads DEF CapacityInv, LeastBusy, HasRoom
<1>2. ASSUME TypeInv, CapacityInv, [Next]_vars, NEW s \in Schedulers,
             sched[s].pc = "fit", sched'[s].pc = "reserve"
      PROVE  LeastBusy(sched'[s].fit, sched[s].node)
  <2>1. /\ sched \in [Schedulers -> [pc   : SchedPc,
                                     node : Job \cup {NULL},
                                     fit  : Workers \cup {NoFit}]]
        /\ sched[s].node \in Job
    BY <1>2 DEF TypeInv, TypeOK, ThreadsHoldJobs
  <2>2. ~Rescheduler
    BY <1>2 DEF Rescheduler, ReschedulerWait, ReschedulerLock, ReschedulerCheck,
       ReschedulerReserve, ReschedulerAddJob, ReschedulerPost
  <2>3. PICK u \in Schedulers : Scheduler(u)
    BY <1>2, <2>2, OthersClaim
  <2>4. u = s
    BY <1>2, <2>1, <2>3 DEF Scheduler, SchedulerWait, SchedulerDequeue, SchedulerFit,
       SchedulerPark, SchedulerReserve, SchedulerAddJob, SchedulerPost
  <2>5. SchedulerFit(s)
    BY <1>2, <2>3, <2>4 DEF Scheduler, SchedulerWait, SchedulerDequeue, SchedulerPark,
       SchedulerReserve, SchedulerAddJob, SchedulerPost
  <2>6. PICK b : b = pronto_best_current_fit(Request[sched[s].node])
    OBVIOUS
  <2>7. sched'[s].fit = b /\ sched'[s].pc = IF b = NoFit THEN "park" ELSE "reserve"
    BY <2>1, <2>5, <2>6 DEF SchedulerFit
  <2> QED  BY <1>1, <1>2, <2>1, <2>6, <2>7
<1>3. ASSUME TypeInv, CapacityInv, [Next]_vars,
             resched.pc = "check", resched'.pc = "reserve"
      PROVE  LeastBusy(resched'.fit, Head(waiting_queue))
  <2>1. /\ resched \in [pc : ReschedPc, node : Job \cup {NULL}, fit : Workers \cup {NoFit}]
        /\ waiting_queue \in Seq(Job)
    BY <1>3 DEF TypeInv, TypeOK
  <2>2. \A s \in Schedulers : ~Scheduler(s)
    BY <1>3 DEF Scheduler, SchedulerWait, SchedulerDequeue, SchedulerFit, SchedulerPark,
       SchedulerReserve, SchedulerAddJob, SchedulerPost
  <2>3. Rescheduler
    BY <1>3, <2>2, OthersClaim
  <2>4. ReschedulerCheck
    BY <1>3, <2>3 DEF Rescheduler, ReschedulerWait, ReschedulerLock, ReschedulerReserve,
       ReschedulerAddJob, ReschedulerPost
  <2> DEFINE b == IF waiting_queue = <<>> THEN NoFit
                  ELSE pronto_best_current_fit(Request[Head(waiting_queue)])
  <2>5. waiting_queue = <<>> => b = NoFit
    OBVIOUS
  <2>6. \/ resched' = Idle
        \/ b # NoFit /\ resched' = [resched EXCEPT !.pc = "reserve", !.fit = b]
    BY <2>4, Zenon DEF ReschedulerCheck
  <2>7. waiting_queue # <<>> => b = pronto_best_current_fit(Request[Head(waiting_queue)])
    OBVIOUS
  <2> HIDE DEF b
  <2>8. b # NoFit /\ resched'.fit = b
    <3>1. resched' # Idle
      BY <1>3 DEF Idle
    <3>2. b # NoFit /\ resched' = [resched EXCEPT !.pc = "reserve", !.fit = b]
      BY <2>6, <3>1
    <3> QED  BY <2>1, <3>2
  <2>9. waiting_queue # <<>> /\ Head(waiting_queue) \in Job
    BY <2>1, <2>5, <2>8
  <2> QED  BY <1>1, <1>3, <2>7, <2>8, <2>9
<1>4. TypeInv /\ CapacityInv /\ [Next]_vars
        => [/\ \A s \in Schedulers :
                   sched[s].pc = "fit" /\ sched'[s].pc = "reserve"
                       => LeastBusy(sched'[s].fit, sched[s].node)
            /\ resched.pc = "check" /\ resched'.pc = "reserve"
                   => LeastBusy(resched'.fit, Head(waiting_queue))]_vars
  BY <1>2, <1>3
<1> QED  BY <1>4, TypeInvariant, CapacityInvariant, PTL DEF Spec, PickIsLeastBusy

-------------------------------------------------------------------------------
(* Passes. *)

\* A set of no more than n elements has a numbering below n.
LEMMA Numbering ==
    ASSUME NEW S, IsFiniteSet(S), NEW n \in Nat, Cardinality(S) <= n
    PROVE  \E f \in [S -> 1..n] : \A x, y \in S : f[x] = f[y] => x = y
<1>1. PICK c \in Nat : c = Cardinality(S)
  BY FS_CardinalityType
<1>2. IsFiniteSet(1..c) /\ Cardinality(1..c) = c
  BY <1>1, FS_Interval
<1>3. ExistsBijection(S, 1..c)
  BY <1>1, <1>2, FS_SameCardinalityBij
<1>4. PICK f : f \in Bijection(S, 1..c)
  BY <1>3 DEF ExistsBijection
<1>5. f \in [S -> 1..c] /\ \A x, y \in S : f[x] = f[y] => x = y
  BY <1>4 DEF Bijection, Injection, IsInjective
<1>6. 1..c \subseteq 1..n
  BY <1>1
<1> QED  BY <1>5, <1>6

\* If no worker is over-reserved, all of them but one hold at most what they are.
LEMMA OthersHoldAtMost ==
    ASSUME FinitelyReserved, \A w \in Workers : Load(w) <= MAX_RESOURCES, NEW v \in Workers
    PROVE  Cardinality(AllReservedUnits) - Load(v) <= (CLUSTER_WORKERS - 1) * MAX_RESOURCES
<1> DEFINE Rest == AllReservedUnits \ ReservedUnits(v)
           Spots == (Workers \ {v}) \X (1..MAX_RESOURCES)
           Numbers(w, f) == /\ f \in [ReservedUnits(w) -> 1..MAX_RESOURCES]
                            /\ \A x, y \in ReservedUnits(w) : f[x] = f[y] => x = y
           number == [w \in Workers |-> CHOOSE f : Numbers(w, f)]
           spot == [x \in Rest |-> <<x[1][1], number[x[1][1]][x]>>]
<1>1. ASSUME NEW w \in Workers  PROVE Numbers(w, number[w])
  <2>1. \E f : Numbers(w, f)
    BY Numbering, ConstantsType DEF FinitelyReserved, Load
  <2> QED  BY <2>1
<1>2. ASSUME NEW x \in Rest
      PROVE  x[1][1] \in Workers \ {v} /\ x \in ReservedUnits(x[1][1])
  BY DEF AllReservedUnits, ReservedUnits, Units
<1> HIDE DEF Numbers, number, Rest
<1>3. spot \in Injection(Rest, Spots)
  <2>1. ASSUME NEW x \in Rest
        PROVE  spot[x] = <<x[1][1], number[x[1][1]][x]>> /\ spot[x] \in Spots
    <3>1. number[x[1][1]][x] \in 1..MAX_RESOURCES
      BY <1>1, <1>2 DEF Numbers
    <3> QED  BY <1>2, <3>1
  <2>2. ASSUME NEW x \in Rest, NEW y \in Rest, spot[x] = spot[y]  PROVE x = y
    <3>1. x[1][1] = y[1][1] /\ number[x[1][1]][x] = number[y[1][1]][y]
      BY <2>1, <2>2
    <3> HIDE DEF spot
    <3> QED  BY <1>1, <1>2, <3>1 DEF Numbers
  <2>3. spot \in [Rest -> Spots]
    BY <2>1
  <2> QED  BY <2>2, <2>3 DEF Injection, IsInjective
<1>4. IsFiniteSet(Spots) /\ Cardinality(Spots) = (CLUSTER_WORKERS - 1) * MAX_RESOURCES
  <2>1. IsFiniteSet(Workers) /\ Cardinality(Workers) = CLUSTER_WORKERS
    <3>1. PICK n \in Nat : n = CLUSTER_WORKERS - 1
      BY ConstantsType
    <3>2. IsFiniteSet(0..n) /\ Cardinality(0..n) = n + 1
      BY FS_Interval
    <3> QED  BY <3>1, <3>2, ConstantsType DEF Workers
  <2>2. /\ IsFiniteSet(Workers \ {v})
        /\ Cardinality(Workers \ {v}) = CLUSTER_WORKERS - 1
    BY <2>1, FS_RemoveElement
  <2>3. IsFiniteSet(1..MAX_RESOURCES) /\ Cardinality(1..MAX_RESOURCES) = MAX_RESOURCES
    BY FS_Interval, ConstantsType
  <2> QED  BY <2>2, <2>3, FS_Product
<1>5. Cardinality(Rest) <= Cardinality(Spots)
  <2> HIDE DEF Rest, Spots, spot
  <2> QED  BY <1>3, <1>4, FS_Injection
<1>6. Cardinality(Rest) = Cardinality(AllReservedUnits) - Load(v)
  <2>1. AllReservedUnits \cap ReservedUnits(v) = ReservedUnits(v)
    BY DEF AllReservedUnits
  <2> QED  BY <2>1, FS_Difference DEF FinitelyReserved, Load, Rest
<1> HIDE DEF Spots
<1> QED  BY <1>4, <1>5, <1>6

\* If no worker is over-reserved, the counter of the cluster is not less than the free
\* units of any worker.
LEMMA SumHidesNobody ==
    ASSUME TypeInv, FinitelyReserved, Bookkeeping, \A w \in Workers : Available(w) >= 0,
           NEW v \in Workers
    PROVE  Available(v) <= UInt(current_capacity)
<1>1. PICK all \in Nat, load \in Nat, others \in Nat, total \in Nat :
        /\ all = Cardinality(AllReservedUnits) /\ load = Load(v) /\ total = TotalCapacity
        /\ others = (CLUSTER_WORKERS - 1) * MAX_RESOURCES
        /\ total = others + MAX_RESOURCES
  <2>1. \A n \in Nat \ {0}, m \in Nat : (n - 1) * m \in Nat /\ n * m = (n - 1) * m + m
    OBVIOUS
  <2> QED  BY <2>1, CountsType, ConstantsType DEF TotalCapacity
<1>2. \A w \in Workers : Load(w) <= MAX_RESOURCES
  BY CountsType, ConstantsType DEF Available
<1>3. all - load <= others /\ load <= MAX_RESOURCES
  BY <1>1, <1>2, OthersHoldAtMost
<1>4. Available(v) = MAX_RESOURCES - load /\ current_capacity = SInt(total - all)
  BY <1>1 DEF Available, Bookkeeping
<1>5. PICK x \in Nat : x = total - all /\ MAX_RESOURCES - load <= x /\ x <= total
  BY <1>1, <1>3, ConstantsType
<1>6. x = UINT_MOD * 0 + x /\ x \in 0..(UINT_MOD - 1) /\ 2 * x < UINT_MOD
  BY <1>1, <1>5, CapacityFits, ConstantsType
<1>7. UInt(x) = x
  BY <1>6, ConstantsType, Remainder DEF UInt
<1>8. SInt(x) = x
  BY <1>6, <1>7, ConstantsType, WordsAssumption DEF SInt
<1> QED  BY <1>4, <1>5, <1>7, <1>8

\* A pass of the rescheduler that ends while no worker is over-reserved leaves no job
\* waiting for which any worker has room: the counters then hide nobody, and because the
\* queue is sorted, the head stands for all of it.
THEOREM PassComplete == Spec => PassIsComplete
<1>1. TypeInv /\ QueuesSorted /\ CapacityInv /\ [Next]_vars
        => [resched.pc = "check" /\ resched'.pc = "wait"
               /\ (\A w \in Workers : Available(w) >= 0)
              => \A j \in ToSet(waiting_queue), w \in Workers : ~HasRoom(w, j)]_vars
  <2> SUFFICES ASSUME TypeInv, QueuesSorted, CapacityInv, Next, resched.pc = "check",
                      resched'.pc = "wait", \A w \in Workers : Available(w) >= 0,
                      NEW j \in ToSet(waiting_queue), NEW w \in Workers, HasRoom(w, j)
               PROVE  FALSE
    BY DEF vars, waitingVars
  <2>1. ReschedulerCheck
    BY DEF Next, Handler, schedule, pronto_add_job, schedule_notify, job_done,
           job_done_notify, Scheduler, SchedulerWait, SchedulerDequeue, SchedulerFit,
           SchedulerPark, pronto_add_waiting_job, SchedulerReserve, SchedulerAddJob,
           SchedulerPost, Rescheduler, ReschedulerWait, ReschedulerLock,
           ReschedulerReserve, ReschedulerAddJob, ReschedulerPost, ClusterWorker,
           WorkerWait, WorkerDequeue, WorkerPost, ClientDoneLost, threadVars, TypeInv,
           TypeOK
  <2>2. PICK k \in 1..Len(waiting_queue) : j = waiting_queue[k]
    BY DEF ToSet
  <2>3. waiting_queue \in Seq(Job) /\ TypeOK
    BY DEF TypeInv, TypeOK
  <2>4. waiting_queue # <<>> /\ Head(waiting_queue) = waiting_queue[1]
    BY <2>2, <2>3
  <2>5. /\ Request[Head(waiting_queue)] \in Nat /\ Request[j] \in Nat
        /\ Request[Head(waiting_queue)] <= Request[j]
    BY <2>2, <2>3, <2>4, ConstantsType DEF QueuesSorted, Sorted
  <2>6. pronto_best_current_fit(Request[Head(waiting_queue)]) = NoFit
    BY <2>1, <2>4 DEF ReschedulerCheck, TypeInv, TypeOK
  <2>7. /\ Available(w) \in Int /\ SInt(current_resources[w]) = Available(w)
        /\ current_resources[w] = Available(w)
    BY FreeUnitsAreExact, ClaimsBoundLoads DEF CapacityInv
  <2>8. UInt(current_capacity) \in Int /\ Available(w) <= UInt(current_capacity)
    <3>1. current_capacity \in Int
      BY <2>3 DEF TypeOK
    <3>2. UInt(current_capacity) \in Int
      BY <3>1, ConversionType, ConstantsType
    <3>3. Available(w) <= UInt(current_capacity)
      BY SumHidesNobody DEF CapacityInv
    <3> QED  BY <3>2, <3>3
  <2>9. Request[Head(waiting_queue)] <= Available(w)
    BY <2>5, <2>7 DEF HasRoom
  <2> QED  BY <2>3, <2>5, <2>6, <2>7, <2>8, <2>9, BestFitType
<1> QED  BY <1>1, TypeInvariant, AlwaysSorted, CapacityInvariant, PTL DEF Spec, PassIsComplete
================================================================================
