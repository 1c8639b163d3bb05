-------------------------------- MODULE Locks --------------------------------
(***************************************************************************)
(* The threads of pronto as their synchronisation sees them: which mutex   *)
(* each takes where, what it touches meanwhile, and how main brings them   *)
(* up (main.c, pronto_init, server_init).  It is what justifies that in    *)
(* Pronto a critical section is one step.  The jobs are only counted, and  *)
(* whether one fits, and where, is open.                                   *)
(***************************************************************************)
EXTENDS Integers, FiniteSets

CONSTANTS
  Schedulers, Handlers, \* threads
  Workers,              \* the cluster workers: w names its dispatcher and its mutex too
  NONE,                 \* no thread, no worker
  MaxJobs               \* bound: requests to /schedule

VARIABLES
  pc,      \* per thread: where it is
  target,  \* per thread: the worker its search found
  owner,   \* per mutex: the thread that holds it
  ready,   \* what main has initialised
  jobs,    \* per queue: the jobs in it
  sem,     \* per semaphore: its value
  running, \* jobs at the worker machines
  sent     \* requests to /schedule so far

vars == <<pc, target, owner, ready, jobs, sem, running, sent>>
dataVars == <<jobs, sem, running, sent>>

Thread == Schedulers \cup Handlers \cup Workers \cup {"rescheduler", "main"}
Mutex == {"queue", "bookkeeper", "waiting"} \cup Workers
Queue == {"queue", "waiting"} \cup Workers
Sem == {"notify", "reschedule"} \cup Workers

ASSUME LocksAssumption ==
  /\ IsFiniteSet(Schedulers) /\ IsFiniteSet(Handlers) /\ IsFiniteSet(Workers)
  /\ Schedulers \cap (Handlers \cup Workers) = {} /\ Handlers \cap Workers = {}
  /\ {"rescheduler", "main"} \cap (Schedulers \cup Handlers \cup Workers) = {}
  /\ {"queue", "bookkeeper", "waiting", "notify", "reschedule", "counters", "total"}
       \cap Workers = {}
  /\ NONE \notin Thread /\ MaxJobs \in Nat

Init ==
  /\ pc = [t \in Thread |-> IF t = "main" THEN "shared" ELSE "none"]
  /\ target = [t \in Thread |-> NONE]
  /\ owner = [m \in Mutex |-> NONE]
  /\ ready = {}
  /\ jobs = [q \in Queue |-> 0] /\ sem = [s \in Sem |-> 0]
  /\ running = 0 /\ sent = 0

At(t, p) == pc[t] = p
Go(t, p) == pc' = [pc EXCEPT ![t] = p]

----------------------------------------------------------------------------
(* main: pronto_init, then server_init and server_loop. *)

InitShared ==
  /\ At("main", "shared") /\ Go("main", "schedulers")
  /\ ready' = {"queue", "bookkeeper", "waiting", "notify", "reschedule"}
  /\ UNCHANGED <<target, owner, dataVars>>

\* scheduler_worker_init; the loop ends when all run.
StartScheduler(s) ==
  /\ At("main", "schedulers") /\ At(s, "none") /\ Go(s, "wait")
  /\ UNCHANGED <<target, owner, ready, dataVars>>
SchedulersRun ==
  /\ At("main", "schedulers") /\ \A s \in Schedulers : ~At(s, "none")
  /\ Go("main", "workers")
  /\ UNCHANGED <<target, owner, ready, dataVars>>

\* cluster_worker_init: the mutex, the counters, the queue and the semaphore, then the thread.
InitWorker(w) ==
  /\ At("main", "workers") /\ At(w, "none") /\ Go(w, "wait")
  /\ ready' = ready \cup {w}
  /\ UNCHANGED <<target, owner, dataVars>>

\* Seeded defect: the server is set up before the capacities.
WorkersRunServerFirst ==
  /\ At("main", "workers") /\ \A w \in Workers : ~At(w, "none")
  /\ pc' = [pc EXCEPT !["main"] = "handlers", !["rescheduler"] = "wait"]
  /\ UNCHANGED <<target, owner, ready, dataVars>>

\* The capacities of the cluster are set when all workers run, then rescheduler_init.
WorkersRun ==
  /\ At("main", "workers") /\ \A w \in Workers : ~At(w, "none")
  /\ ready' = ready \cup {"capacity"}
  /\ pc' = [pc EXCEPT !["main"] = "handlers", !["rescheduler"] = "wait"]
  /\ UNCHANGED <<target, owner, dataVars>>

StartHandler(h) ==
  /\ At("main", "handlers") /\ At(h, "none") /\ Go(h, "idle")
  /\ UNCHANGED <<target, owner, ready, dataVars>>
HandlersRun ==
  /\ At("main", "handlers") /\ \A h \in Handlers : ~At(h, "none")
  /\ Go("main", "accept")
  /\ UNCHANGED <<target, owner, ready, dataVars>>

Main == InitShared \/ SchedulersRun \/ WorkersRun \/ HandlersRun
        \/ (\E s \in Schedulers : StartScheduler(s))
        \/ (\E w \in Workers : InitWorker(w)) \/ (\E h \in Handlers : StartHandler(h))

----------------------------------------------------------------------------
(* The mutexes. *)

\* Seeded defect: what is freed is guarded by the mutex of a worker.
WantsWorkerToFree(t) ==
  CASE pc[t] = "lock_queue" -> "queue"
    [] pc[t] \in {"lock_search", "lock_reserve"} -> "bookkeeper"
    [] pc[t] = "lock_free" -> CHOOSE w \in Workers : TRUE
    [] pc[t] = "lock_waiting" -> "waiting"
    [] pc[t] = "lock_add" -> target[t]
    [] pc[t] = "lock_own" -> t
    [] OTHER -> NONE

\* The mutex a thread is about to lock, NONE anywhere else, and where it is then.
Wants(t) ==
  CASE pc[t] = "lock_queue" -> "queue"
    [] pc[t] \in {"lock_search", "lock_reserve", "lock_free"} -> "bookkeeper"
    [] pc[t] = "lock_waiting" -> "waiting"
    [] pc[t] = "lock_add" -> target[t]
    [] pc[t] = "lock_own" -> t
    [] OTHER -> NONE
Inside(t) ==
  CASE pc[t] = "lock_queue" -> IF t \in Handlers THEN "enqueue" ELSE "dequeue"
    [] pc[t] = "lock_search" -> "search"
    [] pc[t] = "lock_reserve" -> "reserve"
    [] pc[t] = "lock_free" -> "free"
    [] pc[t] = "lock_waiting" -> IF t = "rescheduler" THEN "check" ELSE "park"
    [] pc[t] = "lock_add" -> "add"
    [] pc[t] = "lock_own" -> "take"

Lock(t) ==
  /\ Wants(t) # NONE /\ owner[Wants(t)] = NONE
  /\ owner' = [owner EXCEPT ![Wants(t)] = t]
  /\ Go(t, Inside(t))
  /\ UNCHANGED <<target, ready, dataVars>>

Unlock(m) == owner' = [owner EXCEPT ![m] = NONE]

Enqueue(q) == jobs' = [jobs EXCEPT ![q] = @ + 1]
Dequeue(q) == jobs' = [jobs EXCEPT ![q] = IF @ = 0 THEN 0 ELSE @ - 1]

Wait(t, s, p) ==
  /\ At(t, "wait") /\ sem[s] > 0
  /\ sem' = [sem EXCEPT ![s] = @ - 1]
  /\ Go(t, p)
  /\ UNCHANGED <<target, owner, ready, jobs, running, sent>>

Post(t, s, p) ==
  /\ sem' = [sem EXCEPT ![s] = @ + 1]
  /\ Go(t, p)
  /\ UNCHANGED <<target, owner, ready, jobs, running, sent>>

----------------------------------------------------------------------------
(* The handlers: schedule, with pronto_add_job, and job_done, with pronto_free_capacity. *)

Request(h) ==
  /\ At("main", "accept") /\ At(h, "idle") /\ sent < MaxJobs
  /\ sent' = sent + 1 /\ Go(h, "schedulable")
  /\ UNCHANGED <<target, owner, ready, jobs, sem, running>>

\* pronto_is_schedulable takes no lock.
Schedulable(h) ==
  /\ At(h, "schedulable") /\ \/ Go(h, "lock_queue") \/ Go(h, "idle")
  /\ UNCHANGED <<target, owner, ready, dataVars>>

AddJob(h) ==
  /\ At(h, "enqueue") /\ Go(h, "notify")
  /\ Enqueue("queue") /\ Unlock("queue")
  /\ UNCHANGED <<target, ready, sem, running, sent>>

Done(h) ==
  /\ At("main", "accept") /\ At(h, "idle") /\ running > 0
  /\ running' = running - 1
  /\ Go(h, "lock_free")
  /\ UNCHANGED <<target, owner, ready, jobs, sem, sent>>

Free(h) ==
  /\ At(h, "free") /\ Go(h, "reschedule")
  /\ Unlock("bookkeeper")
  /\ UNCHANGED <<target, ready, dataVars>>

Callback(h) == \/ Schedulable(h) \/ AddJob(h) \/ Free(h) \/ Lock(h)
               \/ At(h, "notify") /\ Post(h, "notify", "idle")
               \/ At(h, "reschedule") /\ Post(h, "reschedule", "idle")
Handler(h) == Request(h) \/ Done(h) \/ Callback(h)

----------------------------------------------------------------------------
(* What schedulers and the rescheduler share. *)

\* Seeded defect: the early return without a fit forgets the bookkeeper.
SearchKeepsLock(t, nofit) ==
  /\ At(t, "search")
  /\ \/ Go(t, nofit) /\ UNCHANGED <<target, owner>>
     \/ /\ \E w \in Workers : target' = [target EXCEPT ![t] = w]
        /\ Go(t, IF t = "rescheduler" THEN "pop" ELSE "lock_reserve")
        /\ Unlock("bookkeeper")
  /\ UNCHANGED <<ready, dataVars>>

\* pronto_best_current_fit, the early return included.
Search(t, nofit) ==
  /\ At(t, "search")
  /\ \/ Go(t, nofit) /\ UNCHANGED target
     \/ /\ \E w \in Workers : target' = [target EXCEPT ![t] = w]
        /\ Go(t, IF t = "rescheduler" THEN "pop" ELSE "lock_reserve")
  /\ Unlock("bookkeeper")
  /\ UNCHANGED <<ready, dataVars>>

Reserve(t) ==
  /\ At(t, "reserve") /\ Go(t, "lock_add")
  /\ Unlock("bookkeeper")
  /\ UNCHANGED <<target, ready, dataVars>>

\* cluster_worker_add_job
Add(t) ==
  /\ At(t, "add") /\ Go(t, "post")
  /\ Enqueue(target[t]) /\ Unlock(target[t])
  /\ UNCHANGED <<target, ready, sem, running, sent>>

----------------------------------------------------------------------------
(* _scheduler_loop *)

\* Without a job the loop says so and waits again.
SchedulerDequeue(s) ==
  /\ At(s, "dequeue") /\ Go(s, IF jobs["queue"] = 0 THEN "wait" ELSE "lock_search")
  /\ Dequeue("queue") /\ Unlock("queue")
  /\ UNCHANGED <<target, ready, sem, running, sent>>

\* pronto_add_waiting_job
Park(s) ==
  /\ At(s, "park") /\ Go(s, "wait")
  /\ Enqueue("waiting") /\ Unlock("waiting")
  /\ UNCHANGED <<target, ready, sem, running, sent>>

Scheduler(s) == \/ Wait(s, "notify", "lock_queue") \/ SchedulerDequeue(s) \/ Lock(s)
                \/ Search(s, "lock_waiting") \/ Park(s) \/ Reserve(s) \/ Add(s)
                \/ At(s, "post") /\ Post(s, target[s], "wait")

----------------------------------------------------------------------------
(* _rescheduler_loop: waiting_queue_mutex is held from "check" on. *)

Check ==
  /\ At("rescheduler", "check")
  /\ \/ jobs["waiting"] = 0 /\ Go("rescheduler", "wait") /\ Unlock("waiting")
     \/ jobs["waiting"] > 0 /\ Go("rescheduler", "lock_search") /\ UNCHANGED owner
  /\ UNCHANGED <<target, ready, dataVars>>

Pop ==
  /\ At("rescheduler", "pop") /\ Go("rescheduler", "lock_reserve")
  /\ Dequeue("waiting")
  /\ UNCHANGED <<target, owner, ready, sem, running, sent>>

\* Nothing fits: the pass is over.
Stop ==
  /\ At("rescheduler", "stop") /\ Go("rescheduler", "wait")
  /\ Unlock("waiting")
  /\ UNCHANGED <<target, ready, dataVars>>

Rescheduler == LET r == "rescheduler" IN
  \/ Wait(r, "reschedule", "lock_waiting") \/ Lock(r) \/ Check \/ Search(r, "stop")
  \/ Pop \/ Stop \/ Reserve(r) \/ Add(r)
  \/ At(r, "post") /\ Post(r, target[r], "check")

----------------------------------------------------------------------------
(* _cluster_loop: the dispatcher of w. *)

Take(w) ==
  /\ At(w, "take") /\ Go(w, "perform")
  /\ Dequeue(w) /\ Unlock(w)
  /\ UNCHANGED <<target, ready, sem, running, sent>>

\* The job gets to the worker machine and a line is printed, or neither.
Perform(w) ==
  /\ At(w, "perform")
  /\ \/ running' = running + 1 /\ Go(w, "print")
     \/ UNCHANGED running /\ Go(w, "wait")
  /\ UNCHANGED <<target, owner, ready, jobs, sem, sent>>

PrintRemaining(w) ==
  /\ At(w, "print") /\ Go(w, "wait")
  /\ UNCHANGED <<target, owner, ready, dataVars>>

Dispatcher(w) == Wait(w, w, "lock_own") \/ Lock(w) \/ Take(w) \/ Perform(w) \/ PrintRemaining(w)

Next == Main \/ Rescheduler \/ (\E s \in Schedulers : Scheduler(s))
        \/ (\E h \in Handlers : Handler(h)) \/ (\E w \in Workers : Dispatcher(w))
Spec == Init /\ [][Next]_vars

\* A thread that can run will; only a worker machine may not answer, now and then or ever.
FairSpec == /\ Spec /\ WF_vars(Main) /\ WF_vars(Rescheduler)
            /\ \A s \in Schedulers : WF_vars(Scheduler(s))
            /\ \A h \in Handlers : WF_vars(Callback(h))
            /\ \A w \in Workers : WF_vars(Dispatcher(w) /\ ~Perform(w))

----------------------------------------------------------------------------
Pc == {"none", "shared", "schedulers", "workers", "handlers", "accept",
       "idle", "schedulable", "lock_queue", "enqueue", "notify", "lock_free", "free",
       "reschedule", "wait", "dequeue", "lock_search", "search", "lock_waiting", "park",
       "lock_reserve", "reserve", "lock_add", "add", "post", "check", "pop", "stop",
       "lock_own", "take", "perform", "print"}

TypeOK ==
  /\ pc \in [Thread -> Pc] /\ target \in [Thread -> Workers \cup {NONE}]
  /\ owner \in [Mutex -> Thread \cup {NONE}]
  /\ ready \subseteq Mutex \cup Sem \cup {"capacity"}
  /\ jobs \in [Queue -> Nat] /\ sem \in [Sem -> Nat]
  /\ running \in Nat /\ sent \in 0 .. MaxJobs

(* The threads never wait for each other in a circle, though the rescheduler locks
   bookkeeper and the mutex of a worker while it holds waiting_queue_mutex
   (rescheduler.c:22-46).  *)
NoCircularWait ==
  \A S \in (SUBSET Thread) \ {{}} :
    \E t \in S : Wants(t) = NONE \/ owner[Wants(t)] \notin S

\* What a thread reads or writes where it is, and what of it it writes.  Counters that are
\* read to be printed are left out: they are read without the lock (cluster_worker.c:101).
Touches(t) ==
  CASE pc[t] \in {"enqueue", "dequeue"} -> {"queue"}
    [] pc[t] \in {"search", "reserve", "free"} -> {"counters"}
    [] pc[t] \in {"park", "check", "pop"} -> {"waiting"}
    [] pc[t] = "add" -> {target[t]}
    [] pc[t] = "take" -> {t}
    [] pc[t] = "schedulable" -> {"total"}
    [] pc[t] = "workers" -> {"counters", "total"}
    [] OTHER -> {}
Writes(t) == IF pc[t] \in {"search", "check", "schedulable"} THEN {} ELSE Touches(t)

(* Whenever a thread writes a queue, the counters or the constants of the cluster, no other
   is writing it or reading it to decide on it: the mutexes are the right ones everywhere (pronto.c:95-215,
   cluster_worker.c:57-59) and main is done with what the handlers read unlocked.  *)
NoRace == \A t, u \in Thread : t # u => Writes(t) \cap Touches(u) = {}

\* What a thread needs to be initialised where it is.
Uses(t) ==
  ({Wants(t)} \ {NONE}) \cup
  (IF pc[t] \in {"schedulable", "search", "reserve", "free"} THEN {"capacity"} ELSE {}) \cup
  (IF pc[t] # "wait" THEN {}
   ELSE IF t \in Schedulers THEN {"notify"}
   ELSE IF t = "rescheduler" THEN {"reschedule"} ELSE {t})

(* Threads run as soon as they are created, the schedulers before there are workers; still
   nobody uses a mutex, a semaphore or the capacities before main has set them up
   (pronto.c:21-83, server.c:62-132).  *)
ReadyWhenUsed == \A t \in Thread : Uses(t) \subseteq ready

(* A thread that wants a mutex gets it, even if a worker machine never answers its
   dispatcher, which waits for it without a timeout but without a mutex too
   (cluster_worker.c:90).  *)
LockIsGranted == \A t \in Thread : (Wants(t) # NONE) ~> (Wants(t) = NONE)
=============================================================================
