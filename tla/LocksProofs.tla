------------------------------ MODULE LocksProofs ------------------------------
(***************************************************************************)
(* Theorems about Locks, for any number of threads, workers and requests:  *)
(* the threads never wait for each other in a circle.                      *)
(***************************************************************************)
EXTENDS Locks, TLAPS

\* The mutexes a thread holds, told from where it is.
Holds(t) ==
  (IF pc[t] \in {"enqueue", "dequeue"} THEN {"queue"} ELSE {}) \cup
  (IF pc[t] \in {"search", "reserve", "free"} THEN {"bookkeeper"} ELSE {}) \cup
  (IF pc[t] = "park" \/ (t = "rescheduler" /\ pc[t] \notin {"none", "wait", "lock_waiting"})
   THEN {"waiting"} ELSE {}) \cup
  (IF pc[t] = "add" THEN {target[t]} ELSE {}) \cup
  (IF pc[t] = "take" THEN {t} ELSE {})

\* Where a thread can be.
Placing == {"lock_search", "search", "lock_reserve", "reserve", "lock_add", "add", "post"}
Places(t) ==
  IF t \in Schedulers
  THEN {"none", "wait", "lock_queue", "dequeue", "lock_waiting", "park"} \cup Placing
  ELSE IF t \in Handlers
  THEN {"none", "idle", "schedulable", "lock_queue", "enqueue", "notify", "lock_free", "free",
        "reschedule"}
  ELSE IF t \in Workers THEN {"none", "wait", "lock_own", "take", "perform", "print"}
  ELSE IF t = "rescheduler"
  THEN {"none", "wait", "lock_waiting", "check", "pop", "stop"} \cup Placing
  ELSE {"shared", "schedulers", "workers", "handlers", "accept"}

Placed ==
  \A t \in Thread : /\ pc[t] \in Places(t)
                    /\ pc[t] \in {"pop", "lock_reserve", "reserve", "lock_add", "add", "post"}
                         => target[t] \in Workers

Owners == \A m \in Mutex, t \in Thread : owner[m] = t <=> m \in Holds(t)

\* The rescheduler is started by the step that ends the start of the workers.
Booting ==
  pc["main"] \in {"shared", "schedulers", "workers"} => pc["rescheduler"] = "none"

\* The inductive invariant: the owner of a mutex is the thread that is where it is held.
IInv == TypeOK /\ Placed /\ Owners /\ Booting

-------------------------------------------------------------------------------
\* The threads are told apart by their kinds.
LEMMA Kinds ==
  /\ "rescheduler" \notin Schedulers \cup Handlers \cup Workers
  /\ "main" \notin Schedulers \cup Handlers \cup Workers
  /\ Schedulers \cap Handlers = {} /\ Schedulers \cap Workers = {} /\ Handlers \cap Workers = {}
  /\ NONE \notin Thread /\ Workers \subseteq Thread /\ Handlers \subseteq Thread
  /\ Schedulers \subseteq Thread /\ "rescheduler" \in Thread /\ "main" \in Thread
  /\ Workers \cap {"queue", "bookkeeper", "waiting", "notify", "reschedule"} = {}
  /\ Workers \cap {"counters", "total"} = {}
BY LocksAssumption DEF Thread

\* A step of thread t keeps Owners if what it holds changes as its locking says.
LEMMA OwnersStep ==
  ASSUME TypeOK, Owners, NEW t \in Thread,
         \A u \in Thread \ {t} : Holds(u)' = Holds(u),
         \/ owner' = owner /\ Holds(t)' = Holds(t)
         \/ \E m \in Mutex : /\ owner' = [owner EXCEPT ![m] = NONE]
                             /\ m \in Holds(t) /\ Holds(t)' = Holds(t) \ {m}
         \/ \E m \in Mutex : /\ owner[m] = NONE /\ owner' = [owner EXCEPT ![m] = t]
                             /\ Holds(t)' = Holds(t) \cup {m}
  PROVE  Owners'
<1> USE DEF TypeOK
<1>1. CASE owner' = owner /\ Holds(t)' = Holds(t)
  BY <1>1 DEF Owners
<1>2. ASSUME NEW m \in Mutex, owner' = [owner EXCEPT ![m] = NONE],
             m \in Holds(t), Holds(t)' = Holds(t) \ {m}
      PROVE  Owners'
  <2> SUFFICES ASSUME NEW n \in Mutex, NEW u \in Thread
               PROVE  owner'[n] = u <=> n \in Holds(u)'
    BY DEF Owners
  <2>1. owner[m] = t
    BY <1>2 DEF Owners
  <2> QED  BY <1>2, <2>1, Kinds DEF Owners
<1>3. ASSUME NEW m \in Mutex, owner[m] = NONE, owner' = [owner EXCEPT ![m] = t],
             Holds(t)' = Holds(t) \cup {m}
      PROVE  Owners'
  <2> SUFFICES ASSUME NEW n \in Mutex, NEW u \in Thread
               PROVE  owner'[n] = u <=> n \in Holds(u)'
    BY DEF Owners
  <2> QED  BY <1>3, Kinds DEF Owners
<1> QED  BY <1>1, <1>2, <1>3

\* What the other threads hold does not change.
LEMMA OthersHold ==
  ASSUME NEW t, NEW u, TypeOK, u \in Thread, u # t, NEW p,
         pc' = [pc EXCEPT ![t] = p],
         target' = target \/ \E w : target' = [target EXCEPT ![t] = w]
  PROVE  Holds(u)' = Holds(u)
BY DEF Holds, TypeOK

\* What remains of the type when the places of the threads are left out.
DataType ==
  /\ owner \in [Mutex -> Thread \cup {NONE}]
  /\ ready \subseteq Mutex \cup Sem \cup {"capacity"}
  /\ jobs \in [Queue -> Nat] /\ sem \in [Sem -> Nat]
  /\ running \in Nat /\ sent \in 0 .. MaxJobs

HeldStep(t) ==
  \/ owner' = owner /\ Holds(t)' = Holds(t)
  \/ \E m \in Mutex : /\ owner' = [owner EXCEPT ![m] = NONE]
                      /\ m \in Holds(t) /\ Holds(t)' = Holds(t) \ {m}
  \/ \E m \in Mutex : /\ owner[m] = NONE /\ owner' = [owner EXCEPT ![m] = t]
                      /\ Holds(t)' = Holds(t) \cup {m}

NeedsTarget == {"pop", "lock_reserve", "reserve", "lock_add", "add", "post"}

\* A step that moves one thread keeps the invariant if it moves it to one of its places.
LEMMA MoveStep ==
  ASSUME IInv, NEW t \in Thread, NEW p \in Places(t), Go(t, p), DataType',
         target' = target \/ \E w \in Workers : target' = [target EXCEPT ![t] = w],
         p \in NeedsTarget => target'[t] \in Workers,
         t = "rescheduler" => pc[t] # "none",
         t = "main" /\ p # "accept" => pc[t] \in {"shared", "schedulers"},
         HeldStep(t)
  PROVE  IInv'
<1>1. p \in Pc
  BY DEF Places, Placing, Pc
<1>2. TypeOK'
  BY <1>1 DEF IInv, TypeOK, DataType, Go
<1>3. Placed'
  <2> SUFFICES ASSUME NEW u \in Thread
               PROVE  /\ pc'[u] \in Places(u)
                      /\ pc'[u] \in NeedsTarget => target'[u] \in Workers
    BY DEF Placed, Places, NeedsTarget
  <2>1. CASE u = t
    BY <2>1 DEF IInv, TypeOK, Go
  <2>2. CASE u # t
    BY <2>2 DEF IInv, TypeOK, Placed, Go, NeedsTarget
  <2> QED  BY <2>1, <2>2
<1>4. \A u \in Thread \ {t} : Holds(u)' = Holds(u)
  BY OthersHold DEF IInv, Go
<1>5. Owners'
  BY <1>4, OwnersStep DEF IInv, HeldStep
<1>6. Booting'
  <2>1. CASE t = "main"
    <3>1. p = "accept" \/ pc["main"] \in {"shared", "schedulers"}
      BY <2>1
    <3> QED  BY <2>1, <3>1, Kinds DEF IInv, Booting, TypeOK, Go
  <2>2. CASE t # "main"
    BY <2>2, Kinds DEF IInv, Booting, TypeOK, Go
  <2> QED  BY <2>1, <2>2
<1> QED  BY <1>2, <1>3, <1>5, <1>6 DEF IInv

\* Where each thread can be, by its kind.
LEMMA PlacesOf ==
  /\ \A s \in Schedulers :
       Places(s) = {"none", "wait", "lock_queue", "dequeue", "lock_waiting", "park"} \cup Placing
  /\ \A h \in Handlers :
       Places(h) = {"none", "idle", "schedulable", "lock_queue", "enqueue", "notify",
                    "lock_free", "free", "reschedule"}
  /\ \A w \in Workers : Places(w) = {"none", "wait", "lock_own", "take", "perform", "print"}
  /\ Places("rescheduler") = {"none", "wait", "lock_waiting", "check", "pop", "stop"} \cup Placing
  /\ Places("main") = {"shared", "schedulers", "workers", "handlers", "accept"}
BY Kinds DEF Places

\* The start of main.
LEMMA InitIInv == Init => IInv
<1> SUFFICES ASSUME Init PROVE IInv
  OBVIOUS
<1>1. TypeOK
  BY LocksAssumption DEF Init, TypeOK, Pc
<1>2. Placed
  BY PlacesOf, Kinds DEF Init, Placed, Thread
<1>3. Owners
  BY Kinds DEF Init, Owners, Holds, Thread
<1>4. Booting
  BY Kinds DEF Init, Booting
<1> QED  BY <1>1, <1>2, <1>3, <1>4 DEF IInv

\* A step of main.
LEMMA MainStep == ASSUME IInv, Main PROVE IInv'
<1> USE Kinds
<1>1. CASE InitShared
  <2>1. DataType' /\ HeldStep("main") /\ "schedulers" \in Places("main")
    BY <1>1, PlacesOf DEF InitShared, IInv, TypeOK, DataType, HeldStep, Holds, dataVars, At, Go,
       Mutex, Sem
  <2> QED  BY <1>1, <2>1, MoveStep DEF InitShared, NeedsTarget, At
<1>2. CASE SchedulersRun
  <2>1. DataType' /\ HeldStep("main") /\ "workers" \in Places("main")
    BY <1>2, PlacesOf DEF SchedulersRun, IInv, TypeOK, DataType, HeldStep, Holds, dataVars, At, Go
  <2> QED  BY <1>2, <2>1, MoveStep DEF SchedulersRun, NeedsTarget, At
<1>3. CASE HandlersRun
  <2>1. DataType' /\ HeldStep("main") /\ "accept" \in Places("main")
    BY <1>3, PlacesOf DEF HandlersRun, IInv, TypeOK, DataType, HeldStep, Holds, dataVars, At, Go
  <2> QED  BY <1>3, <2>1, MoveStep DEF HandlersRun, NeedsTarget, At
<1>4. ASSUME NEW s \in Schedulers, StartScheduler(s) PROVE IInv'
  <2>1. DataType' /\ HeldStep(s) /\ "wait" \in Places(s)
    BY <1>4, PlacesOf DEF StartScheduler, IInv, TypeOK, DataType, HeldStep, Holds, dataVars, At, Go
  <2> QED  BY <1>4, <2>1, MoveStep DEF StartScheduler, NeedsTarget
<1>5. ASSUME NEW w \in Workers, InitWorker(w) PROVE IInv'
  <2>1. DataType' /\ HeldStep(w) /\ "wait" \in Places(w)
    BY <1>5, PlacesOf DEF InitWorker, IInv, TypeOK, DataType, HeldStep, Holds, dataVars, At, Go, Sem
  <2> QED  BY <1>5, <2>1, MoveStep DEF InitWorker, NeedsTarget
<1>6. ASSUME NEW h \in Handlers, StartHandler(h) PROVE IInv'
  <2>1. DataType' /\ HeldStep(h) /\ "idle" \in Places(h)
    BY <1>6, PlacesOf DEF StartHandler, IInv, TypeOK, DataType, HeldStep, Holds, dataVars, At, Go
  <2> QED  BY <1>6, <2>1, MoveStep DEF StartHandler, NeedsTarget
<1>7. CASE WorkersRun
  <2> USE <1>7 DEF WorkersRun
  <2>1. TypeOK'
    BY DEF IInv, TypeOK, Pc, dataVars
  <2>2. Placed'
    BY PlacesOf DEF IInv, TypeOK, Placed, Places
  <2>3. \A t \in Thread : Holds(t)' = Holds(t)
    BY DEF IInv, TypeOK, Holds, At, Booting
  <2>4. Owners'
    BY <2>3 DEF IInv, Owners
  <2>5. Booting'
    BY DEF IInv, TypeOK, Booting
  <2> QED  BY <2>1, <2>2, <2>4, <2>5 DEF IInv
<1> QED  BY <1>1, <1>2, <1>3, <1>4, <1>5, <1>6, <1>7 DEF Main

-------------------------------------------------------------------------------
\* A thread locks the mutex it wants, and is then where it holds it.
LEMMA LockStep == ASSUME IInv, NEW t \in Thread, Lock(t) PROVE IInv'
<1> USE Kinds, PlacesOf DEF Lock
<1>1. /\ pc[t] \in {"lock_queue", "lock_search", "lock_reserve", "lock_free", "lock_waiting",
                   "lock_add", "lock_own"}
      /\ pc[t] \in Places(t) /\ pc \in [Thread -> Pc]
      /\ pc[t] = "lock_add" => target[t] \in Workers
  BY DEF Wants, IInv, Placed, TypeOK
<1>2. /\ t \in Schedulers \cup Handlers \cup Workers \cup {"rescheduler"}
      /\ pc[t] = "lock_own" => t \in Workers
  BY <1>1 DEF Thread, Places, Placing
<1>3. Inside(t) \in Places(t) /\ Wants(t) \in Mutex
  BY <1>1, <1>2 DEF Inside, Wants, Places, Placing, Mutex
<1>4. DataType'
  BY <1>3 DEF IInv, TypeOK, DataType, dataVars
<1>5. /\ Inside(t) \in NeedsTarget => target[t] \in Workers
      /\ t # "main" /\ pc[t] # "none"
  BY <1>1, <1>2 DEF Inside, NeedsTarget, IInv, Placed
<1>6. Holds(t)' = Holds(t) \cup {Wants(t)}
  <2>1. pc'[t] = Inside(t) /\ target' = target
    BY <1>1 DEF Go
  <2> QED  BY <1>1, <1>2, <2>1 DEF Inside, Wants, Holds, Places, Placing
<1> QED  BY <1>3, <1>4, <1>5, <1>6, MoveStep DEF HeldStep

\* A thread that waits is at a semaphore it does not hold a mutex at.
LEMMA WaitStep ==
  ASSUME IInv, NEW t \in Thread, NEW s \in Sem, NEW p, Wait(t, s, p),
         <<t, p>> \in (Schedulers \X {"lock_queue"}) \cup (Workers \X {"lock_own"})
                       \cup {<<"rescheduler", "lock_waiting">>}
  PROVE  IInv'
<1> USE Kinds, PlacesOf DEF Wait, At
<1>1. DataType' /\ p \in Places(t) /\ t # "main"
  BY DEF IInv, TypeOK, DataType
<1>2. Holds(t)' = Holds(t)
  BY DEF Holds, IInv, TypeOK, Go
<1> QED  BY <1>1, <1>2, MoveStep DEF HeldStep, NeedsTarget

\* Posting a semaphore takes no mutex; the rescheduler keeps the one it holds.
LEMMA PostStep ==
  ASSUME IInv, NEW t \in Thread, NEW s \in Sem, NEW p, Post(t, s, p),
         \/ t \in Handlers /\ pc[t] \in {"notify", "reschedule"} /\ p = "idle"
         \/ t \in Schedulers /\ pc[t] = "post" /\ p = "wait"
         \/ t = "rescheduler" /\ pc[t] = "post" /\ p = "check"
  PROVE  IInv'
<1> USE Kinds, PlacesOf DEF Post
<1>1. DataType' /\ p \in Places(t) /\ t # "main" /\ pc[t] # "none"
  BY DEF IInv, TypeOK, DataType
<1>2. Holds(t)' = Holds(t)
  BY DEF Holds, IInv, TypeOK, Go
<1> QED  BY <1>1, <1>2, MoveStep DEF HeldStep, NeedsTarget

\* A thread leaves the search without the bookkeeper, with a target or without.
LEMMA SearchStep ==
  ASSUME IInv, NEW t \in Thread, NEW nofit, Search(t, nofit),
         \/ t \in Schedulers /\ nofit = "lock_waiting"
         \/ t = "rescheduler" /\ nofit = "stop"
  PROVE  IInv'
<1> USE Kinds, PlacesOf DEF Search, At, Unlock
<1>1. DataType' /\ t # "main" /\ "bookkeeper" \in Mutex
  BY DEF IInv, TypeOK, DataType, dataVars, Mutex
<1>2. "bookkeeper" \in Holds(t)
  BY DEF Holds
<1>3. CASE Go(t, nofit) /\ UNCHANGED target
  <2>1. Holds(t)' = Holds(t) \ {"bookkeeper"}
    BY <1>3 DEF Holds, IInv, TypeOK, Go
  <2>2. nofit \in Places(t) /\ nofit \notin NeedsTarget
    BY DEF NeedsTarget
  <2> QED  BY <1>1, <1>2, <1>3, <2>1, <2>2, MoveStep DEF HeldStep
<1>4. ASSUME NEW w \in Workers, target' = [target EXCEPT ![t] = w],
             Go(t, IF t = "rescheduler" THEN "pop" ELSE "lock_reserve")
      PROVE  IInv'
  <2> DEFINE p == IF t = "rescheduler" THEN "pop" ELSE "lock_reserve"
  <2>1. Holds(t)' = Holds(t) \ {"bookkeeper"}
    BY <1>4 DEF Holds, IInv, TypeOK, Go
  <2>2. p \in Places(t) /\ target'[t] \in Workers
    BY <1>4 DEF Placing, IInv, TypeOK
  <2> QED  BY <1>1, <1>2, <1>4, <2>1, <2>2, MoveStep DEF HeldStep
<1> QED  BY <1>3, <1>4

\* Reserving and adding end with the mutex released, on the way to the post.
LEMMA PlaceStep ==
  ASSUME IInv, NEW t \in Schedulers \cup {"rescheduler"}, Reserve(t) \/ Add(t)
  PROVE  IInv'
<1> USE Kinds, PlacesOf DEF At, Unlock
<1>0. t \in Thread /\ t # "main" /\ {"lock_add", "post"} \subseteq Places(t)
      /\ "bookkeeper" \in Mutex /\ Workers \subseteq Mutex /\ Workers \subseteq Queue
  BY DEF Placing, Mutex, Queue
<1>1. CASE Reserve(t)
  <2>1. DataType' /\ target[t] \in Workers /\ target' = target
    BY <1>0, <1>1 DEF Reserve, IInv, TypeOK, DataType, dataVars, Placed
  <2>2. "bookkeeper" \in Holds(t) /\ Holds(t)' = Holds(t) \ {"bookkeeper"}
    BY <1>0, <1>1 DEF Reserve, Holds, IInv, TypeOK, Go
  <2> QED  BY <1>0, <1>1, <2>1, <2>2, MoveStep DEF Reserve, HeldStep
<1>2. CASE Add(t)
  <2>1. target[t] \in Workers /\ target' = target
    BY <1>0, <1>2 DEF Add, IInv, Placed
  <2>2. DataType'
    BY <1>0, <1>2, <2>1 DEF Add, Enqueue, IInv, TypeOK, DataType
  <2>3. target[t] \in Holds(t) /\ Holds(t)' = Holds(t) \ {target[t]}
    BY <1>0, <1>2, <2>1 DEF Add, Holds, IInv, TypeOK, Go
  <2> QED  BY <1>0, <1>2, <2>1, <2>2, <2>3, MoveStep DEF Add, HeldStep
<1> QED  BY <1>1, <1>2

\* A callback of a handler.
LEMMA HandlerStep == ASSUME IInv, NEW h \in Handlers, Handler(h) PROVE IInv'
<1> USE Kinds, PlacesOf DEF At, Unlock
<1>0. h \in Thread /\ h # "main" /\ h # "rescheduler" /\ {"queue", "bookkeeper"} \subseteq Mutex
      /\ "queue" \in Queue /\ {"notify", "reschedule"} \subseteq Sem
  BY DEF Mutex, Queue, Sem
<1>1. CASE Request(h)
  <2>1. DataType' /\ Holds(h)' = Holds(h)
    BY <1>0, <1>1, LocksAssumption DEF Request, IInv, TypeOK, DataType, Holds, Go
  <2> QED  BY <1>0, <1>1, <2>1, MoveStep DEF Request, HeldStep, NeedsTarget
<1>2. CASE Schedulable(h)
  <2>1. DataType' /\ Holds(h)' = Holds(h)
    BY <1>0, <1>2 DEF Schedulable, IInv, TypeOK, DataType, Holds, Go, dataVars
  <2> QED  BY <1>0, <1>2, <2>1, MoveStep DEF Schedulable, HeldStep, NeedsTarget
<1>3. CASE AddJob(h)
  <2>1. DataType' /\ "queue" \in Holds(h) /\ Holds(h)' = Holds(h) \ {"queue"}
    BY <1>0, <1>3 DEF AddJob, Enqueue, IInv, TypeOK, DataType, Holds, Go
  <2> QED  BY <1>0, <1>3, <2>1, MoveStep DEF AddJob, HeldStep, NeedsTarget
<1>4. CASE Done(h)
  <2>1. DataType' /\ Holds(h)' = Holds(h)
    BY <1>0, <1>4 DEF Done, IInv, TypeOK, DataType, Holds, Go
  <2> QED  BY <1>0, <1>4, <2>1, MoveStep DEF Done, HeldStep, NeedsTarget
<1>5. CASE Free(h)
  <2>1. DataType' /\ "bookkeeper" \in Holds(h) /\ Holds(h)' = Holds(h) \ {"bookkeeper"}
    BY <1>0, <1>5 DEF Free, IInv, TypeOK, DataType, Holds, Go, dataVars
  <2> QED  BY <1>0, <1>5, <2>1, MoveStep DEF Free, HeldStep, NeedsTarget
<1> QED
  BY <1>0, <1>1, <1>2, <1>3, <1>4, <1>5, LockStep, PostStep DEF Handler, Callback

\* A step of a scheduler.
LEMMA SchedulerStep == ASSUME IInv, NEW s \in Schedulers, Scheduler(s) PROVE IInv'
<1> USE Kinds, PlacesOf DEF At, Unlock
<1>0. s \in Thread /\ s # "main" /\ s # "rescheduler" /\ {"queue", "waiting"} \subseteq Mutex
      /\ {"queue", "waiting"} \subseteq Queue /\ "notify" \in Sem /\ Workers \subseteq Sem
      /\ {"wait", "lock_search"} \subseteq Places(s)
  BY DEF Mutex, Queue, Sem, Placing
<1>1. CASE SchedulerDequeue(s)
  <2>1. DataType' /\ "queue" \in Holds(s) /\ Holds(s)' = Holds(s) \ {"queue"}
    BY <1>0, <1>1 DEF SchedulerDequeue, Dequeue, IInv, TypeOK, DataType, Holds, Go
  <2> QED  BY <1>0, <1>1, <2>1, MoveStep DEF SchedulerDequeue, HeldStep, NeedsTarget
<1>2. CASE Park(s)
  <2>1. DataType' /\ "waiting" \in Holds(s) /\ Holds(s)' = Holds(s) \ {"waiting"}
    BY <1>0, <1>2 DEF Park, Enqueue, IInv, TypeOK, DataType, Holds, Go
  <2> QED  BY <1>0, <1>2, <2>1, MoveStep DEF Park, HeldStep, NeedsTarget
<1>3. ASSUME At(s, "post"), Post(s, target[s], "wait") PROVE IInv'
  <2>1. target[s] \in Sem
    BY <1>0, <1>3 DEF IInv, Placed
  <2> QED  BY <1>0, <1>3, <2>1, PostStep
<1>4. CASE Wait(s, "notify", "lock_queue")
  BY <1>0, <1>4, WaitStep
<1> QED
  BY <1>0, <1>1, <1>2, <1>3, <1>4, LockStep, SearchStep, PlaceStep DEF Scheduler

\* A step of the rescheduler, which holds waiting_queue_mutex between Lock and Check or Stop.
LEMMA ReschedulerStep == ASSUME IInv, Rescheduler PROVE IInv'
<1> USE Kinds, PlacesOf DEF At, Unlock
<1> DEFINE r == "rescheduler"
<1>0. {"waiting", "bookkeeper"} \subseteq Mutex /\ "waiting" \in Queue /\ "reschedule" \in Sem
      /\ Workers \subseteq Sem /\ {"wait", "lock_search", "lock_reserve"} \subseteq Places(r)
  BY DEF Mutex, Queue, Sem, Placing
<1>1. CASE Check
  <2>1. DataType' /\ "waiting" \in Holds(r)
    BY <1>0, <1>1 DEF Check, IInv, TypeOK, DataType, Holds, dataVars
  <2>2. HeldStep(r)
    BY <1>0, <1>1, <2>1 DEF Check, IInv, TypeOK, Holds, Go, HeldStep
  <2> QED  BY <1>0, <1>1, <2>1, <2>2, MoveStep DEF Check, NeedsTarget
<1>2. CASE Pop
  <2>1. DataType' /\ Holds(r)' = Holds(r)
    BY <1>0, <1>2 DEF Pop, Dequeue, IInv, TypeOK, DataType, Holds, Go
  <2>2. target[r] \in Workers /\ target' = target
    BY <1>0, <1>2 DEF Pop, IInv, Placed
  <2> QED  BY <1>0, <1>2, <2>1, <2>2, MoveStep DEF Pop, HeldStep
<1>3. CASE Stop
  <2>1. DataType' /\ "waiting" \in Holds(r) /\ Holds(r)' = Holds(r) \ {"waiting"}
    BY <1>0, <1>3 DEF Stop, IInv, TypeOK, DataType, Holds, Go, dataVars
  <2> QED  BY <1>0, <1>3, <2>1, MoveStep DEF Stop, HeldStep, NeedsTarget
<1>4. ASSUME At(r, "post"), Post(r, target[r], "check") PROVE IInv'
  <2>1. target[r] \in Sem
    BY <1>0, <1>4 DEF IInv, Placed
  <2> QED  BY <1>0, <1>4, <2>1, PostStep
<1>5. CASE Wait(r, "reschedule", "lock_waiting")
  BY <1>0, <1>5, WaitStep
<1> QED
  BY <1>0, <1>1, <1>2, <1>3, <1>4, <1>5, LockStep, SearchStep, PlaceStep DEF Rescheduler

\* A step of a dispatcher, which holds its mutex for the dequeue alone.
LEMMA DispatcherStep == ASSUME IInv, NEW w \in Workers, Dispatcher(w) PROVE IInv'
<1> USE Kinds, PlacesOf DEF At, Unlock
<1>0. w \in Thread /\ w # "main" /\ w # "rescheduler" /\ w \in Mutex /\ w \in Queue /\ w \in Sem
  BY DEF Mutex, Queue, Sem
<1>1. CASE Take(w)
  <2>1. DataType' /\ w \in Holds(w) /\ Holds(w)' = Holds(w) \ {w}
    BY <1>0, <1>1 DEF Take, Dequeue, IInv, TypeOK, DataType, Holds, Go
  <2> QED  BY <1>0, <1>1, <2>1, MoveStep DEF Take, HeldStep, NeedsTarget
<1>2. CASE Perform(w)
  <2>1. DataType' /\ Holds(w)' = Holds(w)
    BY <1>0, <1>2 DEF Perform, IInv, TypeOK, DataType, Holds, Go
  <2> QED  BY <1>0, <1>2, <2>1, MoveStep DEF Perform, HeldStep, NeedsTarget
<1>3. CASE PrintRemaining(w)
  <2>1. DataType' /\ Holds(w)' = Holds(w)
    BY <1>0, <1>3 DEF PrintRemaining, IInv, TypeOK, DataType, Holds, Go, dataVars
  <2> QED  BY <1>0, <1>3, <2>1, MoveStep DEF PrintRemaining, HeldStep, NeedsTarget
<1>4. CASE Wait(w, w, "lock_own")
  BY <1>0, <1>4, WaitStep
<1> QED
  BY <1>0, <1>1, <1>2, <1>3, <1>4, LockStep DEF Dispatcher

\* Every step keeps the invariant.
LEMMA NextIInv == IInv /\ [Next]_vars => IInv'
<1> SUFFICES ASSUME IInv, [Next]_vars PROVE IInv'
  OBVIOUS
<1>1. CASE UNCHANGED vars
  <2>1. \A t \in Thread : Holds(t)' = Holds(t)
    BY <1>1 DEF vars, Holds
  <2> QED
    BY <1>1, <2>1 DEF vars, dataVars, IInv, TypeOK, Placed, Owners, Booting
<1> QED
  BY <1>1, MainStep, HandlerStep, SchedulerStep, ReschedulerStep, DispatcherStep DEF Next

\* The invariant holds of every reachable state.
LEMMA Invariance == Spec => []IInv
BY InitIInv, NextIInv, PTL DEF Spec

-------------------------------------------------------------------------------
(* Every variable keeps its type, whatever the number of threads and requests.  *)
THEOREM LocksType == Spec => []TypeOK
BY Invariance, PTL DEF IInv

\* Only the rescheduler holds a mutex where it wants another, and it is the first of the two.
LEMMA HoldAndWant ==
  ASSUME IInv, NEW t \in Thread, Wants(t) # NONE, NEW m \in Holds(t)
  PROVE  t = "rescheduler" /\ m = "waiting" /\ Wants(t) # "waiting"
<1>1. pc[t] \in {"lock_queue", "lock_search", "lock_reserve", "lock_free", "lock_waiting",
                "lock_add", "lock_own"}
  BY DEF Wants
<1>2. t = "rescheduler" /\ m = "waiting" /\ pc[t] # "lock_waiting"
  BY <1>1 DEF Holds
<1>3. pc[t] = "lock_add" => target[t] \in Workers
  BY DEF IInv, Placed
<1> QED  BY <1>1, <1>2, <1>3, Kinds DEF Wants

\* A mutex that somebody waits for is a mutex.
LEMMA WantsMutex ==
  ASSUME IInv, NEW t \in Thread, Wants(t) # NONE
  PROVE  Wants(t) \in Mutex
<1>1. pc[t] \in Places(t) /\ (pc[t] = "lock_add" => target[t] \in Workers)
  BY DEF IInv, Placed
<1>2. pc[t] = "lock_own" => t \in Workers
  BY <1>1 DEF Places, Placing
<1> QED  BY <1>1, <1>2 DEF Wants, Mutex

(* No threads, however many, wait for each other in a circle: two links of one would both
   end at the rescheduler, that wants waiting_queue_mutex at no place where it holds it
   (rescheduler.c:22-46).  *)
THEOREM LocksNoCircularWait == Spec => []NoCircularWait
<1>1. IInv => NoCircularWait
  <2> SUFFICES ASSUME IInv, NEW S \in SUBSET Thread, S # {},
                      \A t \in S : Wants(t) # NONE /\ owner[Wants(t)] \in S
               PROVE  FALSE
    BY DEF NoCircularWait
  <2>1. \A t \in S : /\ owner[Wants(t)] = "rescheduler" /\ "rescheduler" \in S
                     /\ Wants(t) = "waiting"
    <3> SUFFICES ASSUME NEW t \in S
                 PROVE  /\ owner[Wants(t)] = "rescheduler" /\ "rescheduler" \in S
                        /\ Wants(t) = "waiting"
      OBVIOUS
    <3>1. Wants(t) \in Holds(owner[Wants(t)])
      BY WantsMutex DEF IInv, Owners
    <3> QED  BY <3>1, HoldAndWant
  <2>2. "waiting" \in Holds("rescheduler")
    BY <2>1, Kinds DEF IInv, Owners, Mutex
  <2> QED  BY <2>1, <2>2, HoldAndWant
<1> QED  BY <1>1, Invariance, PTL

-------------------------------------------------------------------------------
\* Until the server accepts connections the threads are where they begin.
Quiet ==
  pc["main"] # "accept" =>
    /\ \A t \in Thread \ {"main"} : pc[t] \in {"none", "wait", "idle"}
    /\ \A s \in Sem : sem[s] = 0
    /\ running = 0

Shared == {"queue", "bookkeeper", "waiting", "notify", "reschedule"}

\* What is ready at each stage of main, and what threads there may be by then.
SetUp ==
  /\ pc["main"] = "shared" => \A t \in Thread \ {"main"} : pc[t] = "none"
  /\ pc["main"] # "shared" => Shared \subseteq ready
  /\ \A w \in Workers : pc[w] # "none" => w \in ready
  /\ pc["main"] \in {"handlers", "accept"} =>
       "capacity" \in ready /\ \A w \in Workers : pc[w] # "none"

Boot == IInv /\ Quiet /\ SetUp

\* A step of a thread other than main: where it can begin.
ThreadStep(t) ==
  /\ ready' = ready
  /\ \E p : p # "none" /\ Go(t, p)
  /\ \/ pc[t] \notin {"none", "wait", "idle"}
     \/ \E s \in Sem : sem[s] > 0
     \/ pc["main"] = "accept"

\* A lock is never taken where threads begin.
LEMMA LockThread ==
  ASSUME IInv, NEW t \in Thread, Lock(t) PROVE ThreadStep(t)
<1>1. pc[t] \notin {"none", "wait", "idle"} /\ Inside(t) # "none"
  BY DEF Lock, Wants, Inside
<1> QED  BY <1>1 DEF Lock, ThreadStep

\* The same of what schedulers and the rescheduler share, and of waiting and posting.
LEMMA SharedThread ==
  ASSUME NEW t \in Thread, NEW s, NEW p, p # "none",
         \/ s \in Sem /\ Wait(t, s, p)
         \/ Post(t, s, p) /\ pc[t] \in {"notify", "reschedule", "post"}
         \/ Search(t, p) \/ Reserve(t) \/ Add(t)
  PROVE  ThreadStep(t)
<1> USE DEF ThreadStep, At
<1>1. CASE s \in Sem /\ Wait(t, s, p)
  BY <1>1 DEF Wait
<1>2. CASE Post(t, s, p) /\ pc[t] \in {"notify", "reschedule", "post"}
  BY <1>2 DEF Post
<1>3. CASE Search(t, p)
  BY <1>3 DEF Search
<1>4. CASE Reserve(t) \/ Add(t)
  BY <1>4 DEF Reserve, Add
<1> QED  BY <1>1, <1>2, <1>3, <1>4

\* Every step that is not one of main is such a step.
LEMMA NotMain ==
  ASSUME IInv, Next, ~Main
  PROVE  \E t \in Thread \ {"main"} : ThreadStep(t)
<1> USE Kinds DEF At
<1>1. ASSUME NEW h \in Handlers, Handler(h) PROVE ThreadStep(h)
  <2>1. CASE Request(h) \/ Done(h)
    BY <2>1 DEF Request, Done, ThreadStep
  <2>2. CASE Schedulable(h) \/ AddJob(h) \/ Free(h)
    BY <2>2 DEF Schedulable, AddJob, Free, ThreadStep
  <2> QED  BY <1>1, <2>1, <2>2, LockThread, SharedThread DEF Handler, Callback
<1>2. ASSUME NEW s \in Schedulers, Scheduler(s) PROVE ThreadStep(s)
  <2>1. CASE SchedulerDequeue(s) \/ Park(s)
    BY <2>1 DEF SchedulerDequeue, Park, ThreadStep
  <2> QED  BY <1>2, <2>1, LockThread, SharedThread DEF Scheduler, Sem
<1>3. ASSUME Rescheduler PROVE ThreadStep("rescheduler")
  <2>1. CASE Check \/ Pop \/ Stop
    BY <2>1 DEF Check, Pop, Stop, ThreadStep
  <2> QED  BY <1>3, <2>1, LockThread, SharedThread DEF Rescheduler, Sem
<1>4. ASSUME NEW w \in Workers, Dispatcher(w) PROVE ThreadStep(w)
  <2>1. CASE Take(w) \/ Perform(w) \/ PrintRemaining(w)
    BY <2>1 DEF Take, Perform, PrintRemaining, ThreadStep
  <2> QED  BY <1>4, <2>1, LockThread, SharedThread DEF Dispatcher, Sem
<1> QED  BY <1>1, <1>2, <1>3, <1>4 DEF Next

\* Main finds all quiet at each stage of the start, and leaves it so.
LEMMA MainSetsUp == ASSUME Boot, Main PROVE Quiet' /\ SetUp'
<1> USE Kinds DEF Boot, IInv, TypeOK, At, Go, dataVars
<1>1. CASE InitShared
  BY <1>1 DEF InitShared, Quiet, SetUp, Shared
<1>2. CASE SchedulersRun
  BY <1>2 DEF SchedulersRun, Quiet, SetUp
<1>3. CASE WorkersRun
  BY <1>3 DEF WorkersRun, Quiet, SetUp
<1>4. CASE HandlersRun
  BY <1>4 DEF HandlersRun, Quiet, SetUp
<1>5. ASSUME NEW s \in Schedulers, StartScheduler(s) PROVE Quiet' /\ SetUp'
  BY <1>5 DEF StartScheduler, Quiet, SetUp
<1>6. ASSUME NEW w \in Workers, InitWorker(w) PROVE Quiet' /\ SetUp'
  BY <1>6 DEF InitWorker, Quiet, SetUp
<1>7. ASSUME NEW h \in Handlers, StartHandler(h) PROVE Quiet' /\ SetUp'
  BY <1>7 DEF StartHandler, Quiet, SetUp
<1> QED  BY <1>1, <1>2, <1>3, <1>4, <1>5, <1>6, <1>7 DEF Main

\* The other threads only run when main is through.
LEMMA NextBoot == Boot /\ [Next]_vars => Boot'
<1> SUFFICES ASSUME Boot, [Next]_vars PROVE Boot'
  OBVIOUS
<1>1. IInv'
  BY NextIInv DEF Boot
<1>2. CASE Main
  BY <1>1, <1>2, MainSetsUp DEF Boot
<1>3. CASE UNCHANGED vars
  BY <1>1, <1>3 DEF Boot, Quiet, SetUp, vars, dataVars
<1>4. CASE Next /\ ~Main
  <2>1. PICK t \in Thread \ {"main"} : ThreadStep(t)
    BY <1>4, NotMain DEF Boot
  <2>2. pc["main"] = "accept"
    BY <2>1, Kinds DEF Boot, Quiet, IInv, TypeOK, ThreadStep
  <2>3. pc'["main"] = "accept" /\ ready' = ready
    BY <2>1, <2>2, Kinds DEF ThreadStep, Go, Boot, IInv, TypeOK
  <2>4. \A u \in Thread : pc[u] # "none" => pc'[u] # "none"
    BY <2>1 DEF ThreadStep, Go, Boot, IInv, TypeOK
  <2> QED  BY <1>1, <2>2, <2>3, <2>4, Kinds DEF Boot, Quiet, SetUp
<1> QED  BY <1>2, <1>3, <1>4

\* The start is in order in every reachable state.
LEMMA BootInvariance == Spec => []Boot
<1>1. Init => Boot
  BY InitIInv, Kinds DEF Init, Boot, Quiet, SetUp, Thread
<1> QED  BY <1>1, NextBoot, PTL DEF Spec

\* What is touched outside the stage of main that sets it up is touched under its mutex.
LEMMA TouchedIsHeld ==
  ASSUME IInv, NEW t \in Thread, NEW x \in Touches(t), pc[t] # "workers", x # "total"
  PROVE  (IF x = "counters" THEN "bookkeeper" ELSE x) \in Holds(t) \cap Mutex
<1>1. /\ pc[t] \in Places(t) /\ (pc[t] = "add" => target[t] \in Workers)
      /\ pc[t] \in {"check", "pop"} => t = "rescheduler"
      /\ pc[t] = "take" => t \in Workers
  BY DEF IInv, Placed, Places, Placing
<1>2. x = "counters" => pc[t] \in {"search", "reserve", "free"}
  BY <1>1, Kinds DEF Touches
<1> QED  BY <1>1, <1>2 DEF Touches, Holds, Mutex

(* Two threads never meet at a queue or a counter that one of them writes, nor a handler
   main at the constants it reads without a mutex (pronto.c:95-215).  *)
THEOREM LocksNoRace == Spec => []NoRace
<1>1. Boot => NoRace
  <2> SUFFICES ASSUME Boot, NEW t \in Thread, NEW u \in Thread, t # u,
                      NEW x \in Writes(t) \cap Touches(u)
               PROVE  FALSE
    BY DEF NoRace
  <2>1. \A v \in Thread : pc[v] = "workers" => v = "main"
    BY DEF Boot, IInv, Placed, Places, Placing, Thread
  <2>2. \A v \in Thread : pc[v] \in {"none", "wait", "idle"} => Touches(v) = {}
    BY DEF Touches
  <2>3. pc[t] # "workers" /\ pc[u] # "workers"
    BY <2>1, <2>2, Kinds DEF Boot, Quiet, Writes
  <2>4. x # "total"
    <3>1. /\ pc[t] = "add" => target[t] \in Workers
          /\ pc[t] = "take" => t \in Workers
      BY DEF Boot, IInv, Placed, Places, Placing
    <3> QED  BY <2>3, <3>1, Kinds DEF Writes, Touches
  <2>5. \E m \in Mutex : m \in Holds(t) /\ m \in Holds(u)
    BY <2>3, <2>4, TouchedIsHeld DEF Writes, Boot
  <2> QED  BY <2>5 DEF Boot, IInv, Owners
<1> QED  BY <1>1, BootInvariance, PTL

(* Every thread finds the mutexes, semaphores and capacities it uses set up, whenever it
   begins to run after its creation (pronto.c:21-83).  *)
THEOREM LocksReadyWhenUsed == Spec => []ReadyWhenUsed
<1>1. Boot => ReadyWhenUsed
  <2> SUFFICES ASSUME Boot, NEW t \in Thread PROVE Uses(t) \subseteq ready
    BY DEF ReadyWhenUsed
  <2>1. CASE pc[t] = "wait"
    <3>1. t \in Schedulers \cup Workers \cup {"rescheduler"} /\ Wants(t) = NONE
      BY <2>1 DEF Boot, IInv, Placed, Places, Wants
    <3> QED  BY <2>1, <3>1, Kinds DEF Uses, Boot, SetUp, Shared
  <2>2. CASE pc[t] \in {"none", "idle"}
    BY <2>2 DEF Uses, Wants
  <2>3. CASE t = "main"
    BY <2>3, Kinds DEF Uses, Wants, Boot, IInv, Placed, Places
  <2>4. CASE t # "main" /\ pc[t] \notin {"none", "wait", "idle"}
    <3>1. pc["main"] = "accept"
      BY <2>4 DEF Boot, Quiet
    <3>2. Shared \cup Workers \cup {"capacity"} \subseteq ready
      BY <3>1 DEF Boot, SetUp
    <3>3. Wants(t) # NONE => Wants(t) \in Shared \cup Workers
      BY WantsMutex DEF Boot, Mutex, Shared
    <3> QED  BY <2>4, <3>2, <3>3 DEF Uses
  <2> QED  BY <2>1, <2>2, <2>3, <2>4
<1> QED  BY <1>1, BootInvariance, PTL
===============================================================================
