----------------------------- MODULE JobLifecycle -----------------------------
(***************************************************************************)
(* What pronto promises about one job, whatever the threads do: a request  *)
(* is answered once; an accepted job is placed on one worker, at most once *)
(* and for good, possibly after a time in the waiting queue; it runs at    *)
(* most once; its units are given back at most once, and only after it     *)
(* ran.  A job may get lost on the wire after it was placed, never before. *)
(* Module Pronto implements this one.                                      *)
(***************************************************************************)
EXTENDS Integers

CONSTANTS Job, Workers, NoWorker, MayBeLost

VARIABLES stage,    \* where each job is in its life
          host      \* the worker it was placed on

vars == <<stage, host>>

Init ==
    /\ stage = [j \in Job |-> "unsent"]
    /\ host = [j \in Job |-> NoWorker]

Move(j, from, to) ==
    /\ stage[j] = from
    /\ stage' = [stage EXCEPT ![j] = to]

Accept(j) == Move(j, "unsent", "queued")   /\ UNCHANGED host
Reject(j) == Move(j, "unsent", "rejected") /\ UNCHANGED host
Park(j)   == Move(j, "queued", "waiting")  /\ UNCHANGED host

Place(j, w) ==
    /\ Move(j, "queued", "placed") \/ Move(j, "waiting", "placed")
    /\ host' = [host EXCEPT ![j] = w]

Run(j)  == Move(j, "placed", "running") /\ UNCHANGED host
Free(j) == Move(j, "running", "freed")  /\ host' = [host EXCEPT ![j] = NoWorker]

Lose(j) ==
    /\ MayBeLost
    /\ Move(j, "placed", "lost") \/ Move(j, "running", "lost")
    /\ UNCHANGED host

\* Every step moves one job on; a job never comes back to where it was.
Next == \E j \in Job :
    /\ stage'[j] # stage[j]
    /\ \/ Accept(j) \/ Reject(j) \/ Park(j) \/ Run(j) \/ Free(j) \/ Lose(j)
       \/ \E w \in Workers : Place(j, w)

Spec == Init /\ [][Next]_vars
===============================================================================
