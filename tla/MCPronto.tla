------------------------------- MODULE MCPronto -------------------------------
(***************************************************************************)
(* Instances of Pronto for TLC.  Words are 32 and 64 values wide instead   *)
(* of 2^32 and 2^64: wide enough for every true sum of the instances, so   *)
(* that a wrapped counter is as far from a real one as in the program.     *)
(***************************************************************************)
EXTENDS ProntoProperties, TLC

CONSTANTS j1, j2, j3, j4, j5

\* Requests of the instances; 31 is the 32-value word of the int -1.
FullJobs    == [j \in Job |-> 2]
TwosAndOnes == j1 :> 2 @@ j2 :> 2 @@ j3 :> 1 @@ j4 :> 1
Odd         == j1 :> 31 @@ j2 :> 1 @@ j3 :> 1 @@ j4 :> 2 @@ j5 :> 2

\* Threads of one kind are interchangeable, and so are jobs with one request.
ThreadsAndJobs == Permutations(Schedulers) \cup Permutations(Handlers)
                    \cup Permutations({j2, j3}) \cup Permutations({j4, j5})
SameJobs == Permutations(Job)
===============================================================================
