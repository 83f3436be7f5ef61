-------------------------------- MODULE Barrier --------------------------------
(***************************************************************************)
(* The barrier of src/src/thread/thread.cpp: a mutex, a condition variable *)
(* and a generation that tells one round from the next.  A thread that is  *)
(* not the last one sleeps on the condition until the generation moves.    *)
(*                                                                         *)
(* barrier_wait runs under the mutex except while it sleeps, so a call is  *)
(* one step up to the sleep (or to the return of the last thread), and one *)
(* step for every time the sleeper is given the mutex again.               *)
(***************************************************************************)
EXTENDS Integers, FiniteSets

CONSTANTS
    Threads,      \* the threads that meet, as many as barrier_create was told
    Generations,  \* generation is an unsigned word of this many values
    MaxCalls      \* bound on the calls a thread makes

ASSUME BarrierAssumption ==
    /\ IsFiniteSet(Threads) /\ Threads # {}
    /\ Generations \in Nat /\ Generations > 1
    /\ MaxCalls \in Nat

VARIABLES
    pc,             \* "outside", "asleep" on the condition, or "awake":
                    \* woken and about to look at the generation
    seen,           \* the generation a call read when it came in
    waiting_count,
    generation,
    calls,          \* how often a thread called barrier_wait
    returns         \* how often barrier_wait returned to it

vars == <<pc, seen, waiting_count, generation, calls, returns>>

(* barrier_create refuses 0, so a barrier has at least one thread. *)
thread_count == Cardinality(Threads)

Init ==
    /\ pc = [t \in Threads |-> "outside"]
    /\ seen = [t \in Threads |-> 0]
    /\ waiting_count = 0
    /\ generation = 0
    /\ calls = [t \in Threads |-> 0]
    /\ returns = [t \in Threads |-> 0]

(* ++generation of a U32. *)
After(g) == IF g + 1 = Generations THEN 0 ELSE g + 1

(* Fault: the last thread wakes one sleeper and not all of them. *)
SignalOne(p) ==
    LET sleepers == {u \in Threads : p[u] = "asleep"}
        chosen == CHOOSE u \in Threads : sleepers = {} \/ u \in sleepers
    IN  IF sleepers = {} THEN p ELSE [p EXCEPT ![chosen] = "awake"]

(* SDL_BroadcastCondition: every sleeper will be given the mutex. *)
Broadcast(p) == [u \in Threads |-> IF p[u] = "asleep" THEN "awake" ELSE p[u]]

Calls(t) ==
    /\ pc[t] = "outside" /\ calls[t] < MaxCalls
    /\ calls' = [calls EXCEPT ![t] = @ + 1]
    /\ seen' = [seen EXCEPT ![t] = generation]

(* Fault: the last thread forgets to start the count of the next round. *)
LastArrivesKeepingCount(t) ==
    /\ Calls(t)
    /\ waiting_count + 1 = thread_count
    /\ waiting_count' = waiting_count + 1
    /\ generation' = After(generation)
    /\ pc' = Broadcast(pc)
    /\ returns' = [returns EXCEPT ![t] = @ + 1]

(* The call that makes the count full opens the barrier and returns 1. *)
LastArrives(t) ==
    /\ Calls(t)
    /\ waiting_count + 1 = thread_count
    /\ waiting_count' = 0
    /\ generation' = After(generation)
    /\ pc' = Broadcast(pc)
    /\ returns' = [returns EXCEPT ![t] = @ + 1]

(* Any other call goes to sleep: nobody can have moved the generation since *)
(* it was read, the mutex is still held.                                   *)
Arrives(t) ==
    /\ Calls(t)
    /\ waiting_count + 1 # thread_count
    /\ waiting_count' = waiting_count + 1
    /\ pc' = [pc EXCEPT ![t] = "asleep"]
    /\ UNCHANGED <<generation, returns>>

(* A condition variable may wake a thread that nobody signalled. *)
WakesSpuriously(t) ==
    /\ pc[t] = "asleep"
    /\ pc' = [pc EXCEPT ![t] = "awake"]
    /\ UNCHANGED <<seen, waiting_count, generation, calls, returns>>

(* Fault: the generation is not looked at again after the sleep. *)
LooksOnce(t) ==
    /\ pc[t] = "awake"
    /\ pc' = [pc EXCEPT ![t] = "outside"]
    /\ returns' = [returns EXCEPT ![t] = @ + 1]
    /\ UNCHANGED <<seen, waiting_count, generation, calls>>

(* The while loop: back to sleep in the same generation, else return 0. *)
LooksAgain(t) ==
    /\ pc[t] = "awake"
    /\ IF seen[t] = generation
       THEN /\ pc' = [pc EXCEPT ![t] = "asleep"]
            /\ UNCHANGED returns
       ELSE /\ pc' = [pc EXCEPT ![t] = "outside"]
            /\ returns' = [returns EXCEPT ![t] = @ + 1]
    /\ UNCHANGED <<seen, waiting_count, generation, calls>>

Next ==
    \E t \in Threads :
        LastArrives(t) \/ Arrives(t) \/ WakesSpuriously(t) \/ LooksAgain(t)

(* A woken thread gets the mutex some time: nothing is held over a sleep. *)
(* No fairness says that a thread ever calls barrier_wait.               *)
Spec == Init /\ [][Next]_vars /\ \A t \in Threads : WF_vars(LooksAgain(t))

--------------------------------------------------------------------------------
(* The values the fields of Barrier and the locals of a call take. *)
TypeOK ==
    /\ pc \in [Threads -> {"outside", "asleep", "awake"}]
    /\ seen \in [Threads -> 0 .. Generations - 1]
    /\ waiting_count \in 0 .. thread_count - 1
    /\ generation \in 0 .. Generations - 1
    /\ calls \in [Threads -> Nat]
    /\ returns \in [Threads -> Nat]

(* What a barrier is for: no call returns before every thread has made as  *)
(* many calls, whatever wakes up and however far others are ahead.         *)
NobodyPassesEarly == \A t, u \in Threads : returns[t] <= calls[u]

(* The calls that belong to the round that is still open. *)
OpenCalls == {t \in Threads : pc[t] # "outside" /\ seen[t] = generation}

(* waiting_count is exactly the number of calls that joined the open round, *)
(* though calls of the round before may still be on their way out and the  *)
(* generation wraps: otherwise the next round opens too early or never.    *)
WaitingCountExact == waiting_count = Cardinality(OpenCalls)

(* A round that everybody has joined lets everybody go, although a thread   *)
(* may be slow to wake and find the next round already under way.          *)
EveryoneLeaves ==
    \A t \in Threads : \A k \in 1 .. MaxCalls :
        (\A u \in Threads : calls[u] >= k) ~> (returns[t] >= k)

================================================================================
