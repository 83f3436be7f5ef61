----------------------------- MODULE BarrierProofs -----------------------------
(***************************************************************************)
(* For every finite set of threads and every width of the generation of at *)
(* least one bit: no call of barrier_wait returns before every thread has  *)
(* made as many calls, and waiting_count counts the open round.            *)
(*                                                                         *)
(* The argument is about rounds: every thread has completed the same       *)
(* number of them, where a call that a thread still is in counts as soon   *)
(* as the generation has moved past the one it read.                       *)
(***************************************************************************)
EXTENDS Barrier, FiniteSetTheorems, TLAPS

Joined(t) == pc[t] # "outside" /\ seen[t] = generation

Rounds(t) == IF Joined(t) THEN calls[t] - 1 ELSE calls[t]

(* A call that is not outside has not returned yet, a sleeper sleeps in the *)
(* open round, and a call of an earlier round is one generation behind.    *)
CallsCoherent ==
    \A t \in Threads :
        /\ calls[t] = returns[t] + (IF pc[t] = "outside" THEN 0 ELSE 1)
        /\ pc[t] = "asleep" => seen[t] = generation
        /\ pc[t] = "awake" /\ seen[t] # generation => After(seen[t]) = generation

RoundsAgree == \A t, u \in Threads : Rounds(t) = Rounds(u)

IInv == TypeOK /\ CallsCoherent /\ RoundsAgree /\ WaitingCountExact

LEMMA ThreadCount == thread_count \in Nat \ {0}
  BY BarrierAssumption, FS_CardinalityType, FS_EmptySet DEF thread_count

(* The generation moves, and stays within its word. *)
LEMMA AfterMoves ==
  ASSUME NEW g \in 0 .. Generations - 1
  PROVE  After(g) \in 0 .. Generations - 1 /\ After(g) # g
  BY BarrierAssumption DEF After

LEMMA OpenCallsFinite ==
  /\ OpenCalls \subseteq Threads
  /\ IsFiniteSet(OpenCalls)
  /\ Cardinality(OpenCalls) \in Nat
  <1>1. OpenCalls \subseteq Threads  BY DEF OpenCalls
  <1> QED  BY <1>1, BarrierAssumption, FS_Subset, FS_CardinalityType

(* If one thread is missing to make the count full, it is the only one     *)
(* that has not joined.                                                    *)
LEMMA AllOthersJoined ==
  ASSUME NEW t \in Threads, t \notin OpenCalls,
         Cardinality(OpenCalls) + 1 = thread_count
  PROVE  OpenCalls = Threads \ {t}
  <1>1. OpenCalls \subseteq Threads \ {t}  BY OpenCallsFinite
  <1>2. /\ IsFiniteSet(Threads \ {t})
        /\ Cardinality(Threads \ {t}) = Cardinality(Threads) - 1
    BY BarrierAssumption, FS_RemoveElement
  <1>3. Cardinality(Threads \ {t}) = Cardinality(OpenCalls)
    BY <1>2, OpenCallsFinite, BarrierAssumption, FS_CardinalityType DEF thread_count
  <1> QED  BY <1>1, <1>2, <1>3, FS_Subset

LEMMA InitIInv == Init => IInv
  <1> SUFFICES ASSUME Init PROVE IInv  OBVIOUS
  <1>1. OpenCalls = {}  BY DEF Init, OpenCalls
  <1>2. WaitingCountExact  BY <1>1, FS_EmptySet DEF Init, WaitingCountExact
  <1>3. TypeOK  BY BarrierAssumption, ThreadCount DEF Init, TypeOK
  <1>4. CallsCoherent /\ RoundsAgree
    BY DEF Init, CallsCoherent, RoundsAgree, Rounds, Joined
  <1> QED  BY <1>2, <1>3, <1>4 DEF IInv

LEMMA LastArrivesIInv ==
  ASSUME IInv, NEW t \in Threads, LastArrives(t)
  PROVE  IInv'
  <1> USE DEF IInv
  <1>1. t \notin OpenCalls  BY DEF LastArrives, Calls, OpenCalls
  <1>2. OpenCalls = Threads \ {t}
    BY <1>1, AllOthersJoined DEF LastArrives, WaitingCountExact
  <1>3. /\ generation' # generation
        /\ generation' \in 0 .. Generations - 1
    BY AfterMoves DEF LastArrives, TypeOK
  <1>4. /\ pc' \in [Threads -> {"outside", "awake"}]
        /\ \A u \in Threads : pc'[u] = "outside" <=> pc[u] = "outside"
    BY DEF LastArrives, Broadcast, TypeOK
  <1>5. \A u \in Threads \ {t} :
            /\ pc[u] # "outside" /\ seen[u] = generation /\ seen'[u] = seen[u]
            /\ calls'[u] = calls[u] /\ returns'[u] = returns[u]
    BY <1>2 DEF OpenCalls, LastArrives, Calls, TypeOK
  <1>6. /\ pc[t] = "outside" /\ pc'[t] = "outside"
        /\ calls'[t] = calls[t] + 1 /\ returns'[t] = returns[t] + 1
    BY <1>4 DEF LastArrives, Calls, TypeOK
  <1>7. TypeOK'
    <2>1. calls' \in [Threads -> Nat] /\ returns' \in [Threads -> Nat]
      BY DEF LastArrives, Calls, TypeOK
    <2>2. seen' \in [Threads -> 0 .. Generations - 1]
      BY DEF LastArrives, Calls, TypeOK
    <2>3. thread_count' = thread_count  BY DEF thread_count
    <2>4. waiting_count' \in 0 .. thread_count' - 1
      BY <2>3, ThreadCount DEF LastArrives
    <2> QED  BY <1>3, <1>4, <2>1, <2>2, <2>4 DEF TypeOK
  <1>8. CallsCoherent'
    <2> SUFFICES ASSUME NEW u \in Threads
                 PROVE  /\ calls'[u] = returns'[u] + (IF pc'[u] = "outside" THEN 0 ELSE 1)
                        /\ pc'[u] = "asleep" => seen'[u] = generation'
                        /\ pc'[u] = "awake" /\ seen'[u] # generation'
                               => After(seen'[u]) = generation'
      BY DEF CallsCoherent, After
    <2>1. CASE u = t  BY <2>1, <1>6 DEF CallsCoherent, TypeOK
    <2>2. CASE u # t
      <3>1. generation' = After(seen'[u])  BY <2>2, <1>5 DEF LastArrives
      <3>2. pc'[u] = "awake"  BY <2>2, <1>4, <1>5
      <3> QED  BY <2>2, <3>1, <3>2, <1>5 DEF CallsCoherent
    <2> QED  BY <2>1, <2>2
  <1>9. RoundsAgree'
    <2>1. \A u \in Threads : Rounds(u)' = Rounds(u) + 1
      <3> SUFFICES ASSUME NEW u \in Threads PROVE Rounds(u)' = Rounds(u) + 1  OBVIOUS
      <3>1. CASE u = t  BY <3>1, <1>6 DEF Rounds, Joined
      <3>2. CASE u # t
        BY <3>2, <1>3, <1>5 DEF Rounds, Joined, TypeOK
      <3> QED  BY <3>1, <3>2
    <2> QED  BY <2>1 DEF RoundsAgree
  <1>10. WaitingCountExact'
    <2>1. OpenCalls' = {}
      BY <1>3, <1>5, <1>6 DEF OpenCalls
    <2> QED  BY <2>1, FS_EmptySet DEF WaitingCountExact, LastArrives
  <1> QED  BY <1>7, <1>8, <1>9, <1>10

LEMMA ArrivesIInv ==
  ASSUME IInv, NEW t \in Threads, Arrives(t)
  PROVE  IInv'
  <1> USE DEF IInv
  <1>1. /\ generation' = generation /\ returns' = returns
        /\ pc[t] = "outside" /\ pc'[t] = "asleep" /\ seen'[t] = generation
        /\ calls'[t] = calls[t] + 1
        /\ \A u \in Threads \ {t} : /\ pc'[u] = pc[u] /\ seen'[u] = seen[u]
                                    /\ calls'[u] = calls[u]
    BY DEF Arrives, Calls, TypeOK
  <1>2. t \notin OpenCalls /\ OpenCalls' = OpenCalls \cup {t}
    BY <1>1 DEF OpenCalls
  <1>3. Cardinality(OpenCalls') = Cardinality(OpenCalls) + 1
    BY <1>2, OpenCallsFinite, FS_AddElement
  <1>4. TypeOK'
    <2>1. thread_count' = thread_count  BY DEF thread_count
    <2>2. waiting_count' \in 0 .. thread_count' - 1
      BY <2>1, ThreadCount DEF Arrives, TypeOK
    <2>3. /\ pc' \in [Threads -> {"outside", "asleep", "awake"}]
          /\ seen' \in [Threads -> 0 .. Generations - 1]
          /\ calls' \in [Threads -> Nat] /\ returns' \in [Threads -> Nat]
      BY DEF Arrives, Calls, TypeOK
    <2> QED  BY <1>1, <2>2, <2>3 DEF TypeOK
  <1>5. CallsCoherent'
    BY <1>1 DEF CallsCoherent, TypeOK, After
  <1>6. RoundsAgree'
    <2>1. \A u \in Threads : Rounds(u)' = Rounds(u)
      BY <1>1 DEF Rounds, Joined, TypeOK
    <2> QED  BY <2>1 DEF RoundsAgree
  <1>7. WaitingCountExact'
    BY <1>3 DEF WaitingCountExact, Arrives
  <1> QED  BY <1>4, <1>5, <1>6, <1>7

LEMMA WakesIInv ==
  ASSUME IInv, NEW t \in Threads, WakesSpuriously(t)
  PROVE  IInv'
  <1> USE DEF IInv
  <1>1. /\ UNCHANGED <<seen, waiting_count, generation, calls, returns>>
        /\ pc[t] = "asleep" /\ pc'[t] = "awake"
        /\ \A u \in Threads \ {t} : pc'[u] = pc[u]
        /\ pc' \in [Threads -> {"outside", "asleep", "awake"}]
    BY DEF WakesSpuriously, TypeOK
  <1>2. TypeOK'  BY <1>1 DEF TypeOK, thread_count
  <1>3. CallsCoherent'  BY <1>1 DEF CallsCoherent, After
  <1>4. OpenCalls' = OpenCalls  BY <1>1 DEF OpenCalls
  <1>5. RoundsAgree'
    <2>1. \A u \in Threads : Rounds(u)' = Rounds(u)  BY <1>1 DEF Rounds, Joined
    <2> QED  BY <2>1 DEF RoundsAgree
  <1> QED  BY <1>1, <1>2, <1>3, <1>4, <1>5 DEF WaitingCountExact

LEMMA LooksAgainIInv ==
  ASSUME IInv, NEW t \in Threads, LooksAgain(t)
  PROVE  IInv'
  <1> USE DEF IInv
  <1>1. /\ UNCHANGED <<seen, waiting_count, generation, calls>>
        /\ pc[t] = "awake"
        /\ pc' \in [Threads -> {"outside", "asleep", "awake"}]
        /\ returns' \in [Threads -> Nat]
        /\ \A u \in Threads \ {t} : pc'[u] = pc[u] /\ returns'[u] = returns[u]
    BY DEF LooksAgain, TypeOK
  <1>2. TypeOK'  BY <1>1 DEF TypeOK, thread_count
  <1>3. CASE seen[t] = generation
    <2>1. pc'[t] = "asleep" /\ returns' = returns
      BY <1>3 DEF LooksAgain, TypeOK
    <2>2. CallsCoherent'  BY <1>1, <1>3, <2>1 DEF CallsCoherent, After
    <2>3. OpenCalls' = OpenCalls  BY <1>1, <2>1 DEF OpenCalls
    <2>4. RoundsAgree'
      <3>1. \A u \in Threads : Rounds(u)' = Rounds(u)
        BY <1>1, <2>1 DEF Rounds, Joined
      <3> QED  BY <3>1 DEF RoundsAgree
    <2> QED  BY <1>1, <1>2, <2>2, <2>3, <2>4 DEF WaitingCountExact
  <1>4. CASE seen[t] # generation
    <2>1. pc'[t] = "outside" /\ returns'[t] = returns[t] + 1
      BY <1>4 DEF LooksAgain, TypeOK
    <2>2. CallsCoherent'  BY <1>1, <2>1 DEF CallsCoherent, After, TypeOK
    <2>3. OpenCalls' = OpenCalls  BY <1>1, <1>4, <2>1 DEF OpenCalls
    <2>4. RoundsAgree'
      <3>1. \A u \in Threads : Rounds(u)' = Rounds(u)
        BY <1>1, <1>4, <2>1 DEF Rounds, Joined
      <3> QED  BY <3>1 DEF RoundsAgree
    <2> QED  BY <1>1, <1>2, <2>2, <2>3, <2>4 DEF WaitingCountExact
  <1> QED  BY <1>3, <1>4

LEMMA StepIInv == IInv /\ [Next]_vars => IInv'
  <1> SUFFICES ASSUME IInv, [Next]_vars PROVE IInv'  OBVIOUS
  <1>1. ASSUME NEW t \in Threads, LastArrives(t) PROVE IInv'
    BY <1>1, LastArrivesIInv
  <1>2. ASSUME NEW t \in Threads, Arrives(t) PROVE IInv'
    BY <1>2, ArrivesIInv
  <1>3. ASSUME NEW t \in Threads, WakesSpuriously(t) PROVE IInv'
    BY <1>3, WakesIInv
  <1>4. ASSUME NEW t \in Threads, LooksAgain(t) PROVE IInv'
    BY <1>4, LooksAgainIInv
  <1>5. CASE UNCHANGED vars
    BY <1>5 DEF vars, IInv, TypeOK, CallsCoherent, RoundsAgree, Rounds, Joined,
                WaitingCountExact, OpenCalls, After, thread_count
  <1> QED  BY <1>1, <1>2, <1>3, <1>4, <1>5 DEF Next

(* The round structure of the barrier: it holds in every reachable state. *)
THEOREM RoundsStayInStep == Spec => []IInv
  BY InitIInv, StepIInv, PTL DEF Spec

(* No call of barrier_wait returns before every thread has called as often. *)
THEOREM NobodyEverPassesEarly == Spec => []NobodyPassesEarly
  <1>1. IInv => NobodyPassesEarly
    <2> SUFFICES ASSUME IInv, NEW t \in Threads, NEW u \in Threads
                 PROVE  returns[t] <= calls[u]
      BY DEF NobodyPassesEarly
    <2>1. Rounds(t) = Rounds(u)  BY DEF IInv, RoundsAgree
    <2>2. returns[t] \in Nat /\ calls[t] \in Nat /\ calls[u] \in Nat
      BY DEF IInv, TypeOK
    <2>3. returns[t] <= Rounds(t)
      BY <2>2 DEF IInv, CallsCoherent, Rounds, Joined
    <2>4. Rounds(u) <= calls[u]  BY <2>2 DEF Rounds
    <2>5. Rounds(u) \in Int  BY <2>2 DEF Rounds
    <2> QED  BY <2>1, <2>2, <2>3, <2>4, <2>5
  <1> QED  BY <1>1, RoundsStayInStep, PTL

(* waiting_count is the number of calls in the open round. *)
THEOREM CountIsOfTheOpenRound == Spec => []WaitingCountExact
  <1>1. IInv => WaitingCountExact  BY DEF IInv
  <1> QED  BY <1>1, RoundsStayInStep, PTL

(* The fields and locals keep their types; a generation never overflows. *)
THEOREM BarrierTypes == Spec => []TypeOK
  <1>1. IInv => TypeOK  BY DEF IInv
  <1> QED  BY <1>1, RoundsStayInStep, PTL

================================================================================
