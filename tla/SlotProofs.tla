------------------------------ MODULE SlotProofs ------------------------------
(***************************************************************************)
(* Proofs about Slot, for any set of futures.                              *)
(***************************************************************************)
EXTENDS Slot, TLAPS

\* Where a task is tells how its future ended, and what its slot can hold.
TaskTells ==
    \A f \in Futures :
        /\ task[f] = "none" => future[f] = "none" /\ returned[f] = "none"
        /\ task[f] = "polls" <=> future[f] = "running"
        /\ future[f] = "none" => task[f] = "none"
        /\ task[f] \in {"none", "polls", "set"} => state[f] = "Running"
        /\ task[f] = "set" => future[f] = "completed"
        /\ task[f] = "notify" => state[f] # "Running"
        /\ state[f] = "Running" /\ task[f] \in {"drop", "gone"} => future[f] = "panicked"
        /\ state[f] = "Panicked" => future[f] = "panicked"

\* The PHP thread waits for a future that was spawned, and that it didn't get yet.
WaitsForSpawned == waiting # Nobody => task[waiting] # "none" /\ returned[waiting] = "none"

SlotInv == TypeOK /\ HandedOver /\ WaiterIsWoken /\ TaskTells /\ WaitsForSpawned

\* It holds at first.
LEMMA InvInit == Init => SlotInv
BY SlotAssumption DEF Init, SlotInv, TypeOK, HandedOver, WaiterIsWoken, TaskTells, WaitsForSpawned

\* Every step keeps it.
LEMMA InvStep == SlotInv /\ [Next]_vars => SlotInv'
<1> SUFFICES ASSUME SlotInv, [Next]_vars PROVE SlotInv'
  OBVIOUS
<1> USE SlotAssumption DEF SlotInv, TypeOK, HandedOver, WaiterIsWoken, TaskTells, WaitsForSpawned
<1>1. ASSUME NEW f \in Futures, Spawn(f) PROVE SlotInv'
  BY <1>1 DEF Spawn
<1>2. ASSUME NEW f \in Futures, NEW how \in {"completed", "panicked"}, Ends(f, how) PROVE SlotInv'
  BY <1>2 DEF Ends
<1>3. ASSUME NEW f \in Futures, Set(f) PROVE SlotInv'
  BY <1>3 DEF Set
<1>4. ASSUME NEW f \in Futures, SetNotifies(f) PROVE SlotInv'
  BY <1>4 DEF SetNotifies, Notified
<1>5. ASSUME NEW f \in Futures, Finish(f) PROVE SlotInv'
  BY <1>5 DEF Finish, Finished, Notified
<1>6. ASSUME NEW f \in Futures, Wait(f) PROVE SlotInv'
  BY <1>6 DEF Wait
<1>7. CASE Parks
  BY <1>7 DEF Parks
<1>8. CASE Returns
  BY <1>8 DEF Returns, Take
<1>9. CASE SpuriousWakeup
  BY <1>9 DEF SpuriousWakeup
<1>10. CASE UNCHANGED vars
  BY <1>10 DEF vars
<1> QED
  BY <1>1, <1>2, <1>3, <1>4, <1>5, <1>6, <1>7, <1>8, <1>9, <1>10 DEF Next

\* It always holds.
LEMMA InvHolds == Spec => []SlotInv
BY InvInit, InvStep, PTL DEF Spec

\* A result is handed over once, and none is lost (event_loop.rs:108-132).
THEOREM ResultsAreHandedOver == Spec => []HandedOver
<1>1. SlotInv => HandedOver
  BY DEF SlotInv
<1> QED
  BY <1>1, InvHolds, PTL

\* wait() never misses the notification it is parked for (event_loop.rs:108-127).
THEOREM WaitersAreWoken == Spec => []WaiterIsWoken
<1>1. SlotInv => WaiterIsWoken
  BY DEF SlotInv
<1> QED
  BY <1>1, InvHolds, PTL

\* Slot implements Calls: wait() returns the future's own answer, once, and not before
\* it is over (event_loop.rs:82-132).
THEOREM SlotKeepsThePromise == Spec => SlotImplementsCalls
<1> DEFINE K == [f \in Futures |-> IF task[f] = "none" THEN "none" ELSE "suspend_on"]
           MNext == [Promise!Next]_(Promise!vars)
<1>1. Init => Promise!Init
  BY DEF Init, Promise!Init
<1>2. ASSUME SlotInv, [Next]_vars PROVE MNext
  <2> USE <1>2 DEF SlotInv, TypeOK, TaskTells
  <2>1. ASSUME NEW f \in Futures, Spawn(f) PROVE MNext
    <3>1. K[f] = "none" /\ K' = [K EXCEPT ![f] = "suspend_on"]
      BY <2>1 DEF Spawn
    <3>2. Promise!Begin(f, "suspend_on")
      BY <2>1, <3>1 DEF Spawn, Promise!Begin
    <3> QED
      BY <3>2 DEF Promise!Next
  <2>2. ASSUME NEW f \in Futures, NEW how \in {"completed", "panicked"}, Ends(f, how) PROVE MNext
    <3>1. K' = K
      BY <2>2 DEF Ends
    <3>2. Promise!End(f, how)
      BY <2>2, <3>1 DEF Ends, Promise!End
    <3> QED
      BY <3>2 DEF Promise!Next
  <2>3. ASSUME NEW f \in Futures, Set(f) \/ SetNotifies(f) \/ Finish(f) \/ Wait(f) PROVE MNext
    <3>1. K' = K
      BY <2>3 DEF Set, SetNotifies, Finish, Wait
    <3>2. UNCHANGED <<future, returned>>
      BY <2>3 DEF Set, SetNotifies, Finish, Wait
    <3> QED
      BY <3>1, <3>2 DEF Promise!vars
  <2>4. CASE Parks \/ SpuriousWakeup \/ UNCHANGED vars
    BY <2>4 DEF Parks, SpuriousWakeup, vars, Promise!vars
  <2>5. CASE Returns
    <3>1. waiting \in Futures /\ task[waiting] # "none" /\ returned[waiting] = "none"
      BY <2>5, SlotAssumption DEF Returns, WaitsForSpawned
    <3>2. K' = K /\ K[waiting] = "suspend_on"
      BY <2>5, <3>1 DEF Returns
    <3>3. /\ state[waiting] = "Completed" => future[waiting] = "completed"
          /\ state[waiting] # "Completed" => future[waiting] = "panicked"
      BY <2>5, <3>1 DEF Returns, HandedOver
    <3>4. Promise!Answer(waiting)
      BY <2>5, <3>1, <3>2, <3>3 DEF Returns, Promise!Answer, Promise!Unanswered
    <3> QED
      BY <3>1, <3>4 DEF Promise!Next
  <2> QED
    BY <1>2, <2>1, <2>2, <2>3, <2>4, <2>5 DEF Next
<1> QED
  BY <1>1, <1>2, InvHolds, PTL DEF Spec, SlotImplementsCalls, Promise!Spec

=============================================================================
