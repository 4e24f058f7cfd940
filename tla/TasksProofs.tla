---------------------------- MODULE TasksProofs ----------------------------
(***************************************************************************)
(* Proofs about Tasks, for any finite set of futures.                      *)
(***************************************************************************)
EXTENDS Tasks, FiniteSetTheorems, TLAPS

HeldBorrowers == Held \cap Borrowers

\* The sets that the counters stand for are finite.
LEMMA HeldFinite == IsFiniteSet(Held) /\ IsFiniteSet(HeldBorrowers)
<1>1. Held \subseteq Futures /\ HeldBorrowers \subseteq Futures
  BY DEF Held, HeldBorrowers
<1> QED
  BY <1>1, FuturesAssumption, FS_Subset

\* A counter is 0 exactly when its set is empty.
LEMMA CountersZero ==
    ASSUME CountersExact
    PROVE  /\ running \in Nat /\ (running = 0 <=> Held = {})
           /\ borrowing \in Nat /\ (borrowing = 0 <=> HeldBorrowers = {})
<1>1. running = Cardinality(Held) /\ borrowing = Cardinality(HeldBorrowers)
  BY DEF CountersExact, HeldBorrowers
<1> QED
  BY <1>1, HeldFinite, FS_EmptySet, FS_CardinalityType

\* The type invariant without the counters, whose type is a matter of CountersExact.
RestOK ==
    /\ release \in {"None", "Some"}
    /\ task \in [Futures -> {"new", "held", "releasing", "dropped"}]
    /\ php \in {"open", "check", "parked", "release", "drop", "over"}
    /\ runtime \in {"none", "alive", "dropped", "background"}

\* A step that leaves the tasks and the counters alone keeps them exact.
LEMMA CountersKept ==
    ASSUME CountersExact, UNCHANGED <<running, borrowing, task>>
    PROVE  CountersExact'
BY DEF CountersExact, Held

\* Starting and dropping a future count it, exactly once.
LEMMA CountersStep ==
    ASSUME RestOK, CountersExact, [Next]_vars
    PROVE  CountersExact'
<1>1. ASSUME NEW t \in Futures, Start(t) PROVE CountersExact'
  <2>1. Held' = Held \cup {t} /\ t \notin Held
    BY <1>1 DEF Held, RestOK, Start
  <2>2. HeldBorrowers' = IF t \in Borrowers THEN HeldBorrowers \cup {t} ELSE HeldBorrowers
    BY <2>1 DEF HeldBorrowers
  <2>3. t \notin HeldBorrowers
    BY <2>1 DEF HeldBorrowers
  <2>4. Cardinality(Held') = running + 1
    BY <2>1, HeldFinite, FS_AddElement DEF CountersExact
  <2>5. Cardinality(HeldBorrowers') = borrowing + Borrows(t)
    <3>1. borrowing = Cardinality(HeldBorrowers) /\ borrowing \in Nat
      BY CountersZero DEF CountersExact, HeldBorrowers
    <3>2. CASE t \in Borrowers
      BY <2>2, <2>3, <3>1, <3>2, HeldFinite, FS_AddElement DEF Borrows
    <3>3. CASE t \notin Borrowers
      BY <2>2, <3>1, <3>3 DEF Borrows
    <3> QED
      BY <3>2, <3>3
  <2> QED
    BY <1>1, <2>4, <2>5 DEF CountersExact, HeldBorrowers, Start
<1>2. ASSUME NEW t \in Futures, Drop(t) PROVE CountersExact'
  <2>1. Held' = Held \ {t} /\ t \in Held
    BY <1>2 DEF Held, RestOK, Drop
  <2>2. HeldBorrowers' = IF t \in Borrowers THEN HeldBorrowers \ {t} ELSE HeldBorrowers
    BY <2>1 DEF HeldBorrowers
  <2>3. Cardinality(Held') = running - 1
    BY <2>1, HeldFinite, FS_RemoveElement DEF CountersExact
  <2>4. Cardinality(HeldBorrowers') = borrowing - Borrows(t)
    <3>1. borrowing = Cardinality(HeldBorrowers) /\ borrowing \in Nat
      BY CountersZero DEF CountersExact, HeldBorrowers
    <3>2. CASE t \in Borrowers
      <4>1. t \in HeldBorrowers
        BY <2>1, <3>2 DEF HeldBorrowers
      <4> QED
        BY <2>2, <3>1, <3>2, <4>1, HeldFinite, FS_RemoveElement DEF Borrows
    <3>3. CASE t \notin Borrowers
      BY <2>2, <3>1, <3>3 DEF Borrows
    <3> QED
      BY <3>2, <3>3
  <2> QED
    BY <1>2, <2>3, <2>4 DEF CountersExact, HeldBorrowers, Drop
<1>3. ASSUME NEW t \in Futures, ShutdownBackground(t) PROVE CountersExact'
  <2>1. Held' = Held
    BY <1>3 DEF Held, RestOK, ShutdownBackground
  <2> QED
    BY <1>3, <2>1 DEF CountersExact, ShutdownBackground
<1>4. ASSUME Shutdown \/ WaitBorrowing \/ SpuriousWakeup \/ Release \/ DropRuntime \/ UNCHANGED vars
      PROVE  CountersExact'
  BY <1>4, CountersKept DEF Shutdown, WaitBorrowing, SpuriousWakeup, Release, DropRuntime, vars
<1> QED
  BY <1>1, <1>2, <1>3, <1>4 DEF Next

-----------------------------------------------------------------------------
(* The inductive invariant.                                                *)

\* shutdown() waited before it goes on to the runtime.
BorrowingOver == php \in {"release", "drop", "over"} => borrowing = 0

\* The runtime is dropped by the PHP thread only when nothing runs.
DropsIdle == php = "drop" => runtime = "alive" /\ running = 0

\* Until shutdown() is over, nobody else has the runtime.
HeldByLoop == php # "over" => release = "None" /\ Takers = {} /\ runtime \in {"none", "alive"}

\* Only a runtime that is there is left.
LeftIsAlive == release = "Some" => runtime = "alive"

TasksInv ==
    /\ RestOK /\ CountersExact /\ ParkedIsWoken /\ RuntimeHasOneHolder
    /\ BorrowingOver /\ DropsIdle /\ HeldByLoop /\ LeftIsAlive

\* The counters are natural numbers, whatever the order of the futures' ends.
LEMMA InvTypeOK == TasksInv => TypeOK
BY CountersZero DEF TasksInv, TypeOK, RestOK

\* It holds at first.
LEMMA InvInit == Init => TasksInv
<1> SUFFICES ASSUME Init PROVE TasksInv
  OBVIOUS
<1>1. Held = {} /\ Takers = {}
  BY DEF Init, Held, Takers
<1>2. CountersExact
  BY <1>1, FS_EmptySet DEF Init, CountersExact
<1> QED
  BY <1>1, <1>2 DEF Init, TasksInv, RestOK, ParkedIsWoken, RuntimeHasOneHolder, BorrowingOver,
     DropsIdle, HeldByLoop, LeftIsAlive

\* Every step keeps it.
LEMMA InvStep == TasksInv /\ [Next]_vars => TasksInv'
<1> SUFFICES ASSUME TasksInv, [Next]_vars PROVE TasksInv'
  OBVIOUS
<1>1. CountersExact'
  BY CountersStep DEF TasksInv
<1>2. /\ running \in Nat /\ borrowing \in Nat
      /\ running = 0 => Held = {}
      /\ borrowing = 0 => HeldBorrowers = {}
  BY CountersZero DEF TasksInv
<1> USE DEF TasksInv, RestOK, ParkedIsWoken, RuntimeHasOneHolder, BorrowingOver, DropsIdle,
            HeldByLoop, LeftIsAlive
<1>3. ASSUME NEW t \in Futures, Start(t) PROVE TasksInv'
  <2>1. Takers' = Takers
    BY <1>3 DEF Start, Takers
  <2> QED
    BY <1>1, <1>2, <1>3, <2>1 DEF Start
<1>4. ASSUME NEW t \in Futures, Drop(t) PROVE TasksInv'
  <2>1. t \in Held /\ running # 0
    BY <1>2, <1>4 DEF Held, Drop
  <2>2. php # "drop" /\ runtime \in {"none", "alive"} /\ Takers = {}
    BY <2>1
  <2>3. php \in {"release", "over"} => t \notin Borrowers
    BY <1>2, <2>1 DEF HeldBorrowers
  <2>4. CASE TakesRuntime
    <3>1. Takers' = {t} /\ running' = 0 /\ release' = "None" /\ php' = "over" /\ runtime' = "alive"
      BY <1>4, <2>2, <2>4 DEF Drop, TakesRuntime, Takers, Notified
    <3>2. borrowing' = 0
      BY <1>4, <2>3, <2>4, <3>1 DEF Drop, Borrows, TakesRuntime
    <3> QED
      BY <1>1, <1>4, <2>4, <3>1, <3>2 DEF Drop
  <2>5. CASE ~TakesRuntime
    <3>1. Takers' = {} /\ release' = release /\ runtime' = runtime /\ running' = running - 1
      BY <1>4, <2>2, <2>5 DEF Drop, Takers
    <3>2. php' = Notified /\ (release = "Some" => running' > 0)
      BY <1>2, <1>4, <2>1, <2>5 DEF Drop, TakesRuntime
    <3>3. php \in {"release", "over"} => borrowing' = 0
      BY <1>4, <2>3 DEF Drop, Borrows
    <3> QED
      BY <1>1, <1>4, <2>2, <3>1, <3>2, <3>3 DEF Drop, Notified
  <2> QED
    BY <2>4, <2>5
<1>5. ASSUME NEW t \in Futures, ShutdownBackground(t) PROVE TasksInv'
  <2>1. Takers = {t} /\ runtime = "alive" /\ running = 0 /\ php = "over" /\ release = "None"
    BY <1>5 DEF ShutdownBackground, Takers
  <2>2. Takers' = {}
    BY <1>5, <2>1 DEF ShutdownBackground, Takers
  <2> QED
    BY <1>1, <1>5, <2>1, <2>2 DEF ShutdownBackground
<1>6. CASE Shutdown
  BY <1>1, <1>6 DEF Shutdown, Takers
<1>7. CASE WaitBorrowing
  BY <1>1, <1>2, <1>7 DEF WaitBorrowing, Takers
<1>8. CASE SpuriousWakeup
  BY <1>1, <1>8 DEF SpuriousWakeup, Takers
<1>9. CASE Release
  BY <1>1, <1>2, <1>9 DEF Release, LeavesRuntime, Takers
<1>10. CASE DropRuntime
  BY <1>1, <1>10 DEF DropRuntime, Takers
<1>11. CASE UNCHANGED vars
  BY <1>1, <1>11 DEF vars, Takers
<1> QED
  BY <1>3, <1>4, <1>5, <1>6, <1>7, <1>8, <1>9, <1>10, <1>11 DEF Next

\* It always holds.
LEMMA InvHolds == Spec => []TasksInv
BY InvInit, InvStep, PTL DEF Spec

-----------------------------------------------------------------------------
(* The theorems.                                                           *)

\* Tasks is well typed: usize counters never go below zero (event_loop.rs:184-193, 218-221).
THEOREM TypeCorrect == Spec => []TypeOK
BY InvHolds, InvTypeOK, PTL

\* The counters are exact for any number of futures, however start(), drop and
\* shutdown() interleave (event_loop.rs:184-193, 218-221).
THEOREM CountersAreExact == Spec => []CountersExact
<1>1. TasksInv => CountersExact
  BY DEF TasksInv
<1> QED
  BY <1>1, InvHolds, PTL

\* wait_borrowing() is never parked without a future whose end notifies it
\* (event_loop.rs:196-201, 222).
THEOREM NoLostNotification == Spec => []ParkedIsWoken
<1>1. TasksInv => ParkedIsWoken
  BY DEF TasksInv
<1> QED
  BY <1>1, InvHolds, PTL

\* The runtime always has exactly one holder that will release it, or is released
\* with no future on it (event_loop.rs:205-213, 223-232).
THEOREM OneHolder == Spec => []RuntimeHasOneHolder
<1>1. TasksInv => RuntimeHasOneHolder
  BY DEF TasksInv
<1> QED
  BY <1>1, InvHolds, PTL

-----------------------------------------------------------------------------
(* Tasks implements RunningFutures.                                        *)

\* What the mapped variables are, as far as the steps need it.
LEMMA MappedFacts ==
    ASSUME TasksInv
    PROVE  /\ running = 0 <=> Held = {}
           /\ \A t \in Held : running = 1 <=> Held = {t}
           /\ borrowing = 0 <=> Held \cap Borrowers = {}
<1>1. running = 0 <=> Held = {}
  BY CountersZero DEF TasksInv
<1>2. borrowing = 0 <=> Held \cap Borrowers = {}
  BY CountersZero DEF TasksInv, HeldBorrowers
<1>3. ASSUME NEW t \in Held PROVE running = 1 <=> Held = {t}
  <2>1. Cardinality(Held \ {t}) = running - 1 /\ IsFiniteSet(Held \ {t}) /\ running \in Nat
    BY HeldFinite, FS_RemoveElement, CountersZero DEF TasksInv, CountersExact
  <2>2. Cardinality(Held \ {t}) = 0 <=> Held \ {t} = {}
    BY <2>1, FS_EmptySet
  <2> QED
    BY <1>3, <2>1, <2>2
<1> QED
  BY <1>1, <1>2, <1>3

\* Tasks implements the sets of running futures and the guards that EventLoop.tla
\* relies on: every critical section is a step of RunningFutures, and what is between
\* them (checking, parking, releasing) a stutter (event_loop.rs:162-234).
THEOREM TasksRunFutures == Spec => RunsFutures
<1> DEFINE R == CASE runtime = "none" -> "none"
                  [] runtime = "alive" /\ release = "None" /\ php \notin {"drop", "over"} -> "held"
                  [] runtime = "alive" /\ release = "Some" -> "left"
                  [] OTHER -> "released"
           S == CASE php = "open" -> "no"
                  [] php \in {"check", "parked"} -> "waits"
                  [] php = "release" -> "releases"
                  [] php \in {"drop", "over"} -> "over"
           Started == {t \in Futures : task[t] # "new"}
           MNext == [Promise!Next]_(Promise!vars)
<1>1. Init => Promise!Init
  BY DEF Init, Promise!Init, Held
<1>2. ASSUME TasksInv, TasksInv', [Next]_vars PROVE MNext
  <2> USE <1>2 DEF TasksInv, RestOK
  <2>1. ASSUME NEW t \in Futures, Start(t) PROVE MNext
    <3>1. Held' = Held \cup {t} /\ Started' = Started \cup {t} /\ t \notin Started
      BY <2>1 DEF Start, Held
    <3>2. S = "no" /\ S' = S /\ R' = R
      BY <2>1 DEF Start
    <3>3. Promise!Start(t)
      BY <3>1, <3>2 DEF Promise!Start
    <3> QED
      BY <3>3 DEF Promise!Next
  <2>2. ASSUME NEW t \in Futures, Drop(t) PROVE MNext
    <3>1. Held' = Held \ {t} /\ Started' = Started /\ t \in Held
      BY <2>2 DEF Drop, Held
    <3>2. running = 1 <=> Held = {t}
      BY <3>1, MappedFacts
    <3>3. S' = S
      BY <2>2 DEF Drop, Notified
    <3>4. running \in Nat /\ running # 0 /\ php # "drop"
      BY <3>1, CountersZero DEF DropsIdle
    <3>5. R' = IF Held = {t} /\ R = "left" THEN "released" ELSE R
      <4>1. CASE TakesRuntime
        BY <2>2, <3>2, <4>1 DEF Drop, TakesRuntime, Notified, RuntimeHasOneHolder, LeftIsAlive
      <4>2. CASE ~TakesRuntime
        BY <2>2, <3>2, <3>4, <4>2 DEF Drop, TakesRuntime, Notified
      <4> QED
        BY <4>1, <4>2
    <3>6. Promise!End(t)
      BY <3>1, <3>3, <3>5 DEF Promise!End
    <3> QED
      BY <3>6 DEF Promise!Next
  <2>3. ASSUME NEW t \in Futures, ShutdownBackground(t) PROVE MNext
    <3>1. Held' = Held /\ Started' = Started /\ S' = S
      BY <2>3 DEF ShutdownBackground, Held
    <3>2. t \in Takers
      BY <2>3 DEF ShutdownBackground, Takers
    <3>3. R' = R
      BY <2>3, <3>2 DEF ShutdownBackground, RuntimeHasOneHolder
    <3> QED
      BY <3>1, <3>3 DEF Promise!vars
  <2>4. CASE Shutdown
    <3>1. Held' = Held /\ Started' = Started /\ S = "no" /\ S' = "waits" /\ R' = R
      BY <2>4 DEF Shutdown, Held
    <3> QED
      BY <3>1 DEF Promise!Begin, Promise!Next
  <2>5. CASE WaitBorrowing
    <3>1. Held' = Held /\ Started' = Started /\ S = "waits" /\ R' = R
      BY <2>5 DEF WaitBorrowing, Held
    <3>2. CASE borrowing > 0
      <4>1. S' = S
        BY <2>5, <3>2 DEF WaitBorrowing
      <4> QED
        BY <3>1, <4>1 DEF Promise!vars
    <3>3. CASE ~(borrowing > 0)
      <4>1. S' = "releases"
        BY <2>5, <3>3 DEF WaitBorrowing
      <4>2. Held \cap Borrowers = {}
        BY <3>3, CountersZero, MappedFacts
      <4> QED
        BY <3>1, <4>1, <4>2 DEF Promise!GoOn, Promise!Next
    <3> QED
      BY <3>2, <3>3
  <2>6. CASE SpuriousWakeup
    <3>1. Held' = Held /\ Started' = Started /\ S' = S /\ R' = R
      BY <2>6 DEF SpuriousWakeup, Held
    <3> QED
      BY <3>1 DEF Promise!vars
  <2>7. CASE Release
    <3>1. Held' = Held /\ Started' = Started /\ S = "releases" /\ S' = "over"
      BY <2>7 DEF Release, Held
    <3>2. running = 0 <=> Held = {}
      BY MappedFacts
    <3>3. R' = IF R = "none" THEN "none" ELSE IF Held = {} THEN "released" ELSE "left"
      BY <2>7, <3>2 DEF Release, LeavesRuntime, HeldByLoop
    <3> QED
      BY <3>1, <3>3 DEF Promise!Release, Promise!Next
  <2>8. CASE DropRuntime
    <3>1. Held' = Held /\ Started' = Started /\ S' = S
      BY <2>8 DEF DropRuntime, Held
    <3>2. R' = R
      BY <2>8 DEF DropRuntime, DropsIdle, HeldByLoop
    <3> QED
      BY <3>1, <3>2 DEF Promise!vars
  <2>9. CASE UNCHANGED vars
    <3>1. Held' = Held /\ Started' = Started /\ S' = S /\ R' = R
      BY <2>9 DEF vars, Held
    <3> QED
      BY <3>1 DEF Promise!vars
  <2> QED
    BY <1>2, <2>1, <2>2, <2>3, <2>4, <2>5, <2>6, <2>7, <2>8, <2>9 DEF Next
<1> QED
  BY <1>1, <1>2, InvHolds, PTL DEF Spec, RunsFutures, Promise!Spec

=============================================================================
