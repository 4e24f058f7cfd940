-------------------------------- MODULE Tasks --------------------------------
(***************************************************************************)
(* struct Tasks (src/event_loop.rs): the counters of an event loop's       *)
(* running futures and the runtime left to the last of them, under a       *)
(* mutex, and the condition variable on which shutdown() waits.  A         *)
(* critical section is a step; what a thread does outside of one is        *)
(* another.                                                                *)
(***************************************************************************)
EXTENDS Integers, FiniteSets

CONSTANTS Futures,   \* the futures
          Borrowers  \* those of suspend_on()

ASSUME FuturesAssumption == IsFiniteSet(Futures) /\ Borrowers \subseteq Futures

VARIABLES
    running,    \* TasksState::running
    borrowing,  \* TasksState::borrowing
    release,    \* TasksState::release: is there a runtime?
    task,       \* each future's Task
    php,        \* where the PHP thread is
    runtime     \* the event loop's runtime, and who released it

vars == <<running, borrowing, release, task, php, runtime>>

TypeOK ==
    /\ running \in Nat /\ borrowing \in Nat
    /\ release \in {"None", "Some"}
    /\ task \in [Futures -> {"new", "held", "releasing", "dropped"}]
    /\ php \in {"open", "check", "parked", "release", "drop", "over"}
    /\ runtime \in {"none", "alive", "dropped", "background"}

Init ==
    /\ running = 0 /\ borrowing = 0 /\ release = "None"
    /\ task = [t \in Futures |-> "new"]
    /\ php = "open"
    /\ runtime \in {"none", "alive"}

Borrows(t) == IF t \in Borrowers THEN 1 ELSE 0

\* Tasks::start(), called by spawn() while the event loop is there.
Start(t) ==
    /\ php = "open" /\ task[t] = "new"
    /\ running' = running + 1
    /\ borrowing' = borrowing + Borrows(t)
    /\ task' = [task EXCEPT ![t] = "held"]
    /\ UNCHANGED <<release, php, runtime>>

\* Mutant: nobody is notified.
Notified_Forgotten == php

\* borrowing_ended.notify_all(): the PHP thread checks again, if it waits.
Notified == IF php = "parked" THEN "check" ELSE php

\* Mutant: the runtime is taken by each of the last two futures' ends.
TakesRuntime_Early == running <= 2 /\ release = "Some"

\* Does the end of a future take the runtime to release it?
TakesRuntime == running = 1 /\ release = "Some"

\* Mutant: a future of suspend_on() isn't counted down.
Drop_KeepsBorrowing(t) ==
    /\ task[t] = "held"
    /\ running' = running - 1
    /\ php' = Notified
    /\ release' = IF TakesRuntime THEN "None" ELSE release
    /\ task' = [task EXCEPT ![t] = IF TakesRuntime THEN "releasing" ELSE "dropped"]
    /\ UNCHANGED <<borrowing, runtime>>

\* Task::drop, up to the end of its critical section.
Drop(t) ==
    /\ task[t] = "held"
    /\ running' = running - 1
    /\ borrowing' = borrowing - Borrows(t)
    /\ php' = Notified
    /\ release' = IF TakesRuntime THEN "None" ELSE release
    /\ task' = [task EXCEPT ![t] = IF TakesRuntime THEN "releasing" ELSE "dropped"]
    /\ UNCHANGED runtime

\* Task::drop: shutdown_background(), on one of the runtime's threads.
ShutdownBackground(t) ==
    /\ task[t] = "releasing"
    /\ task' = [task EXCEPT ![t] = "dropped"]
    /\ runtime' = "background"
    /\ UNCHANGED <<running, borrowing, release, php>>

\* shutdown() took the event loop: wait_borrowing().
Shutdown ==
    /\ php = "open" /\ php' = "check"
    /\ UNCHANGED <<running, borrowing, release, task, runtime>>

\* wait_borrowing(): checks, and waits, which unlocks the mutex.
WaitBorrowing ==
    /\ php = "check"
    /\ php' = IF borrowing > 0 THEN "parked" ELSE "release"
    /\ UNCHANGED <<running, borrowing, release, task, runtime>>

\* Condvar::wait() returns though nobody notified.
SpuriousWakeup ==
    /\ php = "parked" /\ php' = "check"
    /\ UNCHANGED <<running, borrowing, release, task, runtime>>

\* Mutant: the counter is left out.
LeavesRuntime_Always == TRUE

\* release(): does a future run, to which to leave the runtime?
LeavesRuntime == running # 0

\* release(), of a runtime of the event loop's own.
Release ==
    /\ php = "release"
    /\ php' = IF runtime = "none" \/ LeavesRuntime THEN "over" ELSE "drop"
    /\ release' = IF runtime # "none" /\ LeavesRuntime THEN "Some" ELSE release
    /\ UNCHANGED <<running, borrowing, task, runtime>>

\* release(): the runtime is dropped by the PHP thread, which waits for its
\* threads to stop.
DropRuntime ==
    /\ php = "drop" /\ php' = "over"
    /\ runtime' = "dropped"
    /\ UNCHANGED <<running, borrowing, release, task>>

Next ==
    \/ \E t \in Futures : Start(t) \/ Drop(t) \/ ShutdownBackground(t)
    \/ Shutdown \/ WaitBorrowing \/ SpuriousWakeup \/ Release \/ DropRuntime

Spec == Init /\ [][Next]_vars

\* Every future ends, and a thread that can go on does.
Fairness ==
    /\ \A t \in Futures : WF_vars(Drop(t)) /\ WF_vars(ShutdownBackground(t))
    /\ WF_vars(WaitBorrowing) /\ WF_vars(Release) /\ WF_vars(DropRuntime)

FairSpec == Spec /\ Fairness

-----------------------------------------------------------------------------
(* Properties.                                                             *)

Held == {t \in Futures : task[t] = "held"}

\* The counters are those of the futures that run, whatever the order in which
\* they end: none goes below zero, and a 0 is true (event_loop.rs:184-193, 218-222).
CountersExact ==
    running = Cardinality(Held) /\ borrowing = Cardinality(Held \cap Borrowers)

\* shutdown() is parked only while a future of suspend_on() runs, whose end
\* notifies it: no notification is lost between its check and its wait
\* (event_loop.rs:196-201, 222).
ParkedIsWoken == php = "parked" => borrowing > 0

Takers == {t \in Futures : task[t] = "releasing"}

\* The runtime is in one place: with shutdown(), left to the futures that still
\* run, or taken by the last of them; or it is released, once, and then no future
\* runs (event_loop.rs:205-213, 223-232).
RuntimeHasOneHolder ==
    /\ release = "Some" => running > 0 /\ php = "over" /\ Takers = {}
    /\ \A t \in Takers : Takers = {t} /\ runtime = "alive" /\ running = 0 /\ php = "over"
    /\ (runtime = "alive" /\ php = "over") => (release = "Some" \/ Takers # {})
    /\ runtime \in {"dropped", "background"} => running = 0 /\ release = "None" /\ php = "over"

\* Tasks implements what EventLoop.tla relies on: the counters stand for the sets
\* of running futures, and waiting on the condition variable for a guard.
Promise == INSTANCE RunningFutures WITH
    running <- Held,
    started <- {t \in Futures : task[t] # "new"},
    runtime <- CASE runtime = "none" -> "none"
                 [] runtime = "alive" /\ release = "None" /\ php \notin {"drop", "over"} -> "held"
                 [] runtime = "alive" /\ release = "Some" -> "left"
                 [] OTHER -> "released",
    shutdown <- CASE php = "open" -> "no"
                  [] php \in {"check", "parked"} -> "waits"
                  [] php = "release" -> "releases"
                  [] php \in {"drop", "over"} -> "over"
ImplementsRunningFutures == Promise!FairSpec
RunsFutures == Promise!Spec  \* its safety part
=============================================================================
