--------------------------------- MODULE Slot ---------------------------------
(***************************************************************************)
(* struct Slot (src/event_loop.rs): the result of a future, handed over    *)
(* from a Tokio thread to the PHP thread under a mutex, with a condition   *)
(* variable on which Slot::wait() waits.  A critical section is a step,    *)
(* and so is a notification outside of one.  The PHP thread waits for any  *)
(* future at any time, as it does for an interrupted caller.               *)
(***************************************************************************)
EXTENDS Naturals

CONSTANTS Futures, Nobody

ASSUME SlotAssumption == Nobody \notin Futures

VARIABLES
    state,     \* Slot::state
    task,      \* where each future's task is
    future,    \* each future: running, or how it ended
    waiting,   \* the future that the PHP thread waits for
    php,       \* where the PHP thread is in wait()
    returned   \* what wait() returned

vars == <<state, task, future, waiting, php, returned>>

TypeOK ==
    /\ state \in [Futures -> {"Running", "Completed", "Panicked", "Taken"}]
    /\ task \in [Futures -> {"none", "polls", "set", "notify", "drop", "gone"}]
    /\ future \in [Futures -> {"none", "running", "completed", "panicked"}]
    /\ waiting \in Futures \cup {Nobody}
    /\ php \in {"away", "check", "parked"} /\ (php = "away" <=> waiting = Nobody)
    /\ returned \in [Futures -> {"none", "value", "panic"}]

Init ==
    /\ state = [f \in Futures |-> "Running"]
    /\ task = [f \in Futures |-> "none"]
    /\ future = [f \in Futures |-> "none"]
    /\ waiting = Nobody /\ php = "away"
    /\ returned = [f \in Futures |-> "none"]

\* spawn()
Spawn(f) ==
    /\ task[f] = "none" /\ php = "away"
    /\ task' = [task EXCEPT ![f] = "polls"]
    /\ future' = [future EXCEPT ![f] = "running"]
    /\ UNCHANGED <<state, waiting, php, returned>>

\* The future completes, or panics: the task is dropped either way.
Ends(f, how) ==
    /\ task[f] = "polls"
    /\ task' = [task EXCEPT ![f] = IF how = "completed" THEN "set" ELSE "drop"]
    /\ future' = [future EXCEPT ![f] = how]
    /\ UNCHANGED <<state, waiting, php, returned>>

\* set(), up to the end of its critical section.
Set(f) ==
    /\ task[f] = "set"
    /\ state' = [state EXCEPT ![f] = "Completed"]
    /\ task' = [task EXCEPT ![f] = "notify"]
    /\ UNCHANGED <<future, waiting, php, returned>>

\* ready.notify_all(): the PHP thread checks again, if it waits for this future.
Notified(f) == IF waiting = f /\ php = "parked" THEN "check" ELSE php

\* set(): the notification, once the mutex is unlocked.
SetNotifies(f) ==
    /\ task[f] = "notify"
    /\ task' = [task EXCEPT ![f] = "drop"]
    /\ php' = Notified(f)
    /\ UNCHANGED <<state, future, waiting, returned>>

\* Mutant: a result is overwritten.
Finished_Overwrites(f) == IF state[f] = "Taken" THEN "Taken" ELSE "Panicked"

\* The state that finish() leaves.
Finished(f) == IF state[f] = "Running" THEN "Panicked" ELSE state[f]

\* Mutant: a future that panicked notifies nobody.
Finish_Silent(f) ==
    /\ task[f] = "drop"
    /\ state' = [state EXCEPT ![f] = Finished(f)]
    /\ task' = [task EXCEPT ![f] = "gone"]
    /\ UNCHANGED <<future, waiting, php, returned>>

\* finish(), which notifies with the mutex locked.
Finish(f) ==
    /\ task[f] = "drop"
    /\ state' = [state EXCEPT ![f] = Finished(f)]
    /\ task' = [task EXCEPT ![f] = "gone"]
    /\ php' = Notified(f)
    /\ UNCHANGED <<future, waiting, returned>>

\* wait() is called, once for a future.
Wait(f) ==
    /\ php = "away" /\ task[f] # "none" /\ returned[f] = "none"
    /\ waiting' = f /\ php' = "check"
    /\ UNCHANGED <<state, task, future, returned>>

\* wait(): still running, waits, which unlocks the mutex.
Parks ==
    /\ php = "check" /\ state[waiting] = "Running"
    /\ php' = "parked"
    /\ UNCHANGED <<state, task, future, waiting, returned>>

\* Mutant: the result stays.
Take_Leaves == state

\* mem::replace(&mut *state, Taken)
Take == [state EXCEPT ![waiting] = "Taken"]

\* wait(): over, takes the result.
Returns ==
    /\ php = "check" /\ state[waiting] # "Running"
    /\ state' = Take
    /\ returned' = [returned EXCEPT ![waiting] =
                       IF state[waiting] = "Completed" THEN "value" ELSE "panic"]
    /\ php' = "away" /\ waiting' = Nobody
    /\ UNCHANGED <<task, future>>

\* Condvar::wait() returns though nobody notified.
SpuriousWakeup ==
    /\ php = "parked" /\ php' = "check"
    /\ UNCHANGED <<state, task, future, waiting, returned>>

Next ==
    \/ \E f \in Futures : Spawn(f) \/ Set(f) \/ SetNotifies(f) \/ Finish(f) \/ Wait(f)
    \/ \E f \in Futures, how \in {"completed", "panicked"} : Ends(f, how)
    \/ Parks \/ Returns \/ SpuriousWakeup

Spec == Init /\ [][Next]_vars

\* Every future ends, and a thread that can go on does.
Fairness ==
    /\ \A f \in Futures : /\ WF_vars(\E how \in {"completed", "panicked"} : Ends(f, how))
                          /\ WF_vars(Set(f)) /\ WF_vars(SetNotifies(f)) /\ WF_vars(Finish(f))
    /\ WF_vars(Parks) /\ WF_vars(Returns)

FairSpec == Spec /\ Fairness

-----------------------------------------------------------------------------
(* Properties.                                                             *)

\* The result is handed over once: it is there from set() or finish() until wait()
\* takes it, and what a task that still has to finish() leaves isn't lost
\* (event_loop.rs:108-132).
HandedOver ==
    \A f \in Futures :
        /\ state[f] = "Taken" <=> returned[f] # "none"
        /\ state[f] = "Completed" => future[f] = "completed"
        /\ task[f] = "gone" => state[f] # "Running"

\* wait() is parked only while its future isn't over, or a notification is on the
\* way: set() notifies once the mutex is unlocked, when wait() may already have
\* checked again (event_loop.rs:108-111, 123-127).
WaiterIsWoken ==
    php = "parked" => \/ state[waiting] = "Running" /\ task[waiting] # "gone"
                      \/ task[waiting] = "notify"

\* Slot gives each caller the answer that Calls promises, for calls that wait.
Promise == INSTANCE Calls WITH
    Ids <- Futures,
    kind <- [f \in Futures |-> IF task[f] = "none" THEN "none" ELSE "suspend_on"]
SlotImplementsCalls == Promise!Spec

\* wait() returns, whenever it was called.
WaitReturns == php = "check" ~> php = "away"
=============================================================================
