-------------------------------- MODULE Calls --------------------------------
(***************************************************************************)
(* What suspend_on() and try_suspend_on() promise their callers, without   *)
(* fibers, threads, event loops or shutdowns: a call gets one answer, that *)
(* of its own future; and a call of suspend_on(), whose future may borrow  *)
(* from the caller, has none before the future is over, even if that means *)
(* that its frame is freed.  EventLoop.tla is shown to implement this.     *)
(***************************************************************************)
CONSTANT Ids  \* the calls

VARIABLES kind,     \* "none" until the call is made
          future,   \* each call's future: running, or how it ended
          returned  \* what each call gave its caller

vars == <<kind, future, returned>>

Unanswered(i) == kind[i] # "none" /\ returned[i] = "none"

Init ==
    /\ kind = [i \in Ids |-> "none"]
    /\ future = [i \in Ids |-> "none"]
    /\ returned = [i \in Ids |-> "none"]

\* The call is made, and its future starts.
Begin(i, k) ==
    /\ kind[i] = "none" /\ future[i] = "none"
    /\ kind' = [kind EXCEPT ![i] = k]
    /\ future' = [future EXCEPT ![i] = "running"]
    /\ UNCHANGED returned

\* The future completes or panics, its caller being there or not.
End(i, how) ==
    /\ future[i] = "running"
    /\ future' = [future EXCEPT ![i] = how]
    /\ UNCHANGED <<kind, returned>>

\* The caller gets the future's result, or the error of a future that panicked.
Answer(i) ==
    /\ Unanswered(i) /\ future[i] \in {"completed", "panicked"}
    /\ returned' = [returned EXCEPT ![i] = IF future[i] = "completed" THEN "value" ELSE "panic"]
    /\ UNCHANGED <<kind, future>>

\* A call of try_suspend_on() is interrupted, or can't suspend.
Abandon(i) ==
    /\ Unanswered(i) /\ kind[i] = "try_suspend_on"
    /\ returned' = [returned EXCEPT ![i] = "failed"]
    /\ UNCHANGED <<kind, future>>

\* The request ends, and the frames of some calls with it.
FreeFrames(calls) ==
    /\ \A i \in calls : Unanswered(i) /\ (kind[i] = "suspend_on" => future[i] # "running")
    /\ returned' = [i \in Ids |-> IF i \in calls THEN "freed" ELSE returned[i]]
    /\ UNCHANGED <<kind, future>>

Next ==
    \/ \E i \in Ids, k \in {"suspend_on", "try_suspend_on"} : Begin(i, k)
    \/ \E i \in Ids, how \in {"completed", "panicked"} : End(i, how)
    \/ \E i \in Ids : Answer(i) \/ Abandon(i)
    \/ \E calls \in SUBSET Ids : FreeFrames(calls)

Spec == Init /\ [][Next]_vars
=============================================================================
