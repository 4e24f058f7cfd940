---------------------------- MODULE RunningFutures ----------------------------
(***************************************************************************)
(* What Tasks promises an event loop: shutdown() goes on once no future of *)
(* suspend_on() runs, and a runtime of the event loop's own is released    *)
(* once none runs.  EventLoop.tla relies on it (BorrowingEnded, ReleaseNow *)
(* and TaskDrop); Tasks.tla is shown to implement it.                      *)
(***************************************************************************)
CONSTANTS Futures, Borrowers

VARIABLES running,   \* the futures that run
          started,   \* those that ever ran
          runtime,   \* the event loop's own runtime
          shutdown   \* how far shutdown() is

vars == <<running, started, runtime, shutdown>>

Init ==
    /\ running = {} /\ started = {}
    /\ runtime \in {"none", "held"}
    /\ shutdown = "no"

Start(t) ==
    /\ shutdown = "no" /\ t \in Futures \ started
    /\ running' = running \cup {t} /\ started' = started \cup {t}
    /\ UNCHANGED <<runtime, shutdown>>

\* The last future releases a runtime that was left to it.
End(t) ==
    /\ t \in running
    /\ running' = running \ {t}
    /\ runtime' = IF running = {t} /\ runtime = "left" THEN "released" ELSE runtime
    /\ UNCHANGED <<started, shutdown>>

Begin ==
    /\ shutdown = "no" /\ shutdown' = "waits"
    /\ UNCHANGED <<running, started, runtime>>

GoOn ==
    /\ shutdown = "waits" /\ running \cap Borrowers = {}
    /\ shutdown' = "releases"
    /\ UNCHANGED <<running, started, runtime>>

Release ==
    /\ shutdown = "releases" /\ shutdown' = "over"
    /\ runtime' = IF runtime = "none" THEN "none" ELSE IF running = {} THEN "released" ELSE "left"
    /\ UNCHANGED <<running, started>>

Next == (\E t \in Futures : Start(t) \/ End(t)) \/ Begin \/ GoOn \/ Release

Spec == Init /\ [][Next]_vars

\* Every future ends, and shutdown() goes on when it may.
FairSpec == Spec /\ (\A t \in Futures : WF_vars(End(t))) /\ WF_vars(GoOn) /\ WF_vars(Release)
=============================================================================
