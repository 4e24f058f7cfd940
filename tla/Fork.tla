-------------------------------- MODULE Fork --------------------------------
(***************************************************************************)
(* src/event_loop.rs across fork(): a process inherits a copy of the       *)
(* memory of the one that forked it (the event loop, the suspended callers *)
(* and the channel of completions), none of Tokio's threads, and the       *)
(* notification sockets, shared by the processes.  Each variable below is  *)
(* a function of the process whose memory it is, but for `owner' and       *)
(* `socket'.                                                               *)
(*                                                                         *)
(* Inside a process, wakeup() and a task's notification are single steps:  *)
(* EventLoop.tla and Notify.tla have their interleavings.                  *)
(***************************************************************************)
EXTENDS Integers, FiniteSets

CONSTANTS Processes,  \* the processes
          Root,       \* the first one
          NoProcess,  \* a process ID of 0
          Kinds,      \* the calls made
          MaxId,      \* bound: calls made by a process and its ancestors
          MaxLoops    \* bound: event loops created by all the processes

ASSUME ProcessAssumption == Root \in Processes /\ NoProcess \notin Processes
ASSUME KindsAssumption == Kinds \subseteq {"suspend_on", "try_suspend_on"}
ASSUME ForkBoundsAssumption == MaxId \in Nat /\ MaxLoops \in Nat

Ids == 1..MaxId
Loops == 1..MaxLoops

VARIABLES
    alive,        \* the processes forked so far
    loop,         \* EVENTLOOP: the current event loop, or 0
    runtimePid,   \* RUNTIME_PID: NoProcess until RUNTIME is created
    runtime,      \* where each event loop's runtime is
    suspensions,  \* the registered callers
    completed,    \* the IDs in the channel
    pending,      \* Notifier::pending
    nextId,       \* NEXT_ID
    call,         \* each call's process (suspend_on()'s pid), event loop and kind
    slot,         \* Slot::state of each call
    task,         \* where each call's task is
    frame,        \* where each call's caller is
    php,          \* where the PHP thread is
    closing,      \* the event loop shutdown() took, or 0
    owner,        \* EventLoop::pid of each event loop
    socket        \* bytes in each event loop's socket: the kernel's

callVars == <<nextId, call, slot, task, frame>>
loopVars == <<loop, runtimePid, runtime, owner>>
channelVars == <<suspensions, completed, pending, socket>>
phpVars == <<php, closing>>
vars == <<alive, callVars, loopVars, channelVars, phpVars>>

NoCall == [pid |-> NoProcess, loop |-> 0, kind |-> "none"]
CallType == [pid : Processes, loop : Loops, kind : Kinds] \cup {NoCall}
SlotStates == {"Running", "Over", "Taken"}
TaskStates == {"none", "poll", "publish", "drop", "gone"}
FrameStates == {"none", "suspended", "resumed", "wait", "over"}
RuntimeStates == {"none", "shared", "loop", "deferred", "released"}

TypeOK ==
    /\ alive \subseteq Processes
    /\ loop \in [Processes -> 0..MaxLoops] /\ closing \in [Processes -> 0..MaxLoops]
    /\ runtimePid \in [Processes -> Processes \cup {NoProcess}]
    /\ runtime \in [Processes -> [Loops -> RuntimeStates]]
    /\ suspensions \in [Processes -> SUBSET Ids]
    /\ completed \in [Processes -> SUBSET Ids]
    /\ pending \in [Processes -> {0, 1}]
    /\ nextId \in [Processes -> 1..(MaxId + 1)]
    /\ call \in [Processes -> [Ids -> CallType]]
    /\ slot \in [Processes -> [Ids -> SlotStates]]
    /\ task \in [Processes -> [Ids -> TaskStates]]
    /\ frame \in [Processes -> [Ids -> FrameStates]]
    /\ php \in [Processes -> {"idle", "call", "borrowing"}]
    /\ owner \in [Loops -> Processes \cup {NoProcess}]
    /\ socket \in [Loops -> Nat]

Init ==
    /\ alive = {Root}
    /\ loop = [p \in Processes |-> 0] /\ closing = [p \in Processes |-> 0]
    /\ runtimePid = [p \in Processes |-> NoProcess]
    /\ runtime = [p \in Processes |-> [g \in Loops |-> "none"]]
    /\ suspensions = [p \in Processes |-> {}]
    /\ completed = [p \in Processes |-> {}]
    /\ pending = [p \in Processes |-> 0]
    /\ nextId = [p \in Processes |-> 1]
    /\ call = [p \in Processes |-> [i \in Ids |-> NoCall]]
    /\ slot = [p \in Processes |-> [i \in Ids |-> "Running"]]
    /\ task = [p \in Processes |-> [i \in Ids |-> "none"]]
    /\ frame = [p \in Processes |-> [i \in Ids |-> "none"]]
    /\ php = [p \in Processes |-> "idle"]
    /\ owner = [g \in Loops |-> NoProcess]
    /\ socket = [g \in Loops |-> 0]

Idle(p) == p \in alive /\ php[p] = "idle"

-----------------------------------------------------------------------------
(* fork() (external), called by PHP code.                                  *)

Inherits(f, p, q) == [f EXCEPT ![q] = f[p]]

Fork(p, q) ==
    /\ Idle(p) /\ q \in Processes \ alive
    /\ alive' = alive \cup {q}
    /\ loop' = Inherits(loop, p, q)
    /\ runtimePid' = Inherits(runtimePid, p, q)
    /\ runtime' = Inherits(runtime, p, q)
    /\ suspensions' = Inherits(suspensions, p, q)
    /\ completed' = Inherits(completed, p, q)
    /\ pending' = Inherits(pending, p, q)
    /\ nextId' = Inherits(nextId, p, q)
    /\ call' = Inherits(call, p, q)
    /\ slot' = Inherits(slot, p, q)
    /\ task' = Inherits(task, p, q)
    /\ frame' = Inherits(frame, p, q)
    /\ UNCHANGED <<phpVars, owner, socket>>

\* Tokio's threads of an event loop's runtime are in the process that created
\* the runtime, and nowhere else.
ThreadsIn(p, g) == IF runtime[p][g] = "shared" THEN runtimePid[p] = p ELSE owner[g] = p

-----------------------------------------------------------------------------
(* init() and init_with().                                                 *)

\* Mutant: the check is left out, as on Windows.
Owned_Unchecked(p) == loop[p] # 0

\* check_owned(), of an event loop that exists.
Owned(p) == loop[p] # 0 /\ owner[loop[p]] = p

\* EventLoop::new().  An event loop that exists is kept: then init() changes
\* nothing, and fails in a process that doesn't own it.
Create(p, from) ==
    /\ loop[p] = 0
    /\ \E g \in Loops :
        /\ owner[g] = NoProcess /\ \A h \in 1..(g - 1) : owner[h] # NoProcess
        /\ loop' = [loop EXCEPT ![p] = g]
        /\ owner' = [owner EXCEPT ![g] = p]
        /\ runtime' = [runtime EXCEPT ![p][g] = from]
    /\ suspensions' = [suspensions EXCEPT ![p] = {}]
    /\ completed' = [completed EXCEPT ![p] = {}]
    /\ pending' = [pending EXCEPT ![p] = 0]
    /\ UNCHANGED socket

\* RUNTIME is created by its first use, which stores RUNTIME_PID.
CreateRuntime(p) ==
    runtimePid' = IF runtimePid[p] = NoProcess THEN [runtimePid EXCEPT ![p] = p] ELSE runtimePid

\* Mutant: RUNTIME's handle, whichever process created it.
SharedRuntime_Unchecked(p) == CreateRuntime(p)

\* shared_runtime(): fails when an ancestor created RUNTIME.
SharedRuntime(p) == CreateRuntime(p) /\ runtimePid'[p] = p

InitShared(p) ==
    /\ Idle(p) /\ Create(p, "shared") /\ SharedRuntime(p)
    /\ UNCHANGED <<alive, callVars, phpVars>>

InitWith(p) ==
    /\ Idle(p) /\ Create(p, "loop")
    /\ UNCHANGED <<alive, runtimePid, callVars, phpVars>>

-----------------------------------------------------------------------------
(* The callers.                                                            *)

\* spawn(), and the caller suspends.  Without an event loop, or with one that
\* isn't this process's, it fails and changes nothing.
Spawn(p, kind) ==
    LET i == nextId[p]
    IN  /\ Idle(p) /\ Owned(p) /\ i <= MaxId
        /\ nextId' = [nextId EXCEPT ![p] = i + 1]
        /\ suspensions' = [suspensions EXCEPT ![p] = @ \cup {i}]
        /\ call' = [call EXCEPT ![p][i] = [pid |-> p, loop |-> loop[p], kind |-> kind]]
        /\ task' = [task EXCEPT ![p][i] = "poll"]
        /\ frame' = [frame EXCEPT ![p][i] = "suspended"]
        /\ UNCHANGED <<alive, slot, loopVars, completed, pending, socket, phpVars>>

\* Mutant: the process isn't compared.
Waits_Always(p, i) == call[p][i].kind = "suspend_on"

\* Interrupted, suspend_on() waits for its future, unless it runs in another
\* process: then it panics (PENDING_ACROSS_FORK).  try_suspend_on() returns.
Waits(p, i) == call[p][i].kind = "suspend_on" /\ call[p][i].pid = p

\* The caller's fiber runs an exception thrown into it, or is destroyed.
Interrupted(p, i) ==
    /\ Idle(p) /\ frame[p][i] \in {"suspended", "resumed"}
    /\ suspensions' = [suspensions EXCEPT ![p] = @ \ {i}]
    /\ frame' = [frame EXCEPT ![p][i] = IF Waits(p, i) THEN "wait" ELSE "over"]
    /\ php' = [php EXCEPT ![p] = IF Waits(p, i) THEN "call" ELSE "idle"]
    /\ UNCHANGED <<alive, nextId, call, slot, task, loopVars, completed, pending, socket, closing>>

\* The caller's fiber runs, resumed: it goes on to Slot::wait().
RunResumed(p, i) ==
    /\ Idle(p) /\ frame[p][i] = "resumed"
    /\ frame' = [frame EXCEPT ![p][i] = "wait"]
    /\ php' = [php EXCEPT ![p] = "call"]
    /\ UNCHANGED <<alive, nextId, call, slot, task, loopVars, channelVars, closing>>

\* Slot::wait() returns, with the result or a panic.
Return(p, i) ==
    /\ php[p] = "call" /\ frame[p][i] = "wait" /\ slot[p][i] # "Running"
    /\ slot' = [slot EXCEPT ![p][i] = "Taken"]
    /\ frame' = [frame EXCEPT ![p][i] = "over"]
    /\ php' = [php EXCEPT ![p] = "idle"]
    /\ UNCHANGED <<alive, nextId, call, task, loopVars, channelVars, closing>>

-----------------------------------------------------------------------------
(* A task, on Tokio's threads: only where they are.                        *)

Live(p, i) == call[p][i].loop = loop[p]
TaskStep(p, i, from, to) ==
    /\ task[p][i] = from /\ ThreadsIn(p, call[p][i].loop)
    /\ task' = [task EXCEPT ![p][i] = to]

\* The future completes or panics: Slot::set(), Slot::finish().
Finish(p, i) ==
    /\ TaskStep(p, i, "poll", "publish")
    /\ slot' = [slot EXCEPT ![p][i] = "Over"]
    /\ UNCHANGED <<alive, nextId, call, frame, loopVars, channelVars, phpVars>>

\* Completion::drop: the ID is sent and, unless a notification is pending, a
\* byte is written.  Nobody receives them once the event loop is shut down.
Publish(p, i) ==
    LET g == call[p][i].loop
    IN  /\ TaskStep(p, i, "publish", "drop")
        /\ IF Live(p, i)
           THEN /\ completed' = [completed EXCEPT ![p] = @ \cup {i}]
                /\ pending' = [pending EXCEPT ![p] = 1]
                /\ socket' = IF pending[p] = 0 THEN [socket EXCEPT ![g] = @ + 1] ELSE socket
           ELSE UNCHANGED <<completed, pending, socket>>
        /\ UNCHANGED <<alive, nextId, call, slot, frame, loopVars, suspensions, phpVars>>

\* The tasks of an event loop that Tasks counts in a process's memory.
Running(p, g) == {i \in Ids : call[p][i].loop = g /\ task[p][i] \notin {"none", "gone"}}
Borrowing(p, g) == {i \in Running(p, g) : call[p][i].kind = "suspend_on"}

TaskDrop(p, i) ==
    LET g == call[p][i].loop
    IN  /\ TaskStep(p, i, "drop", "gone")
        /\ runtime' = IF Running(p, g) = {i} /\ runtime[p][g] = "deferred"
                      THEN [runtime EXCEPT ![p][g] = "released"] ELSE runtime
        /\ UNCHANGED <<alive, nextId, call, slot, frame, loop, runtimePid, owner, channelVars, phpVars>>

-----------------------------------------------------------------------------
(* wakeup(), drain(), pending() and shutdown().                            *)

\* Receiver::drain().
DrainSocket(g) == socket' = [socket EXCEPT ![g] = 0]

\* What wakeup() and drain() do: empty the socket, rearm, and resume the callers
\* whose ID is in the channel.
Collect(p) ==
    /\ DrainSocket(loop[p])
    /\ pending' = [pending EXCEPT ![p] = 0]
    /\ completed' = [completed EXCEPT ![p] = {}]
    /\ suspensions' = [suspensions EXCEPT ![p] = @ \ completed[p]]
    /\ frame' = [frame EXCEPT ![p] = [i \in Ids |->
                    IF i \in completed[p] \cap suspensions[p] /\ @[i] = "suspended"
                    THEN "resumed" ELSE @[i]]]
    /\ UNCHANGED <<alive, nextId, call, slot, task, loopVars, phpVars>>

\* Mutant: a child empties its parent's socket.
Wakeup_Unchecked(p) == Idle(p) /\ loop[p] # 0 /\ Collect(p)

\* Revolt calls wakeup() in every process that inherited the watched stream;
\* it does nothing, like drain(), in one that doesn't own the event loop.
Wakeup(p) == Idle(p) /\ Owned(p) /\ Collect(p)

\* Mutant: the inherited callers are counted.
Pending_Inherited(p) == IF loop[p] # 0 THEN Cardinality(suspensions[p]) ELSE 0

\* pending().
Pending(p) == IF Owned(p) THEN Cardinality(suspensions[p]) ELSE 0

\* Mutant: it is dropped, and a runtime of its own with it.
Forget_Drops(p) ==
    runtime' = IF runtime[p][loop[p]] = "loop" THEN [runtime EXCEPT ![p][loop[p]] = "released"]
               ELSE runtime

\* mem::forget(), of an event loop whose socket and runtime are another process's.
Forget(p) == UNCHANGED runtime

\* shutdown() takes the event loop; one inherited across fork is forgotten.
Shutdown(p) ==
    /\ Idle(p) /\ loop[p] # 0
    /\ loop' = [loop EXCEPT ![p] = 0]
    /\ suspensions' = [suspensions EXCEPT ![p] = {}]
    /\ completed' = [completed EXCEPT ![p] = {}]
    /\ pending' = [pending EXCEPT ![p] = 0]
    /\ php' = [php EXCEPT ![p] = IF Owned(p) THEN "borrowing" ELSE "idle"]
    /\ closing' = [closing EXCEPT ![p] = IF Owned(p) THEN loop[p] ELSE 0]
    /\ IF Owned(p) THEN UNCHANGED runtime ELSE Forget(p)
    /\ UNCHANGED <<alive, callVars, runtimePid, owner, socket>>

\* Tasks::wait_borrowing() and Tasks::release().
Release(p) ==
    LET g == closing[p]
    IN  /\ php[p] = "borrowing" /\ Borrowing(p, g) = {}
        /\ runtime' = IF runtime[p][g] = "shared" THEN runtime
                      ELSE [runtime EXCEPT ![p][g] =
                              IF Running(p, g) = {} THEN "released" ELSE "deferred"]
        /\ php' = [php EXCEPT ![p] = "idle"]
        /\ closing' = [closing EXCEPT ![p] = 0]
        /\ UNCHANGED <<alive, callVars, loop, runtimePid, owner, channelVars>>

-----------------------------------------------------------------------------
TokioStep(p, i) == Finish(p, i) \/ Publish(p, i) \/ TaskDrop(p, i)

Next ==
    \E p \in Processes :
        \/ \E q \in Processes : Fork(p, q)
        \/ InitShared(p) \/ InitWith(p)
        \/ \E kind \in Kinds : Spawn(p, kind)
        \/ \E i \in Ids : Interrupted(p, i) \/ RunResumed(p, i) \/ Return(p, i)
        \/ \E i \in Ids : TokioStep(p, i)
        \/ Wakeup(p) \/ Shutdown(p) \/ Release(p)

Spec == Init /\ [][Next]_vars

\* Tokio runs the tasks of its process, every future ends, and a PHP thread goes
\* on when what it waits for happened.
Fairness ==
    \A p \in Processes :
        /\ WF_vars(Release(p))
        /\ \A i \in Ids : WF_vars(TokioStep(p, i)) /\ WF_vars(Return(p, i))

FairSpec == Spec /\ Fairness

-----------------------------------------------------------------------------
(* Properties.                                                             *)

\* Whatever the children do, a caller whose future has notified isn't stranded
\* in the process that owns the event loop: its ID is in the channel and the
\* socket, which they share, still has a byte (event_loop.rs:469-479, 499).
WakeupSurvivesFork ==
    \A p \in alive, i \in Ids :
        (/\ frame[p][i] = "suspended" /\ task[p][i] \in {"drop", "gone"}
         /\ loop[p] # 0 /\ Live(p, i) /\ owner[loop[p]] = p) =>
            i \in completed[p] \cap suspensions[p] /\ socket[loop[p]] > 0

\* A call that a process accepts has its future on threads of that process: a
\* child uses neither its parent's event loop nor a RUNTIME without threads
\* (event_loop.rs:418, 604-612).
FuturesRunHere ==
    \A p \in Processes, i \in Ids : call[p][i].pid = p => ThreadsIn(p, call[p][i].loop)

\* A PHP thread blocks only for what its process's threads will do: a copy of a
\* caller doesn't wait for its parent's future, one resumed before the fork has
\* its result, and shutdown() waits for its own tasks (event_loop.rs:369-380, 547-553).
WaitIsBounded ==
    \A p \in Processes :
        /\ \A i \in Ids : frame[p][i] = "wait" =>
                slot[p][i] # "Running" \/ ThreadsIn(p, call[p][i].loop)
        /\ php[p] = "borrowing" => ThreadsIn(p, closing[p])

\* Only the process that built a runtime releases it, or leaves that to a task:
\* an event loop inherited across fork is forgotten (event_loop.rs:547-556).
ReleasedByItsProcess ==
    [][\A p \in alive, g \in Loops :
          runtime'[p][g] # runtime[p][g] => owner'[g] = p]_vars

\* pending() counts only callers that this process resumes: drain() before
\* shutdown() makes sense while it isn't 0 (event_loop.rs:525-532).
PendingIsHere ==
    \A p \in alive :
        Pending(p) <= Cardinality({i \in Ids : /\ frame[p][i] = "suspended"
                                               /\ call[p][i].pid = p /\ Live(p, i)})

\* A PHP thread that blocks goes on, in every process.
NobodyHangs == \A p \in Processes : php[p] # "idle" ~> php[p] = "idle"
=============================================================================
