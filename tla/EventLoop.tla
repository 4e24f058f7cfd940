----------------------------- MODULE EventLoop -----------------------------
(***************************************************************************)
(* src/event_loop.rs: the callers of suspend_on() and try_suspend_on() in  *)
(* PHP's fibers, the tasks running their futures on Tokio's threads, and   *)
(* wakeup(), drain(), shutdown() and the end of the request on the PHP     *)
(* thread.                                                                 *)
(*                                                                         *)
(* The PHP thread does one thing at a time: `php' is "idle" while it runs  *)
(* PHP code or Revolt, and names the point it reached inside php-tokio     *)
(* otherwise.  Each task steps on its own, between any two steps of the    *)
(* PHP thread.  The event loops a process creates one after the other are  *)
(* numbered; 0 stands for None.                                            *)
(***************************************************************************)
EXTENDS Integers, Sequences, FiniteSets

CONSTANTS Fibers,     \* PHP's fibers, {main} included
          MaxId,      \* bound: calls made (NEXT_ID)
          MaxLoops,   \* bound: event loops created
          Kinds,      \* the calls made
          Runtimes,   \* the event loops' runtimes: init()'s or init_with()'s
          Env         \* what PHP code, Revolt and the futures do

\* Besides calling init(), suspending on futures and calling wakeup(): futures
\* that panic, suspensions that fail, exceptions thrown into callers, exits and
\* destroyed fibers, fibers suspended elsewhere, drain(), shutdown(), the end of
\* the request; and, what it shouldn't, PHP code that resumes a caller itself or
\* closes the stream.
EnvActions == {"panic", "fail", "throw", "exit", "elsewhere", "drain", "shutdown", "end",
               "resume", "close"}

ASSUME BoundsAssumption == MaxId \in Nat /\ MaxLoops \in Nat
ASSUME InstanceAssumption == /\ Kinds \subseteq {"suspend_on", "try_suspend_on"}
                             /\ Runtimes \subseteq {"shared", "loop"}
                             /\ Env \subseteq EnvActions

Ids == 1..MaxId
Loops == 1..MaxLoops

VARIABLES
    loop,         \* EVENTLOOP: the current event loop, or 0
    created,      \* how many were created
    runtime,      \* where each event loop's runtime is (Tasks::release too)
    stream,       \* Receiver::stream of the current event loop
    suspensions,  \* EventLoop::suspensions: the registered callers
    queue,        \* the channel of the IDs of completed futures
    pending,      \* Notifier::pending
    socket,       \* bytes in PHP's end of the socket
    call,         \* each call's fiber, event loop and kind
    nextId,       \* NEXT_ID
    slot,         \* Slot::state of each call
    future,       \* each future: running, or how it ended
    task,         \* where each future's task is
    fiber,        \* what each fiber is doing
    current,      \* the call whose frame is on each fiber's stack, or 0
    returned,     \* what each call gave its caller
    php,          \* where the PHP thread is
    ready,        \* the suspensions wakeup() or drain() collected
    closing,      \* the event loop shutdown() took, or 0
    ending        \* is the request ending?

loopVars == <<loop, created, stream>>
notifyVars == <<pending, socket>>
taskVars == <<future, task>>
fiberVars == <<fiber, current, returned>>
phpVars == <<php, ready, closing, ending>>
vars == <<loopVars, runtime, suspensions, queue, notifyVars, call, nextId, slot,
          taskVars, fiberVars, phpVars>>

NoCall == [fiber |-> "none", loop |-> 0, kind |-> "none"]
CallType == [fiber : Fibers, loop : Loops, kind : Kinds]
SlotStates == {"Running", "Completed", "Panicked", "Taken"}
FutureStates == {"none", "running", "completed", "panicked"}
TaskStates == {"none", "poll", "set", "finish", "send", "notify", "write", "drop", "gone"}
FiberStates == {"user", "spawned", "suspended", "resumed", "threw", "wait", "unwind", "done"}
PhpStates == {"idle", "call", "recv", "socket", "rearm", "collect", "borrowing", "release", "free"}
RuntimeStates == {"none", "shared", "loop", "deferred", "released"}
Outcomes == {"none", "value", "panic", "failed", "freed"}

TypeOK ==
    /\ loop \in 0..MaxLoops /\ created \in 0..MaxLoops
    /\ runtime \in [Loops -> RuntimeStates]
    /\ stream \in {"none", "open", "closed"}
    /\ suspensions \subseteq 1..(nextId - 1)
    /\ queue \in Seq(Ids) /\ ready \in Seq(Ids)
    /\ pending \in {0, 1} /\ socket \in Nat
    /\ call \in [Ids -> CallType \cup {NoCall}]
    /\ nextId \in 1..(MaxId + 1)
    /\ slot \in [Ids -> SlotStates]
    /\ future \in [Ids -> FutureStates]
    /\ task \in [Ids -> TaskStates]
    /\ fiber \in [Fibers -> FiberStates]
    /\ current \in [Fibers -> 0..MaxId]
    /\ returned \in [Ids -> Outcomes]
    /\ php \in PhpStates
    /\ closing \in 0..MaxLoops
    /\ ending \in {"no", "yes"}

Init ==
    /\ loop = 0 /\ created = 0 /\ stream = "none"
    /\ runtime = [g \in Loops |-> "none"]
    /\ suspensions = {}
    /\ queue = <<>> /\ ready = <<>>
    /\ pending = 0 /\ socket = 0
    /\ call = [i \in Ids |-> NoCall]
    /\ nextId = 1
    /\ slot = [i \in Ids |-> "Running"]
    /\ future = [i \in Ids |-> "none"]
    /\ task = [i \in Ids |-> "none"]
    /\ fiber = [f \in Fibers |-> "user"]
    /\ current = [f \in Fibers |-> 0]
    /\ returned = [i \in Ids |-> "none"]
    /\ php = "idle" /\ closing = 0 /\ ending = "no"

Elements(s) == {s[i] : i \in DOMAIN s}
Borrowing(i) == call[i].kind = "suspend_on"

\* The tasks whose Task isn't dropped yet: Tasks::running counts them, and
\* Tasks::borrowing those of suspend_on() (Tasks.tla has the counters).
Running(g) == {i \in Ids : call[i].loop = g /\ task[i] \notin {"none", "gone"}}
RunningBorrowing(g) == {i \in Running(g) : Borrowing(i)}

-----------------------------------------------------------------------------
(* Initialization: init() and init_with().                                 *)

\* A new event loop: EventLoop::new(), which registers the resource that ends
\* it with the request.  When it fails, nothing is left behind.
Create(from) ==
    /\ loop = 0 /\ created < MaxLoops
    /\ loop' = created + 1
    /\ created' = created + 1
    /\ runtime' = [runtime EXCEPT ![created + 1] = from]
    /\ suspensions' = {} /\ queue' = <<>>
    /\ pending' = 0 /\ socket' = 0

\* An event loop that exists is kept, and its runtime too.
Keep ==
    /\ loop # 0
    /\ UNCHANGED <<loop, created, runtime, suspensions, queue, notifyVars>>

\* php_stream(): opens the stream unless it is; opening may fail, for want of a
\* descriptor, and leaves the event loop without it.
PhpStream(opened) ==
    /\ opened = "none" => "fail" \in Env
    /\ stream' = IF stream = "none" THEN opened ELSE stream

Initialize(from, opened) ==
    /\ php = "idle" /\ ending = "no"
    /\ Create(from) \/ Keep
    /\ PhpStream(opened)
    /\ UNCHANGED <<call, nextId, slot, taskVars, fiberVars, phpVars>>

\* PHP code closes the stream, which it must not.
CloseStream ==
    /\ "close" \in Env
    /\ php = "idle" /\ stream = "open"
    /\ stream' = "closed"
    /\ UNCHANGED <<loop, created, runtime, suspensions, queue, notifyVars, call, nextId,
                   slot, taskVars, fiberVars, phpVars>>

-----------------------------------------------------------------------------
(* A caller: suspend_on() and try_suspend_on().                            *)

\* Mutant: an ID that isn't unique.
FetchAddId_Reused == UNCHANGED nextId

\* NEXT_ID is unique in the process, whatever the event loop.
FetchAddId == nextId' = nextId + 1

\* spawn(): registers the caller and starts the task.  It fails, changing
\* nothing, without an event loop or if getSuspension() throws.
Spawn(f, kind) ==
    /\ php = "idle" /\ ending = "no" /\ fiber[f] = "user"
    /\ loop # 0 /\ nextId <= MaxId
    /\ FetchAddId
    /\ suspensions' = suspensions \cup {nextId}
    /\ call' = [call EXCEPT ![nextId] = [fiber |-> f, loop |-> loop, kind |-> kind]]
    /\ slot' = [slot EXCEPT ![nextId] = "Running"]
    /\ task' = [task EXCEPT ![nextId] = "poll"]
    /\ future' = [future EXCEPT ![nextId] = "running"]
    /\ fiber' = [fiber EXCEPT ![f] = "spawned"]
    /\ current' = [current EXCEPT ![f] = nextId]
    /\ php' = "call"
    /\ UNCHANGED <<loopVars, runtime, queue, notifyVars, returned, ready, closing, ending>>

\* suspend(): the suspension suspends the fiber, back to PHP's event loop.
Suspend(f) ==
    /\ php = "call" /\ fiber[f] = "spawned"
    /\ fiber' = [fiber EXCEPT ![f] = "suspended"]
    /\ php' = "idle"
    /\ UNCHANGED <<loopVars, runtime, suspensions, queue, notifyVars, call, nextId, slot,
                   taskVars, current, returned, ready, closing, ending>>

\* Mutant: an interrupted caller stays registered.
Unregister_Forgotten(i) == UNCHANGED suspensions

\* A caller unregisters itself from the current event loop, if there is one,
\* even if it isn't the one that has it.
Unregister(i) == suspensions' = suspensions \ {i}

\* The end of suspend() for a caller that nobody resumed: then suspend_on()
\* waits for its future, and try_suspend_on() returns.
Interrupted(f, waiting, then) ==
    LET i == current[f]
    IN  /\ Unregister(i)
        /\ IF Borrowing(i)
           THEN /\ fiber' = [fiber EXCEPT ![f] = waiting]
                /\ php' = "call"
                /\ UNCHANGED <<current, returned>>
           ELSE /\ fiber' = [fiber EXCEPT ![f] = then]
                /\ current' = [current EXCEPT ![f] = 0]
                /\ returned' = [returned EXCEPT ![i] = "failed"]
                /\ php' = "idle"
        /\ UNCHANGED <<loopVars, runtime, queue, notifyVars, call, nextId, slot, taskVars,
                       ready, closing, ending>>

\* suspend() without suspending: it can't be called, or throws at once.
SuspendFails(f) ==
    /\ "fail" \in Env
    /\ php = "call" /\ fiber[f] = "spawned"
    /\ Interrupted(f, "wait", "user")

\* The fiber runs again, with the exception thrown into it.
RunThrown(f) ==
    /\ php = "idle" /\ ending = "no" /\ fiber[f] = "threw" /\ current[f] # 0
    /\ Interrupted(f, "wait", "user")

\* PHP destroys the fiber, or exit() unwinds it: the exit stays pending.
Exit(f) ==
    /\ "exit" \in Env
    /\ php = "idle" /\ ending = "no"
    /\ fiber[f] \in {"suspended", "resumed", "threw"} /\ current[f] # 0
    /\ Interrupted(f, "unwind", "done")

\* The fiber runs again, resumed: it goes on to Slot::wait().
RunResumed(f) ==
    /\ php = "idle" /\ ending = "no" /\ fiber[f] = "resumed" /\ current[f] # 0
    /\ fiber' = [fiber EXCEPT ![f] = "wait"]
    /\ php' = "call"
    /\ UNCHANGED <<loopVars, runtime, suspensions, queue, notifyVars, call, nextId, slot,
                   taskVars, current, returned, ready, closing, ending>>

\* Mutant: a spurious wakeup of the condition variable ends Slot::wait().
Over_Spurious(i) == TRUE

\* What Slot::wait() waits for.
Over(i) == slot[i] # "Running"

\* Slot::wait() returns once the future is over, and with it the call.
Return(f) ==
    LET i == current[f]
    IN  /\ php = "call" /\ fiber[f] \in {"wait", "unwind"}
        /\ Over(i)
        /\ slot' = [slot EXCEPT ![i] = "Taken"]
        /\ returned' = [returned EXCEPT ![i] = IF slot[i] = "Completed" THEN "value" ELSE "panic"]
        /\ fiber' = [fiber EXCEPT ![f] = IF @ = "unwind" THEN "done" ELSE "user"]
        /\ current' = [current EXCEPT ![f] = 0]
        /\ php' = "idle"
        /\ UNCHANGED <<loopVars, runtime, suspensions, queue, notifyVars, call, nextId,
                       taskVars, ready, closing, ending>>

-----------------------------------------------------------------------------
(* Revolt and PHP code, as far as the callers see them (external).         *)

PhpCode(f, from, to) ==
    /\ php = "idle" /\ ending = "no" /\ fiber[f] \in from
    /\ fiber' = [fiber EXCEPT ![f] = to]
    /\ UNCHANGED <<loopVars, runtime, suspensions, queue, notifyVars, call, nextId, slot,
                   taskVars, current, returned, phpVars>>

\* Suspension::throw(): queued until the event loop runs.
Throw(f) == "throw" \in Env /\ PhpCode(f, {"suspended"}, "threw")

\* A fiber suspends for something else than php-tokio, which resumes it.
SuspendElsewhere(f) == "elsewhere" \in Env /\ PhpCode(f, {"user"}, "suspended")
ResumeElsewhere(f) == current[f] = 0 /\ PhpCode(f, {"suspended"}, "resumed")
RunElsewhere(f) == current[f] = 0 /\ PhpCode(f, {"resumed", "threw"}, "user")

\* Somebody else resumes a caller of php-tokio.
ResumeByOther(f) ==
    "resume" \in Env /\ current[f] # 0 /\ PhpCode(f, {"suspended"}, "resumed")

-----------------------------------------------------------------------------
(* A task, on one of Tokio's threads: the future, then the drops of the    *)
(* future, the Completion and the Task, in this order.                     *)

TaskStep(i, from, to) == task[i] = from /\ task' = [task EXCEPT ![i] = to]
Live(i) == call[i].loop = loop

FutureEnds(i, how, to) ==
    /\ TaskStep(i, "poll", to)
    /\ future' = [future EXCEPT ![i] = how]
    /\ UNCHANGED <<loopVars, runtime, suspensions, queue, notifyVars, call, nextId, slot,
                   fiberVars, phpVars>>

\* future.await yields the result, and drops the future.
FutureCompletes(i) == FutureEnds(i, "completed", "set")

\* The future panics: Tokio catches the panic, dropping what the task owns.
FuturePanics(i) == "panic" \in Env /\ FutureEnds(i, "panicked", "finish")

SlotStep(i, from, to, state) ==
    /\ TaskStep(i, from, to)
    /\ slot' = [slot EXCEPT ![i] = state]
    /\ UNCHANGED <<loopVars, runtime, suspensions, queue, notifyVars, call, nextId, future,
                   fiberVars, phpVars>>

\* Slot::set().
Set(i) == SlotStep(i, "set", "finish", "Completed")

\* Mutant: finish() doesn't look at the slot.
Finish_Overwrites(i) == SlotStep(i, "finish", "send", "Panicked")

\* Completion::drop: Slot::finish(), of a slot whose result may be taken.
Finish(i) == SlotStep(i, "finish", "send", IF slot[i] = "Running" THEN "Panicked" ELSE slot[i])

\* Completion::drop: the ID is sent; nobody receives it once the event loop is
\* gone.
Send(i) ==
    /\ TaskStep(i, "send", "notify")
    /\ queue' = IF Live(i) THEN Append(queue, i) ELSE queue
    /\ UNCHANGED <<loopVars, runtime, suspensions, notifyVars, call, nextId, slot, future,
                   fiberVars, phpVars>>

\* Notifier::notify(): the swap.  The notifier of another event loop isn't this
\* one's.
NotifySwap(i) ==
    /\ TaskStep(i, "notify", IF Live(i) /\ pending = 0 THEN "write" ELSE "drop")
    /\ pending' = IF Live(i) THEN 1 ELSE pending
    /\ UNCHANGED <<loopVars, runtime, suspensions, queue, socket, call, nextId, slot, future,
                   fiberVars, phpVars>>

\* Notifier::notify(): the write (Notify.tla has its failure).
NotifyWrite(i) ==
    /\ TaskStep(i, "write", "drop")
    /\ socket' = IF Live(i) THEN socket + 1 ELSE socket
    /\ UNCHANGED <<loopVars, runtime, suspensions, queue, pending, call, nextId, slot, future,
                   fiberVars, phpVars>>

\* Mutant: the task is never counted down.
TaskDrop_Leaks(i) == task[i] = "drop" /\ UNCHANGED vars

\* Mutant: the last task leaves the runtime alone.
TaskDrop_Keeps(i) ==
    /\ TaskStep(i, "drop", "gone")
    /\ UNCHANGED <<loopVars, runtime, suspensions, queue, notifyVars, call, nextId, slot, future,
                   fiberVars, phpVars>>

\* Task::drop: the last task releases the runtime shutdown() left to it.
TaskDrop(i) ==
    LET g == call[i].loop
    IN  /\ TaskStep(i, "drop", "gone")
        /\ runtime' = IF Running(g) = {i} /\ runtime[g] = "deferred"
                      THEN [runtime EXCEPT ![g] = "released"] ELSE runtime
        /\ UNCHANGED <<loopVars, suspensions, queue, notifyVars, call, nextId, slot, future,
                       fiberVars, phpVars>>

-----------------------------------------------------------------------------
(* wakeup() and drain().                                                   *)

Handle(from, to) == php = from /\ php' = to

\* wakeup(), called by Revolt or by PHP code; without an event loop it fails.
Wakeup ==
    /\ Handle("idle", "socket") /\ ending = "no"
    /\ loop # 0
    /\ ready' = <<>>
    /\ UNCHANGED <<loopVars, runtime, suspensions, queue, notifyVars, call, nextId, slot,
                   taskVars, fiberVars, closing, ending>>

\* drain(), called by PHP code; without an event loop it does nothing.
DrainCall ==
    /\ "drain" \in Env
    /\ Handle("idle", "recv") /\ ending = "no"
    /\ loop # 0
    /\ ready' = <<>>
    /\ UNCHANGED <<loopVars, runtime, suspensions, queue, notifyVars, call, nextId, slot,
                   taskVars, fiberVars, closing, ending>>

\* The next completion: its caller, if still registered, is to be resumed.
Take ==
    LET i == Head(queue)
    IN  /\ queue # <<>>
        /\ queue' = Tail(queue)
        /\ ready' = IF i \in suspensions THEN Append(ready, i) ELSE ready
        /\ suspensions' = suspensions \ {i}
        /\ UNCHANGED <<loopVars, runtime, notifyVars, call, nextId, slot, taskVars, fiberVars,
                       closing, ending>>

\* drain(): recv_timeout() gives a completion.
Recv == Handle("recv", "recv") /\ suspensions # {} /\ Take

\* drain(): nobody is registered any more, or the deadline passed.  A message
\* that is in the channel is received even then.
RecvStops ==
    /\ Handle("recv", "socket")
    /\ suspensions = {} \/ queue = <<>>
    /\ UNCHANGED <<loopVars, runtime, suspensions, queue, notifyVars, call, nextId, slot,
                   taskVars, fiberVars, ready, closing, ending>>

\* Receiver::drain(), up to the read that finds the socket empty.
ReadSocket ==
    /\ Handle("socket", "rearm")
    /\ socket' = 0
    /\ UNCHANGED <<loopVars, runtime, suspensions, queue, pending, call, nextId, slot, taskVars,
                   fiberVars, ready, closing, ending>>

\* Mutant: the flag stays up.
Rearm_Forgotten ==
    /\ Handle("rearm", "collect")
    /\ UNCHANGED <<loopVars, runtime, suspensions, queue, notifyVars, call, nextId, slot, taskVars,
                   fiberVars, ready, closing, ending>>

\* Notifier::rearm().
Rearm ==
    /\ Handle("rearm", "collect")
    /\ pending' = 0
    /\ UNCHANGED <<loopVars, runtime, suspensions, queue, socket, call, nextId, slot, taskVars,
                   fiberVars, ready, closing, ending>>

\* try_iter() gives a completion.
Collect == Handle("collect", "collect") /\ Take

\* Mutant: the first resume() that throws leaves the others suspended.
Resumes_StopsAtFirst(f) ==
    \E k \in DOMAIN ready :
        /\ call[ready[k]].fiber = f
        /\ \A m \in 1..k : fiber[call[ready[m]].fiber] = "suspended"

\* The fibers that resume() resumes: Suspension::resume() throws unless the fiber
\* is suspended, and the others are resumed all the same.
Resumes(f) == fiber[f] = "suspended" /\ \E i \in Elements(ready) : call[i].fiber = f

\* resume(), once the channel is empty.
Resume ==
    /\ Handle("collect", "idle") /\ queue = <<>>
    /\ fiber' = [f \in Fibers |-> IF Resumes(f) THEN "resumed" ELSE fiber[f]]
    /\ ready' = <<>>
    /\ UNCHANGED <<loopVars, runtime, suspensions, queue, notifyVars, call, nextId, slot,
                   taskVars, current, returned, closing, ending>>

\* pending(): the number of suspended callers.
Pending == IF loop = 0 THEN 0 ELSE Cardinality(suspensions)

-----------------------------------------------------------------------------
(* shutdown() and the end of the request.                                  *)

\* shutdown() takes the event loop out of EVENTLOOP; what it holds, its
\* suspensions included, is never used again.
TakeLoop ==
    /\ loop # 0
    /\ loop' = 0 /\ stream' = "none"
    /\ closing' = loop
    /\ suspensions' = {} /\ queue' = <<>>
    /\ pending' = 0 /\ socket' = 0
    /\ UNCHANGED <<created, runtime, call, nextId, slot, taskVars, fiberVars, ready>>

\* shutdown(), called by PHP code.
Shutdown ==
    /\ "shutdown" \in Env
    /\ Handle("idle", "borrowing") /\ ending = "no"
    /\ TakeLoop
    /\ UNCHANGED ending

\* The request ends, normally or by a fatal error that abandons the frames of
\* the suspended callers: request_end() shuts the event loop down.
RequestEnd ==
    /\ "end" \in Env
    /\ Handle("idle", "borrowing") /\ ending = "no"
    /\ TakeLoop
    /\ ending' = "yes"

\* The request ends when the event loop is shut down already.
RequestEndAlready ==
    /\ "end" \in Env
    /\ Handle("idle", "free") /\ ending = "no"
    /\ loop = 0
    /\ ending' = "yes"
    /\ UNCHANGED <<loopVars, runtime, suspensions, queue, notifyVars, call, nextId, slot,
                   taskVars, fiberVars, ready, closing>>

\* Mutant: shutdown() doesn't wait.
BorrowingEnded_Skipped == TRUE

\* What Tasks::wait_borrowing() waits for.
BorrowingEnded == RunningBorrowing(closing) = {}

\* Tasks::wait_borrowing().
WaitBorrowing ==
    /\ Handle("borrowing", "release")
    /\ BorrowingEnded
    /\ UNCHANGED <<loopVars, runtime, suspensions, queue, notifyVars, call, nextId, slot,
                   taskVars, fiberVars, ready, closing, ending>>

\* Mutant: the runtime is dropped with tasks running on it.
ReleaseNow_Always == TRUE

\* Tasks::release(): now, if none of the futures runs.
ReleaseNow == Running(closing) = {}

\* Tasks::release() of a runtime from init_with(): now, or by the last task.
Release ==
    /\ Handle("release", IF ending = "yes" THEN "free" ELSE "idle")
    /\ runtime' = IF runtime[closing] = "shared" THEN runtime
                  ELSE [runtime EXCEPT ![closing] =
                          IF ReleaseNow THEN "released" ELSE "deferred"]
    /\ closing' = 0
    /\ UNCHANGED <<loopVars, suspensions, queue, notifyVars, call, nextId, slot, taskVars,
                   fiberVars, ready, ending>>

\* PHP frees the request's memory (external): the frames still on a fiber's
\* stack are gone.  The next request has fibers of its own.
Free ==
    /\ Handle("free", "idle")
    /\ ending' = "no"
    /\ fiber' = [f \in Fibers |-> "user"]
    /\ current' = [f \in Fibers |-> 0]
    /\ returned' = [i \in Ids |-> IF \E f \in Fibers : current[f] = i THEN "freed" ELSE returned[i]]
    /\ UNCHANGED <<loopVars, runtime, suspensions, queue, notifyVars, call, nextId, slot,
                   taskVars, ready, closing>>

-----------------------------------------------------------------------------
TokioStep(i) ==
    \/ FutureCompletes(i) \/ FuturePanics(i) \/ Set(i) \/ Finish(i) \/ Send(i)
    \/ NotifySwap(i) \/ NotifyWrite(i) \/ TaskDrop(i)

CallerStep(f) ==
    \/ \E kind \in Kinds : Spawn(f, kind)
    \/ Suspend(f) \/ SuspendFails(f) \/ RunThrown(f) \/ Exit(f) \/ RunResumed(f) \/ Return(f)

RevoltStep(f) ==
    Throw(f) \/ SuspendElsewhere(f) \/ ResumeElsewhere(f) \/ RunElsewhere(f) \/ ResumeByOther(f)

HandlerStep == Recv \/ RecvStops \/ ReadSocket \/ Rearm \/ Collect \/ Resume

ShutdownStep == WaitBorrowing \/ Release \/ Free

Next ==
    \/ \E from \in Runtimes, opened \in {"open", "none"} : Initialize(from, opened)
    \/ CloseStream
    \/ \E i \in Ids : TokioStep(i)
    \/ \E f \in Fibers : CallerStep(f) \/ RevoltStep(f)
    \/ Wakeup \/ DrainCall \/ HandlerStep
    \/ Shutdown \/ RequestEnd \/ RequestEndAlready \/ ShutdownStep

Spec == Init /\ [][Next]_vars

\* Tokio runs its tasks, and every future ends (php-tokio can't make it).  The
\* PHP thread goes on with what it entered; drain()'s deadline passes.  Back in
\* Revolt, a fiber that was resumed or thrown into runs, and a stream that is
\* readable again and again is dispatched, whatever else happens in between.
Readable == socket > 0 /\ stream = "open"
Fairness ==
    /\ \A i \in Ids : WF_vars(TokioStep(i))
    /\ \A f \in Fibers : /\ WF_vars(Suspend(f) \/ SuspendFails(f))
                         /\ WF_vars(Return(f))
                         /\ SF_vars(RunResumed(f)) /\ SF_vars(RunThrown(f))
    /\ WF_vars(HandlerStep) /\ WF_vars(ShutdownStep)
    /\ SF_vars(Readable /\ Wakeup)

FairSpec == Spec /\ Fairness

-----------------------------------------------------------------------------
(* Properties.                                                             *)

\* The future of suspend_on() never outlives its caller's frame, from which it
\* may borrow: not when the caller is interrupted, not when its fiber is
\* destroyed, not when a fatal error ends the request (event_loop.rs:340-359).
BorrowSafety ==
    \A i \in Ids : (future[i] = "running" /\ Borrowing(i)) => current[call[i].fiber] = i

\* pending() is the number of callers of the current event loop that still have
\* to be resumed by it: one thrown into stays until it runs (event_loop.rs:445-465).
Waiting(f) ==
    /\ fiber[f] \in {"spawned", "suspended", "threw"}
    /\ current[f] # 0 /\ call[current[f]].loop = loop
RegisteredCallers ==
    (php \in {"idle", "call"} /\ loop # 0) =>
        /\ \A f \in Fibers : (Waiting(f) /\ fiber[f] # "threw") => current[f] \in suspensions
        /\ \A i \in suspensions : \E f \in Fibers : current[f] = i /\ Waiting(f)
        /\ Pending <= Cardinality({f \in Fibers : Waiting(f)})

\* A caller whose future is over and has notified isn't stranded by php-tokio: back
\* in PHP's event loop, it is registered, its ID is in the channel, and the socket is
\* readable or is about to be (event_loop.rs:480-487, 512-520).  Whether PHP watches
\* the socket is CallerContinues' question.
AboutToWrite == \E j \in Ids : Live(j) /\ task[j] = "write"
NoStrandedCaller ==
    php = "idle" =>
        \A f \in Fibers :
            LET i == current[f]
            IN  (fiber[f] = "suspended" /\ i # 0 /\ Live(i) /\ task[i] \in {"drop", "gone"}) =>
                    /\ i \in suspensions /\ i \in Elements(queue)
                    /\ socket > 0 \/ AboutToWrite

\* wakeup() and drain() leave no caller suspended whose future has sent its ID by
\* then, whatever PHP code did before: resumed some of the callers itself, so that
\* their resume() throws, or closed the stream and calls wakeup() on its own, or
\* opened it long after the futures completed (event_loop.rs:269-274, 480-487, 500-520).
HandlersResumeTheDone ==
    [][Resume => \A f \in Fibers :
          (fiber'[f] = "suspended" /\ current[f] # 0 /\ Live(current[f])) =>
              task[current[f]] \notin {"notify", "write", "drop", "gone"}]_vars

\* wakeup() and drain() only resume a caller once the future of the call it is
\* in is over, so that Slot::wait() doesn't block: event_loop.rs:378, 398.
ResumesOnlyTheDone ==
    [][Resume => \A f \in Fibers :
          fiber'[f] # fiber[f] => (current[f] # 0 /\ slot[current[f]] # "Running")]_vars

\* A call returns its future's result, or an error if it panicked; never an
\* error when the future completed, however the drop of the Completion and the
\* return of the caller interleave (event_loop.rs:108-132).
ResultFaithful ==
    \A i \in Ids : /\ returned[i] = "value" => future[i] = "completed"
                   /\ returned[i] = "panic" => future[i] = "panicked"

\* Each call keeps the promise of Calls.tla, whatever happens to its fiber, its
\* event loop and the request: one answer, of its own future, and never before
\* the end of a future that may borrow (event_loop.rs:328-335, 383-392, 534-543).
Promise == INSTANCE Calls WITH kind <- [i \in Ids |-> call[i].kind]
ImplementsCalls == Promise!Spec

\* A runtime from init_with() is released once its event loop is shut down and
\* its last task is gone, neither before (which would cancel futures) nor never:
\* by shutdown() or by that task (event_loop.rs:204-234).
RuntimeReleased ==
    \A g \in Loops :
        /\ runtime[g] = "released" => Running(g) = {}
        /\ runtime[g] = "deferred" => Running(g) # {}
        /\ runtime[g] = "loop" => g \in {loop, closing}

\* A caller of an event loop whose stream is watched eventually goes on, unless
\* the event loop is shut down or the stream goes away.
CallerContinues ==
    \A f \in Fibers, i \in Ids :
        (fiber[f] = "suspended" /\ current[f] = i /\ Live(i) /\ stream = "open")
            ~> (current[f] # i \/ ~Live(i) \/ stream # "open")

\* shutdown() returns: it doesn't wait for something that waits for it.
ShutdownReturns == php = "borrowing" ~> php = "idle"

\* A runtime left to its last task is released in the end.
DeferredReleased == \A g \in Loops : runtime[g] = "deferred" ~> runtime[g] = "released"
=============================================================================
