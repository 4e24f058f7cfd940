-------------------------- MODULE EventLoopProofs --------------------------
(***************************************************************************)
(* Proofs about EventLoop, for any set of fibers, any number of calls and  *)
(* event loops, and whatever PHP code, Revolt and the futures do: types,   *)
(* borrowing, runtimes, answers, the refinement of Calls, waking callers   *)
(* up, and, unless PHP code resumes suspensions that aren't its own, who   *)
(* is resumed and who is registered.                                       *)
(***************************************************************************)
EXTENDS EventLoop, FiniteSetTheorems, FunctionTheorems, TLAPS

-----------------------------------------------------------------------------
(* Type correctness.                                                       *)

\* A function that is updated, in its domain or not, keeps its type.
LEMMA ExceptType ==
    ASSUME NEW S, NEW T, NEW g \in [S -> T], NEW x, NEW v \in T
    PROVE  [g EXCEPT ![x] = v] \in [S -> T]
OBVIOUS

\* A call that returns takes its frame off its fiber's stack.
LEMMA FrameGone ==
    ASSUME current \in [Fibers -> 0..MaxId], NEW f PROVE [current EXCEPT ![f] = 0] \in [Fibers -> 0..MaxId]
<1>1. 0 \in 0..MaxId
  BY BoundsAssumption
<1> QED
  BY <1>1, ExceptType

\* A caller that ends its suspension (the end of suspend()) stays well typed.
LEMMA InterruptedTypes ==
    ASSUME TypeOK, NEW f \in Fibers, NEW waiting \in FiberStates, NEW then \in FiberStates,
           Interrupted(f, waiting, then)
    PROVE  TypeOK'
<1> USE BoundsAssumption
    DEF TypeOK, Ids, SlotStates, FutureStates, TaskStates, FiberStates, PhpStates,
        Outcomes, loopVars, notifyVars, taskVars
<1>1. CASE Borrowing(current[f])
  BY <1>1 DEF Interrupted, Unregister
<1>2. CASE ~Borrowing(current[f])
  <2>1. returned' \in [Ids -> Outcomes]
    BY <1>2, ExceptType DEF Interrupted
  <2>2. fiber' \in [Fibers -> FiberStates]
    BY <1>2 DEF Interrupted
  <2>3. current' \in [Fibers -> 0..MaxId]
    BY <1>2, FrameGone DEF Interrupted
  <2>4. suspensions' \subseteq 1..(nextId - 1) /\ php' \in PhpStates
    BY <1>2 DEF Interrupted, Unregister
  <2> QED
    BY <1>2, <2>1, <2>2, <2>3, <2>4 DEF Interrupted
<1> QED
  BY <1>1, <1>2

\* Taking a completion from the channel (wakeup() and drain()).
LEMMA TakeTypes ==
    ASSUME TypeOK, Take, php' \in PhpStates PROVE TypeOK'
<1> USE DEF TypeOK, loopVars, notifyVars, taskVars, fiberVars
<1>1. queue' \in Seq(Ids) /\ Head(queue) \in Ids
  BY DEF Take
<1>2. ready' \in Seq(Ids)
  BY <1>1 DEF Take
<1> QED
  BY <1>1, <1>2 DEF Take

\* Every state is well typed; in particular, only IDs that NEXT_ID gave are
\* registered.
THEOREM TypeCorrect == Spec => []TypeOK
<1> USE BoundsAssumption, InstanceAssumption
    DEF TypeOK, Ids, Loops, SlotStates, FutureStates, TaskStates, FiberStates, PhpStates,
        RuntimeStates, Outcomes, loopVars, notifyVars, taskVars, fiberVars, phpVars
<1>1. Init => TypeOK
  BY DEF Init, NoCall
<1>2. TypeOK /\ [Next]_vars => TypeOK'
  <2> SUFFICES ASSUME TypeOK, [Next]_vars PROVE TypeOK'
    OBVIOUS
  <2>1. ASSUME NEW from \in Runtimes, NEW opened \in {"open", "none"}, Initialize(from, opened)
        PROVE  TypeOK'
    <3>1. CASE Create(from)
      BY <2>1, <3>1 DEF Initialize, Create, PhpStream
    <3>2. CASE Keep
      BY <2>1, <3>2 DEF Initialize, Keep, PhpStream
    <3> QED
      BY <2>1, <3>1, <3>2 DEF Initialize
  <2>2. CASE CloseStream
    BY <2>2 DEF CloseStream
  <2>3. ASSUME NEW i \in Ids, FutureCompletes(i) PROVE TypeOK'
    BY <2>3 DEF FutureCompletes, FutureEnds, TaskStep
  <2>4. ASSUME NEW i \in Ids, FuturePanics(i) PROVE TypeOK'
    BY <2>4 DEF FuturePanics, FutureEnds, TaskStep
  <2>5. ASSUME NEW i \in Ids, Set(i) PROVE TypeOK'
    BY <2>5 DEF Set, SlotStep, TaskStep
  <2>6. ASSUME NEW i \in Ids, Finish(i) PROVE TypeOK'
    BY <2>6 DEF Finish, SlotStep, TaskStep
  <2>7. ASSUME NEW i \in Ids, Send(i) PROVE TypeOK'
    <3>1. queue' \in Seq(Ids)
      <4>1. CASE Live(i)
        BY <2>7, <4>1 DEF Send
      <4>2. CASE ~Live(i)
        BY <2>7, <4>2 DEF Send
      <4> QED
        BY <4>1, <4>2
    <3> QED
      BY <2>7, <3>1 DEF Send, TaskStep
  <2>8. ASSUME NEW i \in Ids, NotifySwap(i) PROVE TypeOK'
    BY <2>8 DEF NotifySwap, TaskStep, Live
  <2>9. ASSUME NEW i \in Ids, NotifyWrite(i) PROVE TypeOK'
    BY <2>9 DEF NotifyWrite, TaskStep, Live
  <2>10. ASSUME NEW i \in Ids, TaskDrop(i) PROVE TypeOK'
    BY <2>10 DEF TaskDrop, TaskStep
  <2>11. ASSUME NEW f \in Fibers, NEW kind \in Kinds, Spawn(f, kind) PROVE TypeOK'
    BY <2>11 DEF Spawn, FetchAddId, CallType
  <2>12. ASSUME NEW f \in Fibers, Suspend(f) PROVE TypeOK'
    BY <2>12 DEF Suspend
  <2>13. ASSUME NEW f \in Fibers, SuspendFails(f) PROVE TypeOK'
    BY <2>13, InterruptedTypes DEF SuspendFails
  <2>14. ASSUME NEW f \in Fibers, RunThrown(f) PROVE TypeOK'
    BY <2>14, InterruptedTypes DEF RunThrown
  <2>15. ASSUME NEW f \in Fibers, Exit(f) PROVE TypeOK'
    BY <2>15, InterruptedTypes DEF Exit
  <2>16. ASSUME NEW f \in Fibers, RunResumed(f) PROVE TypeOK'
    BY <2>16 DEF RunResumed
  <2>17. ASSUME NEW f \in Fibers, Return(f) PROVE TypeOK'
    <3>1. returned' \in [Ids -> Outcomes]
      <4> DEFINE result == IF slot[current[f]] = "Completed" THEN "value" ELSE "panic"
      <4>1. result \in Outcomes /\ returned \in [Ids -> Outcomes]
        OBVIOUS
      <4>2. returned' = [returned EXCEPT ![current[f]] = result]
        BY <2>17 DEF Return
      <4> HIDE DEF result, Outcomes
      <4> QED
        BY <4>1, <4>2, ExceptType
    <3>2. fiber' \in [Fibers -> FiberStates]
      BY <2>17 DEF Return
    <3>3. slot' \in [Ids -> SlotStates] /\ php' \in PhpStates
      BY <2>17 DEF Return
    <3>4. current' \in [Fibers -> 0..MaxId]
      BY <2>17, FrameGone DEF Return
    <3> QED
      BY <2>17, <3>1, <3>2, <3>3, <3>4 DEF Return
  <2>18. ASSUME NEW f \in Fibers, Throw(f) PROVE TypeOK'
    BY <2>18 DEF Throw, PhpCode
  <2>19. ASSUME NEW f \in Fibers, SuspendElsewhere(f) PROVE TypeOK'
    BY <2>19 DEF SuspendElsewhere, PhpCode
  <2>20. ASSUME NEW f \in Fibers, ResumeElsewhere(f) PROVE TypeOK'
    BY <2>20 DEF ResumeElsewhere, PhpCode
  <2>21. ASSUME NEW f \in Fibers, RunElsewhere(f) PROVE TypeOK'
    BY <2>21 DEF RunElsewhere, PhpCode
  <2>22. ASSUME NEW f \in Fibers, ResumeByOther(f) PROVE TypeOK'
    BY <2>22 DEF ResumeByOther, PhpCode
  <2>23. CASE Wakeup
    BY <2>23 DEF Wakeup, Handle
  <2>24. CASE DrainCall
    BY <2>24 DEF DrainCall, Handle
  <2>25. CASE Recv
    BY <2>25, TakeTypes DEF Recv, Handle
  <2>26. CASE RecvStops
    BY <2>26 DEF RecvStops, Handle
  <2>27. CASE ReadSocket
    BY <2>27 DEF ReadSocket, Handle
  <2>28. CASE Rearm
    BY <2>28 DEF Rearm, Handle
  <2>29. CASE Collect
    BY <2>29, TakeTypes DEF Collect, Handle
  <2>30. CASE Resume
    BY <2>30 DEF Resume, Resumes, Handle
  <2>31. CASE Shutdown
    BY <2>31 DEF Shutdown, TakeLoop, Handle
  <2>32. CASE RequestEnd
    BY <2>32 DEF RequestEnd, TakeLoop, Handle
  <2>33. CASE RequestEndAlready
    BY <2>33 DEF RequestEndAlready, Handle
  <2>34. CASE WaitBorrowing
    BY <2>34 DEF WaitBorrowing, Handle, BorrowingEnded
  <2>35. CASE Release
    <3>1. runtime' \in [Loops -> RuntimeStates]
      BY <2>35 DEF Release, ReleaseNow
    <3>2. php' \in PhpStates
      BY <2>35 DEF Release, Handle
    <3> QED
      BY <2>35, <3>1, <3>2 DEF Release
  <2>36. CASE Free
    BY <2>36 DEF Free, Handle
  <2>37. CASE UNCHANGED vars
    BY <2>37 DEF vars
  <2> QED
    BY <2>1, <2>2, <2>3, <2>4, <2>5, <2>6, <2>7, <2>8, <2>9, <2>10, <2>11, <2>12, <2>13,
       <2>14, <2>15, <2>16, <2>17, <2>18, <2>19, <2>20, <2>21, <2>22, <2>23, <2>24,
       <2>25, <2>26, <2>27, <2>28, <2>29, <2>30, <2>31, <2>32, <2>33, <2>34, <2>35,
       <2>36, <2>37
    DEF Next, TokioStep, CallerStep, RevoltStep, HandlerStep, ShutdownStep
<1> QED
  BY <1>1, <1>2, PTL DEF Spec

-----------------------------------------------------------------------------
(* Borrowing: BorrowSafety.                                                *)

\* A future that runs is polled by its task, and its slot says so: Slot::wait()
\* doesn't return before the future is over.
FutureIsPolled ==
    \A i \in Ids : future[i] = "running" => task[i] = "poll" /\ slot[i] = "Running"

\* The frame on a fiber's stack is that of a call it made.
FrameOfFiber ==
    \A f \in Fibers : current[f] # 0 => call[current[f]].fiber = f /\ current[f] < nextId

\* A fiber that runs PHP code, or exited, has no frame of ours.
NoFrame == \A f \in Fibers : fiber[f] \in {"user", "done"} => current[f] = 0

\* An ID that NEXT_ID didn't give is nobody's.
FreshIds == \A i \in Ids : i >= nextId => future[i] = "none" /\ task[i] = "none"

\* The tasks of suspend_on() are those of the current event loop, or of the one
\* whose shutdown() is waiting for them.
BorrowersWaitedFor ==
    \A i \in Ids : (Borrowing(i) /\ task[i] \notin {"none", "gone"}) =>
        call[i].loop = loop \/ (call[i].loop = closing /\ php = "borrowing")

\* shutdown() and the end of the request run without an event loop.
LoopTaken == php \in {"borrowing", "release", "free"} => loop = 0

BorrowInv ==
    /\ FutureIsPolled /\ FrameOfFiber /\ NoFrame /\ FreshIds /\ BorrowersWaitedFor /\ LoopTaken
    /\ BorrowSafety

\* Everything BorrowInv is about, fiber and php apart.
borrowVars == <<call, nextId, slot, future, task, current, loop, closing>>

\* Most of what the PHP thread does leaves the calls alone.
LEMMA CallsKept ==
    ASSUME BorrowInv, UNCHANGED borrowVars, NoFrame',
           php' \notin {"borrowing", "release", "free"}, php # "borrowing"
    PROVE  BorrowInv'
BY DEF BorrowInv, borrowVars, FutureIsPolled, FrameOfFiber, FreshIds, BorrowersWaitedFor,
       LoopTaken, BorrowSafety, Borrowing

\* A step of a task whose future is over disturbs nothing.
LEMMA TaskMoves ==
    ASSUME TypeOK, BorrowInv, NEW i \in Ids, NEW from \in TaskStates \ {"none", "poll", "gone"},
           NEW to \in TaskStates \ {"none", "poll"}, TaskStep(i, from, to),
           UNCHANGED <<call, nextId, future, current, loop, closing, fiber, php>>,
           \A j \in Ids : j # i => slot'[j] = slot[j]
    PROVE  BorrowInv'
<1> USE DEF BorrowInv, TaskStep, TypeOK
<1>1. FutureIsPolled' /\ FreshIds'
  BY DEF FutureIsPolled, FreshIds
<1>2. BorrowersWaitedFor'
  BY DEF BorrowersWaitedFor, Borrowing
<1>3. FrameOfFiber' /\ NoFrame' /\ LoopTaken' /\ BorrowSafety'
  BY DEF FrameOfFiber, NoFrame, LoopTaken, BorrowSafety, Borrowing
<1> QED
  BY <1>1, <1>2, <1>3

\* The future ends: its caller's frame is still there.
LEMMA FutureIsOver ==
    ASSUME TypeOK, BorrowInv, NEW i \in Ids, NEW how \in {"completed", "panicked"},
           NEW to \in {"set", "finish"}, FutureEnds(i, how, to)
    PROVE  BorrowInv'
<1> USE DEF BorrowInv, FutureEnds, TaskStep, TypeOK, loopVars, fiberVars, phpVars
<1>1. FutureIsPolled' /\ FreshIds'
  BY DEF FutureIsPolled, FreshIds
<1>2. BorrowersWaitedFor'
  BY DEF BorrowersWaitedFor, Borrowing
<1>3. FrameOfFiber' /\ NoFrame' /\ LoopTaken' /\ BorrowSafety'
  BY DEF FrameOfFiber, NoFrame, LoopTaken, BorrowSafety, Borrowing
<1> QED
  BY <1>1, <1>2, <1>3

\* An interrupted caller that may lend keeps its frame; another's goes.
LEMMA InterruptedKeepsLender ==
    ASSUME TypeOK, BorrowInv, NEW f \in Fibers, NEW waiting \in {"wait", "unwind"},
           NEW then \in FiberStates, php \in {"idle", "call"}, Interrupted(f, waiting, then)
    PROVE  BorrowInv'
<1> USE DEF BorrowInv, loopVars, taskVars, TypeOK
<1>1. CASE Borrowing(current[f])
  <2>1. NoFrame'
    BY <1>1 DEF Interrupted, NoFrame
  <2> QED
    BY <1>1, <2>1, CallsKept DEF Interrupted, borrowVars
<1>2. CASE ~Borrowing(current[f])
  <2>1. UNCHANGED <<call, nextId, slot, future, task, loop, closing>> /\ php' = "idle"
    BY <1>2 DEF Interrupted
  <2>2. current' = [current EXCEPT ![f] = 0] /\ fiber' = [fiber EXCEPT ![f] = then]
    BY <1>2 DEF Interrupted
  <2>3. FutureIsPolled' /\ FreshIds' /\ LoopTaken'
    BY <2>1 DEF FutureIsPolled, FreshIds, LoopTaken
  <2>4. BorrowersWaitedFor'
    BY <2>1 DEF BorrowersWaitedFor, Borrowing
  <2>5. FrameOfFiber' /\ NoFrame'
    BY <2>1, <2>2 DEF FrameOfFiber, NoFrame
  <2>6. BorrowSafety'
    BY <1>2, <2>1, <2>2 DEF BorrowSafety, Borrowing
  <2> QED
    BY <2>3, <2>4, <2>5, <2>6
<1> QED
  BY <1>1, <1>2

\* Spawning: the new call gets the fiber's frame, and nobody else's.
LEMMA SpawnKeepsLenders ==
    ASSUME TypeOK, BorrowInv, NEW f \in Fibers, NEW kind \in Kinds, Spawn(f, kind)
    PROVE  BorrowInv'
<1> USE BoundsAssumption DEF BorrowInv, Spawn, FetchAddId, loopVars
<1>1. nextId \in Ids /\ current[f] = 0
  BY DEF TypeOK, NoFrame, Ids
<1>2. call'[nextId] = [fiber |-> f, loop |-> loop, kind |-> kind]
  BY <1>1 DEF TypeOK
<1>3. \A i \in Ids \ {nextId} : /\ call'[i] = call[i] /\ slot'[i] = slot[i]
                                /\ future'[i] = future[i] /\ task'[i] = task[i]
  BY <1>1 DEF TypeOK
<1>4. slot'[nextId] = "Running" /\ task'[nextId] = "poll" /\ current'[f] = nextId
  BY <1>1 DEF TypeOK
<1>5. \A g \in Fibers \ {f} : current'[g] = current[g] /\ fiber'[g] = fiber[g]
  BY DEF TypeOK
<1>6. FutureIsPolled'
  BY <1>3, <1>4 DEF FutureIsPolled
<1>7. FreshIds'
  BY <1>1, <1>3 DEF FreshIds, TypeOK, Ids
<1>8. FrameOfFiber'
  BY <1>1, <1>2, <1>3, <1>4, <1>5 DEF FrameOfFiber, TypeOK, Ids
<1>9. NoFrame' /\ LoopTaken'
  BY <1>5 DEF NoFrame, LoopTaken, TypeOK
<1>10. BorrowersWaitedFor'
  BY <1>2, <1>3 DEF BorrowersWaitedFor, Borrowing
<1>11. BorrowSafety'
  <2> SUFFICES ASSUME NEW i \in Ids, future'[i] = "running", Borrowing(i)'
               PROVE  current'[call'[i].fiber] = i
    BY DEF BorrowSafety
  <2>1. CASE i = nextId
    BY <2>1, <1>2, <1>4
  <2>2. CASE i # nextId
    <3>1. current[call[i].fiber] = i /\ call[i].fiber \in Fibers
      BY <2>2, <1>3 DEF BorrowSafety, Borrowing, TypeOK, CallType, NoCall
    <3>2. call[i].fiber # f
      BY <3>1, <1>1 DEF Ids
    <3> QED
      BY <3>1, <3>2, <2>2, <1>3, <1>5
  <2> QED
    BY <2>1, <2>2
<1> QED
  BY <1>6, <1>7, <1>8, <1>9, <1>10, <1>11

\* A call returns only when its slot says that its future is over.
LEMMA ReturnKeepsLenders ==
    ASSUME TypeOK, BorrowInv, NEW f \in Fibers, Return(f) PROVE BorrowInv'
<1> USE DEF BorrowInv, Return, Over, loopVars, taskVars
<1>1. future[current[f]] # "running" \/ current[f] \notin Ids
  BY DEF FutureIsPolled
<1>2. FutureIsPolled'
  BY <1>1 DEF FutureIsPolled, TypeOK
<1>3. FreshIds' /\ LoopTaken'
  BY DEF FreshIds, LoopTaken
<1>4. BorrowersWaitedFor'
  BY DEF BorrowersWaitedFor, Borrowing
<1>5. FrameOfFiber' /\ NoFrame'
  BY DEF FrameOfFiber, NoFrame, TypeOK
<1>6. BorrowSafety'
  BY <1>1 DEF BorrowSafety, Borrowing, TypeOK
<1> QED
  BY <1>2, <1>3, <1>4, <1>5, <1>6

\* The event loop of a call of suspend_on() has a number: it isn't None.
LEMMA BorrowerHasLoop ==
    ASSUME TypeOK, NEW i \in Ids, Borrowing(i) PROVE call[i].loop # 0
<1>1. call[i] \in CallType \cup {NoCall}
  BY DEF TypeOK
<1>2. call[i].kind # NoCall.kind
  BY DEF Borrowing, NoCall
<1>3. 0 \notin Loops
  BY BoundsAssumption DEF Loops
<1> QED
  BY <1>1, <1>2, <1>3 DEF CallType

\* A new event loop has no borrower yet.
LEMMA InitializeKeepsLenders ==
    ASSUME TypeOK, BorrowInv, NEW from \in Runtimes, NEW opened \in {"open", "none"},
           Initialize(from, opened)
    PROVE  BorrowInv'
<1> USE DEF BorrowInv, Initialize, loopVars, taskVars, fiberVars, phpVars
<1>1. CASE Keep
  BY <1>1, CallsKept DEF Keep, borrowVars, NoFrame
<1>2. CASE Create(from)
  <2>1. FutureIsPolled' /\ FrameOfFiber' /\ NoFrame' /\ FreshIds' /\ BorrowSafety'
    BY DEF FutureIsPolled, FrameOfFiber, NoFrame, FreshIds, BorrowSafety, Borrowing
  <2>2. BorrowersWaitedFor' /\ LoopTaken'
    BY <1>2, BorrowerHasLoop DEF Create, BorrowersWaitedFor, Borrowing, LoopTaken
  <2> QED
    BY <2>1, <2>2
<1> QED
  BY <1>1, <1>2

\* shutdown() takes the event loop, and will wait for its borrowers.
LEMMA TakeLoopKeepsLenders ==
    ASSUME BorrowInv, TakeLoop, php = "idle", php' = "borrowing" PROVE BorrowInv'
<1> USE DEF BorrowInv, TakeLoop, taskVars, fiberVars
<1>1. FutureIsPolled' /\ FrameOfFiber' /\ NoFrame' /\ FreshIds' /\ BorrowSafety'
  BY DEF FutureIsPolled, FrameOfFiber, NoFrame, FreshIds, BorrowSafety, Borrowing
<1>2. BorrowersWaitedFor' /\ LoopTaken'
  BY DEF BorrowersWaitedFor, Borrowing, LoopTaken
<1> QED
  BY <1>1, <1>2

\* Once no borrower is left, shutdown() goes on and the request may end.
LEMMA ShutdownKeepsLenders ==
    ASSUME TypeOK, BorrowInv, WaitBorrowing \/ Release \/ RequestEndAlready PROVE BorrowInv'
<1> USE DEF BorrowInv, loopVars, taskVars, fiberVars, Handle
<1>1. UNCHANGED <<call, nextId, slot, future, task, current, loop, fiber>>
  BY DEF WaitBorrowing, Release, RequestEndAlready
<1>2. FutureIsPolled' /\ FrameOfFiber' /\ NoFrame' /\ FreshIds' /\ BorrowSafety'
  BY <1>1 DEF FutureIsPolled, FrameOfFiber, NoFrame, FreshIds, BorrowSafety, Borrowing
<1>3. LoopTaken'
  BY <1>1 DEF LoopTaken, WaitBorrowing, Release, RequestEndAlready
<1>4. BorrowersWaitedFor'
  <2>1. CASE WaitBorrowing
    BY <1>1, <2>1 DEF WaitBorrowing, BorrowingEnded, RunningBorrowing, Running,
                      BorrowersWaitedFor, Borrowing
  <2>2. CASE Release \/ RequestEndAlready
    BY <1>1, <2>2 DEF Release, RequestEndAlready, BorrowersWaitedFor, Borrowing
  <2> QED
    BY <2>1, <2>2
<1> QED
  BY <1>2, <1>3, <1>4

\* PHP frees the request's memory when no future borrows from it.
LEMMA FreeKeepsLenders ==
    ASSUME TypeOK, BorrowInv, Free PROVE BorrowInv'
<1> USE DEF BorrowInv, Free, Handle, loopVars, taskVars
<1>1. \A i \in Ids : ~(Borrowing(i) /\ task[i] \notin {"none", "gone"})
  BY BorrowerHasLoop DEF BorrowersWaitedFor, LoopTaken
<1>2. BorrowSafety' /\ FutureIsPolled'
  BY <1>1 DEF FutureIsPolled, BorrowSafety, Borrowing
<1>3. FrameOfFiber' /\ NoFrame' /\ FreshIds' /\ LoopTaken'
  BY DEF FrameOfFiber, NoFrame, FreshIds, LoopTaken
<1>4. BorrowersWaitedFor'
  BY <1>1 DEF BorrowersWaitedFor, Borrowing
<1> QED
  BY <1>2, <1>3, <1>4

\* BorrowInv is inductive.
LEMMA BorrowInvariant == Spec => []BorrowInv
<1> USE DEF loopVars, notifyVars, taskVars, fiberVars, phpVars
<1>1. Init => BorrowInv
  BY DEF Init, BorrowInv, FutureIsPolled, FrameOfFiber, NoFrame, FreshIds, BorrowersWaitedFor,
         LoopTaken, BorrowSafety, Borrowing
<1>2. TypeOK /\ BorrowInv /\ [Next]_vars => BorrowInv'
  <2> SUFFICES ASSUME TypeOK, BorrowInv, [Next]_vars PROVE BorrowInv'
    OBVIOUS
  <2>1. ASSUME NEW from \in Runtimes, NEW opened \in {"open", "none"}, Initialize(from, opened)
        PROVE  BorrowInv'
    BY <2>1, InitializeKeepsLenders
  <2>2. ASSUME NEW i \in Ids, FutureCompletes(i) \/ FuturePanics(i) PROVE BorrowInv'
    BY <2>2, FutureIsOver DEF FutureCompletes, FuturePanics
  <2>3. ASSUME NEW i \in Ids, Set(i) \/ Finish(i) PROVE BorrowInv'
    BY <2>3, TaskMoves DEF Set, Finish, SlotStep, TypeOK, TaskStates
  <2>4. ASSUME NEW i \in Ids, Send(i) \/ NotifySwap(i) \/ NotifyWrite(i) \/ TaskDrop(i) PROVE BorrowInv'
    BY <2>4, TaskMoves DEF Send, NotifySwap, NotifyWrite, TaskDrop, TaskStates
  <2>5. ASSUME NEW f \in Fibers, NEW kind \in Kinds, Spawn(f, kind) PROVE BorrowInv'
    BY <2>5, SpawnKeepsLenders
  <2>6. ASSUME NEW f \in Fibers, Suspend(f) \/ RunResumed(f) PROVE BorrowInv'
    BY <2>6, CallsKept DEF Suspend, RunResumed, borrowVars, BorrowInv, NoFrame, TypeOK
  <2>7. ASSUME NEW f \in Fibers, SuspendFails(f) \/ RunThrown(f) \/ Exit(f) PROVE BorrowInv'
    BY <2>7, InterruptedKeepsLender DEF SuspendFails, RunThrown, Exit, FiberStates
  <2>8. ASSUME NEW f \in Fibers, Return(f) PROVE BorrowInv'
    BY <2>8, ReturnKeepsLenders
  <2>9. ASSUME NEW f \in Fibers, RevoltStep(f) PROVE BorrowInv'
    BY <2>9, CallsKept DEF RevoltStep, Throw, SuspendElsewhere, ResumeElsewhere, RunElsewhere,
       ResumeByOther, PhpCode, borrowVars, BorrowInv, NoFrame, TypeOK
  <2>10. CASE CloseStream \/ Wakeup \/ DrainCall
    BY <2>10, CallsKept DEF CloseStream, Wakeup, DrainCall, Handle, borrowVars, BorrowInv, NoFrame
  <2>11. CASE Recv \/ RecvStops \/ ReadSocket \/ Rearm \/ Collect
    BY <2>11, CallsKept DEF Recv, RecvStops, ReadSocket, Rearm, Collect, Take, Handle, borrowVars,
       BorrowInv, NoFrame
  <2>12. CASE Resume
    BY <2>12, CallsKept DEF Resume, Resumes, Handle, borrowVars, BorrowInv, NoFrame, TypeOK
  <2>13. CASE Shutdown \/ RequestEnd
    BY <2>13, TakeLoopKeepsLenders DEF Shutdown, RequestEnd, Handle
  <2>14. CASE RequestEndAlready \/ WaitBorrowing \/ Release
    BY <2>14, ShutdownKeepsLenders
  <2>15. CASE Free
    BY <2>15, FreeKeepsLenders
  <2>16. CASE UNCHANGED vars
    BY <2>16 DEF vars, BorrowInv, FutureIsPolled, FrameOfFiber, NoFrame, FreshIds,
       BorrowersWaitedFor, LoopTaken, BorrowSafety, Borrowing
  <2> QED
    BY <2>1, <2>2, <2>3, <2>4, <2>5, <2>6, <2>7, <2>8, <2>9, <2>10, <2>11,
       <2>12, <2>13, <2>14, <2>15, <2>16
    DEF Next, TokioStep, CallerStep, HandlerStep, ShutdownStep
<1> QED
  BY <1>1, <1>2, TypeCorrect, PTL DEF Spec

\* A future of suspend_on() never outlives the frame it may borrow from
\* (event_loop.rs:340-359), whatever interrupts the caller: an exception, an exit,
\* shutdown(), a fatal error; and even if PHP code resumes callers by itself.
THEOREM BorrowIsSafe == Spec => []BorrowSafety
BY BorrowInvariant, PTL DEF BorrowInv

-----------------------------------------------------------------------------
(* Releasing runtimes: RuntimeReleased.                                    *)

\* The current event loop, and the one being shut down, have their runtime.
RuntimeHeld == \A g \in Loops : g \in {loop, closing} => runtime[g] \in {"loop", "shared"}

\* Only shutdown() closes an event loop.
ClosingInShutdown == closing # 0 => php \in {"borrowing", "release"}

RuntimeInv == RuntimeReleased /\ RuntimeHeld /\ ClosingInShutdown

\* Most steps neither start nor end a task, nor touch a runtime.
LEMMA RuntimesKept ==
    ASSUME RuntimeInv, UNCHANGED <<runtime, loop, closing>>,
           \A g \in Loops : Running(g)' = Running(g),
           closing # 0 => php' \in {"borrowing", "release"}
    PROVE  RuntimeInv'
BY DEF RuntimeInv, RuntimeReleased, RuntimeHeld, ClosingInShutdown

\* A task that goes on, short of its drop, is still running.
LEMMA TaskStillRuns ==
    ASSUME TypeOK, NEW i \in Ids, NEW from \in TaskStates \ {"none", "gone"},
           NEW to \in TaskStates \ {"none", "gone"}, TaskStep(i, from, to), UNCHANGED call
    PROVE  \A g \in Loops : Running(g)' = Running(g)
BY DEF TaskStep, Running, TypeOK

\* spawn() adds a task to the current event loop, whose runtime is there.
LEMMA SpawnKeepsRuntimes ==
    ASSUME TypeOK, FreshIds, RuntimeInv, NEW f \in Fibers, NEW kind \in Kinds, Spawn(f, kind)
    PROVE  RuntimeInv'
<1> USE DEF Spawn, FetchAddId, loopVars, RuntimeInv
<1>1. nextId \in Ids /\ loop \in Loops /\ closing = 0
  BY BoundsAssumption DEF TypeOK, Ids, Loops, ClosingInShutdown
<1>2. nextId \notin Running(loop)
  BY <1>1 DEF FreshIds, Running, Ids, TypeOK
<1>3. Running(loop)' = Running(loop) \cup {nextId}
  BY <1>1 DEF Running, TypeOK
<1>4. \A g \in Loops \ {loop} : Running(g)' = Running(g)
  BY <1>1 DEF FreshIds, Running, Ids, TypeOK
<1>5. RuntimeReleased'
  BY <1>1, <1>3, <1>4 DEF RuntimeReleased, RuntimeHeld
<1>6. RuntimeHeld' /\ ClosingInShutdown'
  BY <1>1 DEF RuntimeHeld, ClosingInShutdown
<1> QED
  BY <1>5, <1>6

\* The drop of a task releases the runtime left to it if it is the last.
LEMMA TaskDropKeepsRuntimes ==
    ASSUME TypeOK, RuntimeInv, NEW i \in Ids, TaskDrop(i) PROVE RuntimeInv'
<1> USE DEF TaskDrop, TaskStep, loopVars, phpVars, RuntimeInv
<1> SUFFICES ASSUME NEW h, h = call[i].loop PROVE RuntimeInv'
  OBVIOUS
<1>1. i \in Running(h) /\ Running(h)' = Running(h) \ {i}
  BY DEF Running, TypeOK
<1>2. \A g \in Loops \ {h} : Running(g)' = Running(g) /\ runtime'[g] = runtime[g]
  BY DEF Running, TypeOK
<1>3. ClosingInShutdown'
  BY DEF ClosingInShutdown
<1>4. h \in Loops => runtime'[h] = IF Running(h) = {i} /\ runtime[h] = "deferred"
                                  THEN "released" ELSE runtime[h]
  BY DEF TypeOK
<1> HIDE DEF TaskDrop, TaskStep
<1>5. UNCHANGED <<loop, closing>>
  BY DEF TaskDrop
<1>6. RuntimeReleased'
  <2> SUFFICES ASSUME NEW g \in Loops
               PROVE  /\ runtime'[g] = "released" => Running(g)' = {}
                      /\ runtime'[g] = "deferred" => Running(g)' # {}
                      /\ runtime'[g] = "loop" => g \in {loop, closing}
    BY <1>5 DEF RuntimeReleased
  <2>1. CASE g # h
    BY <2>1, <1>2 DEF RuntimeReleased
  <2>2. CASE g = h /\ Running(h) = {i}
    BY <2>2, <1>1, <1>4 DEF RuntimeReleased
  <2>3. CASE g = h /\ Running(h) # {i}
    BY <2>3, <1>1, <1>4 DEF RuntimeReleased
  <2> QED
    BY <2>1, <2>2, <2>3
<1>7. RuntimeHeld'
  BY <1>2, <1>4, <1>5 DEF RuntimeHeld
<1> QED
  BY <1>3, <1>6, <1>7

\* Init and shutdown: an event loop has its runtime until it is released.
LEMMA InitializeKeepsRuntimes ==
    ASSUME TypeOK, RuntimeInv, NEW from \in Runtimes, NEW opened \in {"open", "none"},
           Initialize(from, opened)
    PROVE  RuntimeInv'
<1> USE DEF RuntimeInv, Initialize, taskVars, phpVars
<1>1. \A g \in Loops : Running(g)' = Running(g)
  BY DEF Running
<1>2. CASE Keep
  BY <1>1, <1>2, RuntimesKept DEF Keep, ClosingInShutdown
<1>3. CASE Create(from)
  <2>1. closing = 0 /\ closing' = 0 /\ created + 1 \in Loops
    BY <1>3, BoundsAssumption DEF ClosingInShutdown, Create, TypeOK, Loops
  <2>2. /\ runtime'[created + 1] \in {"loop", "shared"}
        /\ \A g \in Loops \ {created + 1} : runtime'[g] = runtime[g]
    BY <1>3, <2>1, InstanceAssumption DEF Create, TypeOK
  <2>3. RuntimeReleased'
    BY <1>1, <1>3, <2>1, <2>2 DEF RuntimeReleased, Create, Loops
  <2>4. RuntimeHeld' /\ ClosingInShutdown'
    BY <1>3, <2>1, <2>2 DEF RuntimeHeld, ClosingInShutdown, Create, Loops
  <2> QED
    BY <2>3, <2>4
<1> QED
  BY <1>2, <1>3

\* shutdown() keeps the runtime of the event loop it takes.
LEMMA TakeLoopKeepsRuntimes ==
    ASSUME RuntimeInv, TakeLoop, php = "idle", php' = "borrowing" PROVE RuntimeInv'
<1> USE DEF RuntimeInv, TakeLoop, taskVars
<1>1. \A g \in Loops : Running(g)' = Running(g)
  BY DEF Running
<1>2. closing = 0
  BY DEF ClosingInShutdown
<1> QED
  BY <1>1, <1>2, BoundsAssumption
  DEF RuntimeReleased, RuntimeHeld, ClosingInShutdown, Loops

\* Tasks::release(): at once, or by a task that still runs.
LEMMA ReleaseKeepsRuntimes ==
    ASSUME TypeOK, RuntimeInv, LoopTaken, Release PROVE RuntimeInv'
<1> USE DEF RuntimeInv, Release, Handle, ReleaseNow, loopVars, taskVars
<1>1. \A g \in Loops : Running(g)' = Running(g)
  BY DEF Running
<1>2. loop' = 0 /\ closing' = 0
  BY DEF LoopTaken
<1>3. \A g \in Loops \ {closing} : runtime'[g] = runtime[g]
  BY DEF TypeOK
<1>4. closing \in Loops =>
        runtime'[closing] \in (IF Running(closing) = {} THEN {"shared", "released"} ELSE {"shared", "deferred"})
  BY DEF TypeOK
<1>5. RuntimeReleased'
  BY <1>1, <1>2, <1>3, <1>4, BoundsAssumption DEF RuntimeReleased, LoopTaken, Loops
<1>6. RuntimeHeld' /\ ClosingInShutdown'
  BY <1>2, BoundsAssumption DEF RuntimeHeld, ClosingInShutdown, Loops
<1> QED
  BY <1>5, <1>6

\* A runtime from init_with() is released once its event loop is shut down and its
\* last future is over, neither before nor never (event_loop.rs:153-163, 204-234).
THEOREM RuntimeIsReleased == Spec => []RuntimeReleased
<1> USE DEF loopVars, notifyVars, taskVars, fiberVars, phpVars
<1>1. Init => RuntimeInv
  BY BoundsAssumption DEF Init, RuntimeInv, RuntimeReleased, RuntimeHeld, ClosingInShutdown, Loops
<1>2. TypeOK /\ BorrowInv /\ RuntimeInv /\ [Next]_vars => RuntimeInv'
  <2> SUFFICES ASSUME TypeOK, BorrowInv, RuntimeInv, [Next]_vars PROVE RuntimeInv'
    OBVIOUS
  <2>1. ASSUME NEW from \in Runtimes, NEW opened \in {"open", "none"}, Initialize(from, opened)
        PROVE  RuntimeInv'
    BY <2>1, InitializeKeepsRuntimes
  <2>2. ASSUME NEW i \in Ids, FutureCompletes(i) \/ FuturePanics(i) PROVE RuntimeInv'
    BY <2>2, TaskStillRuns, RuntimesKept
    DEF FutureCompletes, FuturePanics, FutureEnds, TaskStates, RuntimeInv, ClosingInShutdown
  <2>3. ASSUME NEW i \in Ids, Set(i) \/ Finish(i) PROVE RuntimeInv'
    BY <2>3, TaskStillRuns, RuntimesKept
    DEF Set, Finish, SlotStep, TaskStates, RuntimeInv, ClosingInShutdown
  <2>4. ASSUME NEW i \in Ids, Send(i) \/ NotifySwap(i) \/ NotifyWrite(i) PROVE RuntimeInv'
    BY <2>4, TaskStillRuns, RuntimesKept
    DEF Send, NotifySwap, NotifyWrite, TaskStates, RuntimeInv, ClosingInShutdown
  <2>5. ASSUME NEW i \in Ids, TaskDrop(i) PROVE RuntimeInv'
    BY <2>5, TaskDropKeepsRuntimes
  <2>6. ASSUME NEW f \in Fibers, NEW kind \in Kinds, Spawn(f, kind) PROVE RuntimeInv'
    BY <2>6, SpawnKeepsRuntimes DEF BorrowInv
  <2>7. ASSUME NEW f \in Fibers, Suspend(f) \/ RunResumed(f) \/ Return(f) PROVE RuntimeInv'
    BY <2>7, RuntimesKept DEF Suspend, RunResumed, Return, Running, RuntimeInv, ClosingInShutdown
  <2>8. ASSUME NEW f \in Fibers, SuspendFails(f) \/ RunThrown(f) \/ Exit(f) PROVE RuntimeInv'
    BY <2>8, RuntimesKept
    DEF SuspendFails, RunThrown, Exit, Interrupted, Running, RuntimeInv, ClosingInShutdown
  <2>9. ASSUME NEW f \in Fibers, RevoltStep(f) PROVE RuntimeInv'
    BY <2>9, RuntimesKept
    DEF RevoltStep, Throw, SuspendElsewhere, ResumeElsewhere, RunElsewhere, ResumeByOther, PhpCode,
        Running, RuntimeInv, ClosingInShutdown
  <2>10. CASE CloseStream \/ Wakeup \/ DrainCall
    BY <2>10, RuntimesKept
    DEF CloseStream, Wakeup, DrainCall, Handle, Running, RuntimeInv, ClosingInShutdown
  <2>11. CASE HandlerStep
    BY <2>11, RuntimesKept
    DEF HandlerStep, Recv, RecvStops, ReadSocket, Rearm, Collect, Take, Resume, Handle, Running,
        RuntimeInv, ClosingInShutdown
  <2>12. CASE Shutdown \/ RequestEnd
    BY <2>12, TakeLoopKeepsRuntimes DEF Shutdown, RequestEnd, Handle
  <2>13. CASE RequestEndAlready \/ WaitBorrowing \/ Free
    BY <2>13, RuntimesKept
    DEF RequestEndAlready, WaitBorrowing, Free, Handle, Running, RuntimeInv, ClosingInShutdown
  <2>14. CASE Release
    BY <2>14, ReleaseKeepsRuntimes DEF BorrowInv
  <2>15. CASE UNCHANGED vars
    BY <2>15, RuntimesKept DEF vars, Running, RuntimeInv, ClosingInShutdown
  <2> QED
    BY <2>1, <2>2, <2>3, <2>4, <2>5, <2>6, <2>7, <2>8, <2>9, <2>10, <2>11,
       <2>12, <2>13, <2>14, <2>15
    DEF Next, TokioStep, CallerStep, ShutdownStep
<1>3. RuntimeInv => RuntimeReleased
  BY DEF RuntimeInv
<1> QED
  BY <1>1, <1>2, <1>3, TypeCorrect, BorrowInvariant, PTL DEF Spec

-----------------------------------------------------------------------------
(* The answers: ResultFaithful.                                            *)

\* The slot tells how the future ended, and the task fills it in that order.
SlotTells ==
    \A i \in Ids :
        /\ slot[i] = "Completed" => future[i] = "completed"
        /\ slot[i] = "Panicked" => future[i] = "panicked"
        /\ task[i] = "poll" => future[i] = "running"
        /\ task[i] = "set" => future[i] = "completed" /\ slot[i] = "Running"
        /\ (task[i] = "finish" /\ slot[i] = "Running") => future[i] = "panicked"

\* A call whose frame is on a stack has no answer yet: its result isn't taken.
FrameUnanswered ==
    \A f \in Fibers : current[f] # 0 =>
        /\ returned[current[f]] = "none" /\ slot[current[f]] # "Taken"
        /\ call[current[f]].kind # "none"

\* A call that isn't made has no answer.
FreshCalls == \A i \in Ids : i >= nextId => call[i].kind = "none" /\ returned[i] = "none"

\* A fiber inside suspend_on() or try_suspend_on(), but not suspended, has a frame.
HasFrame == \A f \in Fibers : fiber[f] \in {"spawned", "wait", "unwind"} => current[f] # 0

AnswerInv == HasFrame /\ SlotTells /\ FrameUnanswered /\ FreshCalls /\ ResultFaithful

answerVars == <<call, nextId, slot, future, task, current, returned>>

\* Most of what the PHP thread does leaves the answers alone.
LEMMA AnswersKept ==
    ASSUME AnswerInv, UNCHANGED answerVars, HasFrame' PROVE AnswerInv'
BY DEF AnswerInv, answerVars, SlotTells, FrameUnanswered, FreshCalls, ResultFaithful

\* So do the last steps of a task.
LEMMA TaskEndKeepsAnswers ==
    ASSUME TypeOK, AnswerInv, NEW i \in Ids, NEW from \in TaskStates,
           NEW to \in {"notify", "write", "drop", "gone"}, TaskStep(i, from, to),
           UNCHANGED <<call, nextId, slot, future, current, returned, fiber>>
    PROVE  AnswerInv'
<1>1. SlotTells'
  BY DEF AnswerInv, TaskStep, TypeOK, SlotTells
<1> QED
  BY <1>1 DEF AnswerInv, HasFrame, FrameUnanswered, FreshCalls, ResultFaithful

\* The frames on two fibers' stacks are of two calls.
LEMMA FramesDiffer ==
    ASSUME BorrowInv, NEW f \in Fibers, NEW h \in Fibers, f # h, current[f] # 0
    PROVE  current[h] # current[f]
BY DEF BorrowInv, FrameOfFiber

\* The frame on a stack is that of a call.
LEMMA FrameIsCall ==
    ASSUME TypeOK, BorrowInv, NEW f \in Fibers, current[f] # 0
    PROVE  current[f] \in Ids /\ current[f] < nextId
BY DEF TypeOK, BorrowInv, FrameOfFiber, Ids

\* The future ends: how, its slot doesn't tell yet.
LEMMA FutureEndKeepsAnswers ==
    ASSUME TypeOK, BorrowInv, AnswerInv, NEW i \in Ids,
           FutureEnds(i, "completed", "set") \/ FutureEnds(i, "panicked", "finish")
    PROVE  AnswerInv'
<1> USE DEF AnswerInv, FutureEnds, TaskStep, TypeOK, fiberVars
<1>1. future[i] = "running" /\ slot[i] = "Running"
  BY DEF SlotTells, BorrowInv, FutureIsPolled
<1>2. SlotTells'
  BY <1>1 DEF SlotTells
<1>3. ResultFaithful'
  BY <1>1 DEF ResultFaithful
<1> QED
  BY <1>2, <1>3 DEF HasFrame, FrameUnanswered, FreshCalls

\* The slot is filled with what its future is.
LEMMA SlotStepKeepsAnswers ==
    ASSUME TypeOK, BorrowInv, AnswerInv, NEW i \in Ids, Set(i) \/ Finish(i) PROVE AnswerInv'
<1> USE DEF AnswerInv, Set, Finish, SlotStep, TaskStep, fiberVars
<1>1. \A j \in Ids : j # i => slot'[j] = slot[j] /\ task'[j] = task[j]
  BY DEF TypeOK
<1>2. SlotTells'
  BY <1>1 DEF SlotTells, TypeOK
<1>3. FrameUnanswered'
  <2>1. slot'[i] = "Taken" => slot[i] = "Taken"
    BY DEF TypeOK
  <2>2. \A f \in Fibers : current[f] # 0 => current[f] \in Ids
    BY FrameIsCall
  <2> QED
    BY <1>1, <2>1, <2>2 DEF FrameUnanswered
<1> QED
  BY <1>2, <1>3 DEF HasFrame, FreshCalls, ResultFaithful

\* Spawning: a call without an answer.
LEMMA SpawnKeepsAnswers ==
    ASSUME TypeOK, BorrowInv, AnswerInv, NEW f \in Fibers, NEW kind \in Kinds, Spawn(f, kind)
    PROVE  AnswerInv'
<1> USE BoundsAssumption DEF AnswerInv, Spawn, FetchAddId
<1>1. nextId \in Ids /\ kind # "none"
  BY InstanceAssumption DEF TypeOK, Ids
<1>2. \A i \in Ids \ {nextId} : /\ call'[i] = call[i] /\ slot'[i] = slot[i]
                                /\ future'[i] = future[i] /\ task'[i] = task[i]
  BY <1>1 DEF TypeOK
<1>3. /\ call'[nextId].kind = kind /\ slot'[nextId] = "Running"
      /\ future'[nextId] = "running" /\ task'[nextId] = "poll" /\ returned[nextId] = "none"
  BY <1>1 DEF TypeOK, FreshCalls
<1>4. SlotTells'
  BY <1>2, <1>3 DEF SlotTells
<1>5. FrameUnanswered'
  <2> SUFFICES ASSUME NEW h \in Fibers, current'[h] # 0
               PROVE  /\ returned'[current'[h]] = "none" /\ slot'[current'[h]] # "Taken"
                      /\ call'[current'[h]].kind # "none"
    BY DEF FrameUnanswered
  <2>1. CASE h = f
    BY <2>1, <1>1, <1>3 DEF TypeOK
  <2>2. CASE h # f
    <3>1. current'[h] = current[h] /\ current[h] < nextId /\ current[h] \in Ids
      BY <2>2 DEF TypeOK, BorrowInv, FrameOfFiber, Ids
    <3>2. current[h] \in Ids \ {nextId}
      BY <3>1, <1>1 DEF TypeOK, Ids
    <3> QED
      BY <3>1, <3>2, <1>2 DEF FrameUnanswered
  <2> QED
    BY <2>1, <2>2
<1>6. FreshCalls'
  BY <1>1, <1>2 DEF FreshCalls, TypeOK, Ids
<1>7. ResultFaithful'
  BY <1>1, <1>2, <1>3 DEF ResultFaithful
<1>8. HasFrame'
  BY <1>1 DEF HasFrame, TypeOK, Ids
<1> QED
  BY <1>4, <1>5, <1>6, <1>7, <1>8

\* A caller interrupted in try_suspend_on() gets an answer; one in suspend_on()
\* doesn't.
LEMMA InterruptedKeepsAnswers ==
    ASSUME TypeOK, BorrowInv, AnswerInv, NEW f \in Fibers, NEW waiting,
           NEW then \in {"user", "done"}, current[f] # 0, Interrupted(f, waiting, then)
    PROVE  AnswerInv'
<1> USE DEF AnswerInv, taskVars
<1>1. CASE Borrowing(current[f])
  BY <1>1, AnswersKept DEF Interrupted, answerVars, HasFrame, TypeOK
<1>2. CASE ~Borrowing(current[f])
  <2>1. /\ UNCHANGED <<call, nextId, slot, future, task>>
        /\ current' = [current EXCEPT ![f] = 0]
        /\ returned' = [returned EXCEPT ![current[f]] = "failed"]
        /\ fiber' = [fiber EXCEPT ![f] = then]
    BY <1>2 DEF Interrupted
  <2>2. FrameUnanswered'
    BY <2>1, FramesDiffer DEF FrameUnanswered, TypeOK
  <2>3. FreshCalls'
    BY <2>1, BoundsAssumption DEF FreshCalls, TypeOK, BorrowInv, FrameOfFiber, Ids
  <2>4. SlotTells' /\ ResultFaithful' /\ HasFrame'
    BY <2>1 DEF SlotTells, ResultFaithful, HasFrame, TypeOK
  <2> QED
    BY <2>2, <2>3, <2>4
<1> QED
  BY <1>1, <1>2

\* The call returns what its slot tells.
LEMMA ReturnKeepsAnswers ==
    ASSUME TypeOK, BorrowInv, AnswerInv, NEW f \in Fibers, Return(f) PROVE AnswerInv'
<1> USE DEF AnswerInv, Return, Over, taskVars
<1>1. current[f] # 0 /\ current[f] \in Ids /\ current[f] < nextId
  BY FrameIsCall DEF HasFrame
<1>2. slot[current[f]] \in {"Completed", "Panicked"}
  BY <1>1 DEF TypeOK, SlotStates, FrameUnanswered
<1>3. FrameUnanswered'
  BY <1>1, FramesDiffer DEF FrameUnanswered, TypeOK
<1>4. FreshCalls'
  BY <1>1, BoundsAssumption DEF FreshCalls, TypeOK, Ids
<1>5. SlotTells'
  BY <1>1, <1>2 DEF SlotTells, TypeOK
<1>6. ResultFaithful'
  BY <1>1, <1>2 DEF SlotTells, ResultFaithful, TypeOK
<1>7. HasFrame'
  BY DEF HasFrame, TypeOK
<1> QED
  BY <1>3, <1>4, <1>5, <1>6, <1>7

\* The end of the request answers nobody.
LEMMA FreeKeepsAnswers ==
    ASSUME TypeOK, BorrowInv, AnswerInv, Free PROVE AnswerInv'
<1> USE DEF AnswerInv, Free, taskVars
<1>1. FrameUnanswered' /\ SlotTells' /\ HasFrame'
  BY DEF FrameUnanswered, SlotTells, HasFrame, TypeOK
<1>2. FreshCalls'
  <2>1. \A f \in Fibers, i \in Ids : current[f] = i => i < nextId
    BY FrameIsCall DEF Ids
  <2> QED
    BY <2>1, BoundsAssumption DEF FreshCalls, TypeOK, Ids
<1>3. ResultFaithful'
  BY DEF ResultFaithful, TypeOK
<1> QED
  BY <1>1, <1>2, <1>3

\* AnswerInv is inductive.
LEMMA AnswerInvariant == Spec => []AnswerInv
<1> USE DEF loopVars, notifyVars, taskVars, fiberVars, phpVars
<1>1. Init => AnswerInv
  BY DEF Init, NoCall, AnswerInv, HasFrame, SlotTells, FrameUnanswered, FreshCalls, ResultFaithful
<1>2. TypeOK /\ BorrowInv /\ AnswerInv /\ [Next]_vars => AnswerInv'
  <2> SUFFICES ASSUME TypeOK, BorrowInv, AnswerInv, [Next]_vars PROVE AnswerInv'
    OBVIOUS
  <2>1. ASSUME NEW from \in Runtimes, NEW opened \in {"open", "none"}, Initialize(from, opened)
        PROVE  AnswerInv'
    BY <2>1, AnswersKept DEF Initialize, Create, Keep, answerVars, AnswerInv, HasFrame
  <2>2. ASSUME NEW i \in Ids, FutureCompletes(i) \/ FuturePanics(i) PROVE AnswerInv'
    BY <2>2, FutureEndKeepsAnswers DEF FutureCompletes, FuturePanics
  <2>3. ASSUME NEW i \in Ids, Set(i) \/ Finish(i) PROVE AnswerInv'
    BY <2>3, SlotStepKeepsAnswers
  <2>4. ASSUME NEW i \in Ids, Send(i) \/ NotifySwap(i) \/ NotifyWrite(i) \/ TaskDrop(i) PROVE AnswerInv'
    BY <2>4, TaskEndKeepsAnswers DEF Send, NotifySwap, NotifyWrite, TaskDrop, TaskStates
  <2>5. ASSUME NEW f \in Fibers, NEW kind \in Kinds, Spawn(f, kind) PROVE AnswerInv'
    BY <2>5, SpawnKeepsAnswers
  <2>6. ASSUME NEW f \in Fibers, Suspend(f) \/ RunResumed(f) PROVE AnswerInv'
    BY <2>6, AnswersKept DEF Suspend, RunResumed, answerVars, AnswerInv, HasFrame, TypeOK
  <2>7. ASSUME NEW f \in Fibers, SuspendFails(f) \/ RunThrown(f) \/ Exit(f) PROVE AnswerInv'
    BY <2>7, InterruptedKeepsAnswers DEF SuspendFails, RunThrown, Exit, AnswerInv, HasFrame
  <2>8. ASSUME NEW f \in Fibers, Return(f) PROVE AnswerInv'
    BY <2>8, ReturnKeepsAnswers
  <2>9. ASSUME NEW f \in Fibers, RevoltStep(f) PROVE AnswerInv'
    BY <2>9, AnswersKept DEF RevoltStep, Throw, SuspendElsewhere, ResumeElsewhere, RunElsewhere,
       ResumeByOther, PhpCode, answerVars, AnswerInv, HasFrame, TypeOK
  <2>10. CASE CloseStream \/ Wakeup \/ DrainCall
    BY <2>10, AnswersKept DEF CloseStream, Wakeup, DrainCall, Handle, answerVars, AnswerInv, HasFrame
  <2>11. CASE Recv \/ RecvStops \/ ReadSocket \/ Rearm \/ Collect
    BY <2>11, AnswersKept DEF Recv, RecvStops, ReadSocket, Rearm, Collect, Take, Handle, answerVars,
       AnswerInv, HasFrame
  <2>12. CASE Resume
    BY <2>12, AnswersKept DEF Resume, Resumes, Handle, answerVars, AnswerInv, HasFrame, TypeOK
  <2>13. CASE Shutdown \/ RequestEnd \/ RequestEndAlready \/ WaitBorrowing \/ Release
    BY <2>13, AnswersKept DEF Shutdown, RequestEnd, RequestEndAlready, WaitBorrowing, Release,
       TakeLoop, Handle, answerVars, AnswerInv, HasFrame
  <2>14. CASE Free
    BY <2>14, FreeKeepsAnswers
  <2>15. CASE UNCHANGED vars
    BY <2>15, AnswersKept DEF vars, answerVars, AnswerInv, HasFrame
  <2> QED
    BY <2>1, <2>2, <2>3, <2>4, <2>5, <2>6, <2>7, <2>8, <2>9, <2>10, <2>11,
       <2>12, <2>13, <2>14, <2>15
    DEF Next, TokioStep, CallerStep, HandlerStep, ShutdownStep
<1> QED
  BY <1>1, <1>2, TypeCorrect, BorrowInvariant, PTL DEF Spec

\* A call returns its future's result, or an error if it panicked, however the
\* steps of the task and of the caller interleave (event_loop.rs:108-132).
THEOREM AnswersAreFaithful == Spec => []ResultFaithful
BY AnswerInvariant, PTL DEF AnswerInv

-----------------------------------------------------------------------------
(* The refinement: ImplementsCalls.                                        *)

\* A step that leaves the calls, the futures and the answers alone is none of
\* Calls's.
LEMMA Stutters ==
    ASSUME UNCHANGED <<call, future, returned>> PROVE UNCHANGED Promise!vars
BY DEF Promise!vars

\* Spawn() begins a call.
LEMMA SpawnBegins ==
    ASSUME TypeOK, BorrowInv, AnswerInv, NEW f \in Fibers, NEW kind \in Kinds, Spawn(f, kind)
    PROVE  Promise!Next
<1> USE BoundsAssumption, InstanceAssumption DEF Spawn
<1>1. nextId \in Ids
  BY DEF TypeOK, Ids
<1>2. call[nextId].kind = "none" /\ future[nextId] = "none"
  BY <1>1 DEF AnswerInv, FreshCalls, BorrowInv, FreshIds, TypeOK, Ids
<1>3. [i \in Ids |-> call'[i].kind] = [[i \in Ids |-> call[i].kind] EXCEPT ![nextId] = kind]
  BY <1>1 DEF TypeOK
<1>4. Promise!Begin(nextId, kind)
  BY <1>1, <1>2, <1>3 DEF Promise!Begin
<1> QED
  BY <1>1, <1>4 DEF Promise!Next

\* The future ends.
LEMMA FutureEndIsEnd ==
    ASSUME TypeOK, BorrowInv, AnswerInv, NEW i \in Ids, NEW how \in {"completed", "panicked"},
           NEW to, FutureEnds(i, how, to)
    PROVE  Promise!Next
<1>1. future[i] = "running"
  BY DEF FutureEnds, TaskStep, AnswerInv, SlotTells
<1>2. Promise!End(i, how)
  BY <1>1 DEF Promise!End, FutureEnds, fiberVars
<1> QED
  BY <1>2 DEF Promise!Next

\* The caller whose suspension ends otherwise than by being resumed waits, or
\* abandons its call.
LEMMA InterruptedAbandons ==
    ASSUME TypeOK, AnswerInv, NEW f \in Fibers, NEW waiting, NEW then,
           current[f] # 0, Interrupted(f, waiting, then)
    PROVE  Promise!Next \/ UNCHANGED Promise!vars
<1>1. CASE Borrowing(current[f])
  BY <1>1, Stutters DEF Interrupted, taskVars
<1>2. CASE ~Borrowing(current[f])
  <2>1. current[f] \in Ids
    BY DEF TypeOK, Ids
  <2>2. call[current[f]].kind # "none" /\ returned[current[f]] = "none"
    BY DEF AnswerInv, FrameUnanswered
  <2>3. call[current[f]] \in CallType \cup {NoCall}
    BY <2>1 DEF TypeOK
  <2>4. call[current[f]].kind = "try_suspend_on"
    <3>1. call[current[f]] # NoCall
      BY <2>2 DEF NoCall
    <3>2. call[current[f]].kind \in Kinds
      BY <2>3, <3>1 DEF CallType
    <3> QED
      BY <1>2, <3>2, InstanceAssumption DEF Borrowing
  <2>5. Promise!Abandon(current[f])
    BY <1>2, <2>1, <2>2, <2>4 DEF Promise!Abandon, Promise!Unanswered, Interrupted, taskVars
  <2> QED
    BY <2>1, <2>5 DEF Promise!Next
<1> QED
  BY <1>1, <1>2

\* The caller returns with the answer.
LEMMA ReturnAnswers ==
    ASSUME TypeOK, AnswerInv, NEW f \in Fibers, Return(f) PROVE Promise!Next
<1> USE DEF Return, Over, AnswerInv, taskVars
<1>1. current[f] \in Ids /\ current[f] # 0
  BY DEF TypeOK, HasFrame, Ids
<1>2. slot[current[f]] \in {"Completed", "Panicked"} /\ returned[current[f]] = "none"
  BY <1>1 DEF TypeOK, SlotStates, FrameUnanswered
<1>3. future[current[f]] = IF slot[current[f]] = "Completed" THEN "completed" ELSE "panicked"
  BY <1>1, <1>2 DEF SlotTells
<1>4. Promise!Answer(current[f])
  BY <1>1, <1>2, <1>3 DEF Promise!Answer, Promise!Unanswered, FrameUnanswered
<1> QED
  BY <1>1, <1>4 DEF Promise!Next

\* PHP frees frames: no future of suspend_on() runs any more.
LEMMA FreeFreesFrames ==
    ASSUME TypeOK, BorrowInv, AnswerInv, Free PROVE Promise!Next
<1> USE DEF Free, Handle, taskVars
<1> DEFINE Freed == {i \in Ids : \E f \in Fibers : current[f] = i}
<1>1. \A i \in Ids : Borrowing(i) => future[i] # "running"
  <2> SUFFICES ASSUME NEW i \in Ids, Borrowing(i), future[i] = "running" PROVE FALSE
    OBVIOUS
  <2>1. call[i].loop # 0 /\ task[i] = "poll"
    BY BorrowerHasLoop DEF BorrowInv, FutureIsPolled
  <2> QED
    BY <2>1 DEF BorrowInv, BorrowersWaitedFor, LoopTaken
<1>2. \A i \in Freed : call[i].kind # "none" /\ returned[i] = "none"
  BY DEF AnswerInv, FrameUnanswered, Ids
<1>3. returned' = [i \in Ids |-> IF i \in Freed THEN "freed" ELSE returned[i]]
  OBVIOUS
<1>4. Promise!FreeFrames(Freed)
  BY <1>1, <1>2, <1>3 DEF Promise!FreeFrames, Promise!Unanswered, Borrowing
<1> QED
  BY <1>4 DEF Promise!Next

\* Every step of EventLoop is a step of Calls, or none.
LEMMA StepImplements ==
    ASSUME TypeOK, BorrowInv, AnswerInv, [Next]_vars
    PROVE  [Promise!Next]_(Promise!vars)
<1> USE DEF taskVars, fiberVars
<1>1. ASSUME NEW from \in Runtimes, NEW opened \in {"open", "none"}, Initialize(from, opened)
      PROVE  UNCHANGED Promise!vars
  BY <1>1, Stutters DEF Initialize
<1>2. ASSUME NEW i \in Ids, FutureCompletes(i) \/ FuturePanics(i) PROVE Promise!Next
  BY <1>2, FutureEndIsEnd DEF FutureCompletes, FuturePanics
<1>3. ASSUME NEW i \in Ids, Set(i) \/ Finish(i) PROVE UNCHANGED Promise!vars
  BY <1>3, Stutters DEF Set, Finish, SlotStep
<1>4. ASSUME NEW i \in Ids, Send(i) \/ NotifySwap(i) \/ NotifyWrite(i) \/ TaskDrop(i)
      PROVE  UNCHANGED Promise!vars
  BY <1>4, Stutters DEF Send, NotifySwap, NotifyWrite, TaskDrop
<1>5. ASSUME NEW f \in Fibers, NEW kind \in Kinds, Spawn(f, kind) PROVE Promise!Next
  BY <1>5, SpawnBegins
<1>6. ASSUME NEW f \in Fibers, Suspend(f) \/ RunResumed(f) PROVE UNCHANGED Promise!vars
  BY <1>6, Stutters DEF Suspend, RunResumed
<1>7. ASSUME NEW f \in Fibers, SuspendFails(f) \/ RunThrown(f) \/ Exit(f)
      PROVE  Promise!Next \/ UNCHANGED Promise!vars
  BY <1>7, InterruptedAbandons DEF SuspendFails, RunThrown, Exit, AnswerInv, HasFrame
<1>8. ASSUME NEW f \in Fibers, Return(f) PROVE Promise!Next
  BY <1>8, ReturnAnswers
<1>9. ASSUME NEW f \in Fibers, RevoltStep(f) PROVE UNCHANGED Promise!vars
  BY <1>9, Stutters DEF RevoltStep, Throw, SuspendElsewhere, ResumeElsewhere, RunElsewhere,
     ResumeByOther, PhpCode
<1>10. CASE CloseStream \/ Wakeup \/ DrainCall \/ HandlerStep
  BY <1>10, Stutters DEF CloseStream, Wakeup, DrainCall, HandlerStep, Recv, RecvStops, ReadSocket,
     Rearm, Collect, Take, Resume
<1>11. CASE Shutdown \/ RequestEnd \/ RequestEndAlready \/ WaitBorrowing \/ Release
  BY <1>11, Stutters DEF Shutdown, RequestEnd, RequestEndAlready, WaitBorrowing, Release, TakeLoop
<1>12. CASE Free
  BY <1>12, FreeFreesFrames
<1>13. CASE UNCHANGED vars
  BY <1>13, Stutters DEF vars
<1> QED
  BY <1>1, <1>2, <1>3, <1>4, <1>5, <1>6, <1>7, <1>8, <1>9, <1>10, <1>11,
     <1>12, <1>13
  DEF Next, TokioStep, CallerStep, ShutdownStep

\* EventLoop implements Calls: every call gets one answer, of its own future, and
\* a call of suspend_on() none before its future is over, whatever happens to the
\* fiber, the event loop and the request (event_loop.rs:328-335, 383-392, 534-543).
THEOREM EventLoopImplementsCalls == Spec => ImplementsCalls
<1>1. Init => Promise!Init
  BY DEF Init, NoCall, Promise!Init
<1>2. TypeOK /\ BorrowInv /\ AnswerInv /\ [Next]_vars => [Promise!Next]_(Promise!vars)
  BY StepImplements
<1> QED
  BY <1>1, <1>2, TypeCorrect, BorrowInvariant, AnswerInvariant, PTL
  DEF Spec, ImplementsCalls, Promise!Spec

-----------------------------------------------------------------------------
(* Waking callers up: NoStrandedCaller.                                    *)

\* The event loops are numbered in the order they are created; a task belongs to one.
LoopNumbers ==
    /\ loop <= created
    /\ \A i \in Ids : call[i].loop <= created /\ (task[i] # "none" => call[i].loop # 0)

\* Without an event loop nobody is registered, and nothing is in the channel.
NothingLeft == loop = 0 => suspensions = {} /\ queue = <<>> /\ pending = 0

\* Only wakeup() and drain() hold suspensions to be resumed.
ReadyInHandler == php \notin {"recv", "socket", "rearm", "collect"} => ready = <<>>

\* The tasks that have sent their ID.
Sent(i) == task[i] \in {"notify", "write", "drop", "gone"}

\* The registered callers and the IDs in the channel are of the current event loop;
\* an ID that wakeup() or drain() takes has been sent.
OfThisLoop ==
    /\ \A i \in suspensions : Live(i)
    /\ \A i \in Elements(queue) : Live(i) /\ Sent(i)
    /\ \A i \in Elements(ready) : Sent(i)

\* A future whose ID is sent is over, and the slot says so.
SentIsOver == \A i \in Ids : (Sent(i) \/ task[i] = "send") => slot[i] # "Running"

\* The PHP thread runs one caller at a time, and no handler meanwhile.
Runs(f) == fiber[f] \in {"spawned", "wait", "unwind"}
OneRuns == \A f \in Fibers : Runs(f) => php = "call" /\ \A h \in Fibers : Runs(h) => h = f

\* A caller that the current event loop suspended, or is about to, is registered, or
\* wakeup() or drain() took it to resume it.
SuspendedIsKnown ==
    \A f \in Fibers : (fiber[f] \in {"spawned", "suspended"} /\ current[f] # 0 /\ Live(current[f])) =>
        current[f] \in suspensions \/ current[f] \in Elements(ready)

\* The ID of a registered caller, once sent, is in the channel.
SentIsQueued == \A i \in suspensions : Sent(i) => i \in Elements(queue)

\* The flag is up once one of the IDs in the channel has been notified, unless they
\* are about to be collected.
NotifiedIsFlagged ==
    \A i \in Elements(queue) : task[i] # "notify" => pending = 1 \/ php = "collect"

\* The flag is only up if the socket is readable, or is about to be, or if it is
\* about to be cleared.
FlagIsBacked == pending = 1 => socket > 0 \/ AboutToWrite \/ php = "rearm"

WakeupInv ==
    /\ LoopNumbers /\ NothingLeft /\ ReadyInHandler /\ OfThisLoop /\ SentIsOver
    /\ OneRuns /\ SuspendedIsKnown /\ SentIsQueued /\ NotifiedIsFlagged /\ FlagIsBacked

\* The IDs in the channel before and after one is sent or received.
LEMMA AppendElements ==
    ASSUME NEW S, NEW s \in Seq(S), NEW x \in S
    PROVE  Append(s, x) \in Seq(S) /\ Elements(Append(s, x)) = Elements(s) \cup {x}
<1>1. /\ Append(s, x) \in Seq(S) /\ DOMAIN Append(s, x) = 1..(Len(s) + 1)
      /\ \A k \in 1..Len(s) : Append(s, x)[k] = s[k]
      /\ Append(s, x)[Len(s) + 1] = x
  OBVIOUS
<1>2. Len(s) \in Nat /\ DOMAIN s = 1..Len(s)
  OBVIOUS
<1>3. Elements(s) \cup {x} \subseteq Elements(Append(s, x))
  <2>1. Len(s) + 1 \in DOMAIN Append(s, x) /\ \A k \in DOMAIN s : k \in DOMAIN Append(s, x)
    BY <1>1, <1>2
  <2> QED
    BY <1>1, <1>2, <2>1 DEF Elements
<1>4. ASSUME NEW k \in DOMAIN Append(s, x) PROVE Append(s, x)[k] \in Elements(s) \cup {x}
  <2>1. CASE k \in 1..Len(s)
    BY <2>1, <1>1, <1>2 DEF Elements
  <2>2. CASE k = Len(s) + 1
    BY <2>2, <1>1
  <2> QED
    BY <2>1, <2>2, <1>1, <1>2
<1> QED
  BY <1>1, <1>3, <1>4 DEF Elements

\* A received ID is the first one; the others stay.
LEMMA TailElements ==
    ASSUME NEW S, NEW s \in Seq(S), s # <<>>
    PROVE  /\ Head(s) \in S /\ Tail(s) \in Seq(S)
           /\ Elements(s) = Elements(Tail(s)) \cup {Head(s)}
<1>1. /\ Head(s) \in S /\ Tail(s) \in Seq(S) /\ Head(s) = s[1]
      /\ DOMAIN Tail(s) = 1..(Len(s) - 1)
      /\ \A k \in 1..(Len(s) - 1) : Tail(s)[k] = s[k + 1]
      /\ Len(s) \in Nat \ {0} /\ DOMAIN s = 1..Len(s)
  OBVIOUS
<1>2. 1 \in DOMAIN s /\ \A k \in DOMAIN Tail(s) : k + 1 \in DOMAIN s
  BY <1>1
<1>3. \A k \in DOMAIN s : k = 1 \/ (k - 1 \in DOMAIN Tail(s) /\ Tail(s)[k - 1] = s[k])
  BY <1>1
<1>4. Elements(Tail(s)) \cup {Head(s)} \subseteq Elements(s)
  BY <1>1, <1>2 DEF Elements
<1>5. ASSUME NEW k \in DOMAIN s PROVE s[k] \in Elements(Tail(s)) \cup {Head(s)}
  BY <1>1, <1>3 DEF Elements
<1> QED
  BY <1>1, <1>4, <1>5 DEF Elements

\* Nothing is in an empty channel.
LEMMA NoElements == Elements(<<>>) = {}
BY DEF Elements

\* The registered callers, and the IDs in the channel, are calls.
LEMMA KnownIds ==
    ASSUME TypeOK
    PROVE  suspensions \subseteq Ids /\ Elements(queue) \subseteq Ids /\ Elements(ready) \subseteq Ids
<1>1. suspensions \subseteq Ids
  BY BoundsAssumption DEF TypeOK, Ids
<1>2. ASSUME NEW s \in Seq(Ids) PROVE Elements(s) \subseteq Ids
  BY DEF Elements
<1> QED
  BY <1>1, <1>2 DEF TypeOK

\* A call that was made is some fiber's, and of an event loop.
LEMMA CallMade ==
    ASSUME TypeOK, NEW i \in Ids, call[i].loop # 0
    PROVE  call[i].fiber \in Fibers /\ call[i].loop \in Loops
BY DEF TypeOK, CallType, NoCall

wakeupVars == <<loop, created, suspensions, queue, pending, socket, call, task, ready>>

\* Most of what the PHP thread does between two calls of wakeup() and drain()
\* leaves the registered callers, the channel and the flag alone.
LEMMA WakeupKept ==
    ASSUME WakeupInv, UNCHANGED wakeupVars, OneRuns',
           \A i \in Ids : slot[i] # "Running" => slot'[i] # "Running",
           \A f \in Fibers : (fiber'[f] \in {"spawned", "suspended"} /\ current'[f] # 0) =>
               fiber[f] \in {"spawned", "suspended"} /\ current'[f] = current[f],
           php \notin {"rearm", "collect"},
           php' \in {"recv", "socket"} \/ php \notin {"recv", "socket"}
    PROVE  WakeupInv'
<1> USE DEF WakeupInv, wakeupVars
<1>1. LoopNumbers' /\ NothingLeft' /\ ReadyInHandler' /\ OfThisLoop'
  BY DEF LoopNumbers, NothingLeft, ReadyInHandler, OfThisLoop, Live, Sent, Elements
<1>2. SentIsOver' /\ SentIsQueued' /\ NotifiedIsFlagged' /\ FlagIsBacked'
  BY DEF SentIsOver, SentIsQueued, NotifiedIsFlagged, FlagIsBacked, AboutToWrite, Live, Sent, Elements
<1>3. SuspendedIsKnown'
  BY DEF SuspendedIsKnown, Live, Elements
<1> QED
  BY <1>1, <1>2, <1>3

\* A task's steps up to its send and after its notification: who is registered,
\* sent or notified doesn't change.
LEMMA TaskKeepsWakeup ==
    ASSUME TypeOK, WakeupInv, NEW i \in Ids, NEW from \in TaskStates, NEW to \in TaskStates,
           TaskStep(i, from, to),
           UNCHANGED <<loop, created, suspensions, queue, pending, socket, call, ready,
                       fiber, current, php>>,
           \A j \in Ids : slot[j] # "Running" => slot'[j] # "Running",
           \/ from \in {"poll", "set", "finish"} /\ to \in {"set", "finish", "send"}
           \/ from = "drop" /\ to = "gone",
           to \in {"send", "gone"} => slot'[i] # "Running"
    PROVE  WakeupInv'
<1> USE DEF WakeupInv
<1>1. /\ \A j \in Ids : j # i => task'[j] = task[j]
      /\ task[i] = from /\ task'[i] = to
  BY DEF TaskStep, TypeOK
<1>2. \A j \in Ids : /\ Sent(j)' <=> Sent(j)
                     /\ task'[j] \in {"notify", "write"} <=> task[j] \in {"notify", "write"}
                     /\ task'[j] = "notify" <=> task[j] = "notify"
                     /\ task'[j] = "none" => task[j] = "none"
  BY <1>1 DEF Sent
<1>3. Elements(queue)' = Elements(queue) /\ Elements(ready)' = Elements(ready)
  BY DEF Elements
<1>4. \A j \in Ids : Live(j)' <=> Live(j)
  BY DEF Live
<1>5. suspensions \subseteq Ids /\ Elements(queue) \subseteq Ids /\ Elements(ready) \subseteq Ids
  BY KnownIds
<1> HIDE DEF TaskStep
<1>6. LoopNumbers' /\ NothingLeft' /\ ReadyInHandler'
  BY <1>1 DEF LoopNumbers, NothingLeft, ReadyInHandler
<1>7. OfThisLoop' /\ SentIsQueued'
  BY <1>2, <1>3, <1>4, <1>5 DEF OfThisLoop, SentIsQueued
<1>8. SentIsOver'
  BY <1>1 DEF SentIsOver, Sent
<1>9. SuspendedIsKnown' /\ OneRuns'
  BY <1>3 DEF SuspendedIsKnown, Live, OneRuns, Runs
<1>10. NotifiedIsFlagged'
  BY <1>2, <1>3, <1>5 DEF NotifiedIsFlagged
<1>11. FlagIsBacked'
  BY <1>1, <1>4 DEF FlagIsBacked, AboutToWrite
<1> QED
  BY <1>6, <1>7, <1>8, <1>9, <1>10, <1>11

\* Completion::drop sends the ID to the channel of the call's event loop, if it is
\* still there: then it is in the channel before it is notified.
LEMMA SendKeepsWakeup ==
    ASSUME TypeOK, WakeupInv, NEW i \in Ids, Send(i) PROVE WakeupInv'
<1> USE DEF WakeupInv
<1>1. /\ \A j \in Ids : j # i => task'[j] = task[j]
      /\ task[i] = "send" /\ task'[i] = "notify"
  BY DEF Send, TaskStep, TypeOK
<1>2. UNCHANGED <<loop, created, suspensions, pending, socket, call, slot, ready, fiber, current, php>>
  BY DEF Send, loopVars, notifyVars, fiberVars, phpVars
<1>3. Elements(ready)' = Elements(ready) /\ \A j \in Ids : Live(j)' <=> Live(j)
  BY <1>2 DEF Elements, Live
<1>4. /\ Live(i) => Elements(queue)' = Elements(queue) \cup {i}
      /\ ~Live(i) => queue' = queue /\ Elements(queue)' = Elements(queue)
  BY AppendElements DEF Send, TypeOK
<1>5. suspensions \subseteq Ids /\ Elements(queue) \subseteq Ids /\ Elements(ready) \subseteq Ids
  BY KnownIds
<1>6. LoopNumbers' /\ ReadyInHandler' /\ SentIsOver'
  BY <1>1, <1>2 DEF LoopNumbers, ReadyInHandler, SentIsOver, Sent
<1>7. NothingLeft'
  BY <1>1, <1>2, <1>4 DEF NothingLeft, LoopNumbers, Live
<1>8. OfThisLoop' /\ SentIsQueued'
  BY <1>1, <1>2, <1>3, <1>4, <1>5 DEF OfThisLoop, SentIsQueued, Sent
<1>9. SuspendedIsKnown' /\ OneRuns'
  BY <1>2, <1>3 DEF SuspendedIsKnown, Live, OneRuns, Runs
<1>10. NotifiedIsFlagged' /\ FlagIsBacked'
  BY <1>1, <1>2, <1>3, <1>4, <1>5 DEF NotifiedIsFlagged, FlagIsBacked, AboutToWrite
<1> QED
  BY <1>6, <1>7, <1>8, <1>9, <1>10

\* Notifier::notify() raises the flag, and writes if it wasn't up.
LEMMA NotifyKeepsWakeup ==
    ASSUME TypeOK, WakeupInv, NEW i \in Ids, NotifySwap(i) \/ NotifyWrite(i) PROVE WakeupInv'
<1> USE DEF WakeupInv
<1>1. /\ \A j \in Ids : j # i => task'[j] = task[j]
      /\ task[i] \in {"notify", "write"} /\ task'[i] \in {"write", "drop"}
      /\ task[i] = "write" => task'[i] = "drop"
  BY DEF NotifySwap, NotifyWrite, TaskStep, TypeOK
<1>2. UNCHANGED <<loop, created, suspensions, queue, call, slot, ready, fiber, current, php>>
  BY DEF NotifySwap, NotifyWrite, loopVars, fiberVars, phpVars
<1>3. /\ Elements(ready)' = Elements(ready) /\ Elements(queue)' = Elements(queue)
      /\ \A j \in Ids : Live(j)' <=> Live(j)
  BY <1>2 DEF Elements, Live
<1>4. suspensions \subseteq Ids /\ Elements(queue) \subseteq Ids /\ Elements(ready) \subseteq Ids
  BY KnownIds
<1>5. \A j \in Ids : Sent(j)' <=> Sent(j)
  BY <1>1 DEF Sent
<1>6. /\ Live(i) /\ task[i] = "notify" => pending' = 1
      /\ ~Live(i) \/ task[i] = "write" => pending' = pending
      /\ pending = 1 => pending' = 1
  BY DEF NotifySwap, NotifyWrite, TaskStep, TypeOK
<1>7. LoopNumbers' /\ ReadyInHandler' /\ SentIsOver'
  BY <1>1, <1>2, <1>5 DEF LoopNumbers, ReadyInHandler, SentIsOver, Sent
<1>8. NothingLeft'
  BY <1>1, <1>2, <1>6 DEF NothingLeft, LoopNumbers, Live
<1>9. OfThisLoop' /\ SentIsQueued'
  BY <1>2, <1>3, <1>4, <1>5 DEF OfThisLoop, SentIsQueued
<1>10. SuspendedIsKnown' /\ OneRuns'
  BY <1>2, <1>3 DEF SuspendedIsKnown, Live, OneRuns, Runs
<1>11. NotifiedIsFlagged'
  BY <1>1, <1>2, <1>3, <1>4, <1>6 DEF NotifiedIsFlagged, OfThisLoop
<1>12. FlagIsBacked'
  <2>1. CASE task[i] = "notify"
    <3>1. socket' = socket /\ (Live(i) /\ pending = 0 => task'[i] = "write")
      BY <2>1, <1>1 DEF NotifySwap, NotifyWrite, TaskStep, TypeOK
    <3>2. AboutToWrite => AboutToWrite'
      BY <1>1, <1>3, <2>1 DEF AboutToWrite
    <3>3. Live(i) /\ pending = 0 => AboutToWrite'
      BY <1>3, <3>1 DEF AboutToWrite
    <3> QED
      BY <1>2, <1>6, <2>1, <3>1, <3>2, <3>3 DEF FlagIsBacked, TypeOK
  <2>2. CASE task[i] = "write"
    <3>1. socket' = IF Live(i) THEN socket + 1 ELSE socket
      BY <2>2 DEF NotifySwap, NotifyWrite, TaskStep
    <3>2. AboutToWrite => AboutToWrite' \/ Live(i)
      BY <1>1, <1>3 DEF AboutToWrite
    <3> QED
      BY <1>2, <1>6, <2>2, <3>1, <3>2 DEF FlagIsBacked, TypeOK
  <2> QED
    BY <1>1, <2>1, <2>2
<1> QED
  BY <1>7, <1>8, <1>9, <1>10, <1>11, <1>12

\* spawn() registers the caller of a future that isn't over.
LEMMA SpawnKeepsWakeup ==
    ASSUME TypeOK, BorrowInv, WakeupInv, NEW f \in Fibers, NEW kind \in Kinds, Spawn(f, kind)
    PROVE  WakeupInv'
<1> USE DEF WakeupInv
<1>1. nextId \in Ids /\ task[nextId] = "none" /\ ready = <<>>
  BY BoundsAssumption DEF Spawn, TypeOK, Ids, BorrowInv, FreshIds, ReadyInHandler
<1>2. /\ call'[nextId].loop = loop /\ slot'[nextId] = "Running" /\ task'[nextId] = "poll"
      /\ \A j \in Ids : j # nextId => call'[j] = call[j] /\ slot'[j] = slot[j] /\ task'[j] = task[j]
      /\ suspensions' = suspensions \cup {nextId} /\ php' = "call" /\ php = "idle"
      /\ loop # 0
  BY <1>1 DEF Spawn, TypeOK
<1>3. UNCHANGED <<loop, created, queue, pending, socket, ready>>
  BY DEF Spawn, loopVars, notifyVars
<1>4. Elements(queue)' = Elements(queue) /\ Elements(ready)' = {} /\ Elements(ready) = {}
  BY <1>1, <1>3, NoElements DEF Elements
<1>5. suspensions \subseteq Ids /\ Elements(queue) \subseteq Ids
  BY KnownIds
<1>6. nextId \notin Elements(queue)
  BY <1>1 DEF OfThisLoop, Sent
<1>7. LoopNumbers' /\ NothingLeft' /\ ReadyInHandler'
  BY <1>1, <1>2, <1>3 DEF LoopNumbers, NothingLeft, ReadyInHandler
<1>8. OfThisLoop'
  BY <1>1, <1>2, <1>3, <1>4, <1>5, <1>6 DEF OfThisLoop, Live, Sent
<1>9. SentIsQueued' /\ SentIsOver'
  BY <1>1, <1>2, <1>4, <1>5 DEF SentIsQueued, SentIsOver, Sent
<1>10. SuspendedIsKnown'
  <2> SUFFICES ASSUME NEW h \in Fibers, fiber'[h] \in {"spawned", "suspended"}, current'[h] # 0,
                      Live(current[h])', h # f
               PROVE  current'[h] \in suspensions'
    BY <1>1, <1>2 DEF SuspendedIsKnown, Spawn, TypeOK
  <2>1. current'[h] = current[h] /\ fiber'[h] = fiber[h]
    BY DEF Spawn, TypeOK
  <2>2. current[h] \in Ids /\ current[h] # nextId
    BY <1>1, <2>1, FrameIsCall DEF TypeOK
  <2>3. Live(current[h])
    BY <1>2, <1>3, <2>1, <2>2 DEF Live
  <2> QED
    BY <1>2, <1>4, <2>1, <2>3 DEF SuspendedIsKnown
<1>11. NotifiedIsFlagged'
  BY <1>2, <1>3, <1>4, <1>5, <1>6 DEF NotifiedIsFlagged
<1>12. FlagIsBacked'
  BY <1>1, <1>2, <1>3 DEF FlagIsBacked, AboutToWrite, Live
<1>13. OneRuns'
  BY DEF OneRuns, Runs, Spawn, TypeOK
<1> QED
  BY <1>7, <1>8, <1>9, <1>10, <1>11, <1>12, <1>13

\* A caller that ends its suspension unregisters itself, and nobody else.
LEMMA InterruptedKeepsWakeup ==
    ASSUME TypeOK, BorrowInv, WakeupInv, NEW f \in Fibers, NEW waiting \in {"wait", "unwind"},
           NEW then \in {"user", "done"}, current[f] # 0, php = "idle" \/ Runs(f),
           Interrupted(f, waiting, then)
    PROVE  WakeupInv'
<1> USE DEF WakeupInv
<1>1. /\ UNCHANGED <<loop, created, queue, pending, socket, call, slot, task, ready>>
      /\ suspensions' = suspensions \ {current[f]}
      /\ php \in {"idle", "call"} /\ php' \in {"idle", "call"}
      /\ fiber'[f] \notin {"spawned", "suspended"}
      /\ \A h \in Fibers : h # f => fiber'[h] = fiber[h] /\ current'[h] = current[h]
  BY DEF Interrupted, Unregister, TypeOK, OneRuns, loopVars, notifyVars, taskVars
<1>2. LoopNumbers' /\ NothingLeft' /\ ReadyInHandler' /\ OfThisLoop'
  BY <1>1 DEF LoopNumbers, NothingLeft, ReadyInHandler, OfThisLoop, Live, Sent, Elements
<1>3. SentIsOver' /\ SentIsQueued' /\ NotifiedIsFlagged' /\ FlagIsBacked'
  BY <1>1 DEF SentIsOver, SentIsQueued, NotifiedIsFlagged, FlagIsBacked, AboutToWrite, Live, Sent, Elements
<1>4. SuspendedIsKnown'
  BY <1>1, FramesDiffer DEF SuspendedIsKnown, Live, Elements
<1>5. OneRuns'
  BY <1>1 DEF OneRuns, Runs, Interrupted, TypeOK
<1> QED
  BY <1>2, <1>3, <1>4, <1>5

\* wakeup() and drain() take a completion: its caller, if it is registered, is kept
\* to be resumed.
LEMMA TakeKeepsWakeup ==
    ASSUME TypeOK, WakeupInv, Take, php \in {"recv", "collect"}, php' = php PROVE WakeupInv'
<1> USE DEF WakeupInv
<1>1. UNCHANGED <<loop, created, pending, socket, call, slot, task, fiber, current>>
  BY DEF Take, loopVars, notifyVars, taskVars, fiberVars
<1>2. /\ Elements(queue) = Elements(queue)' \cup {Head(queue)}
      /\ Head(queue) \in Ids /\ queue # <<>>
  BY TailElements DEF Take, TypeOK
<1>3. /\ suspensions' = suspensions \ {Head(queue)}
      /\ Elements(ready)' = IF Head(queue) \in suspensions THEN Elements(ready) \cup {Head(queue)}
                            ELSE Elements(ready)
  <2>1. CASE Head(queue) \in suspensions
    BY <1>2, <2>1, AppendElements DEF Take, TypeOK
  <2>2. CASE Head(queue) \notin suspensions
    BY <2>2 DEF Take
  <2> QED
    BY <2>1, <2>2 DEF Take
<1>4. LoopNumbers' /\ ReadyInHandler' /\ SentIsOver' /\ FlagIsBacked'
  BY <1>1 DEF LoopNumbers, ReadyInHandler, SentIsOver, FlagIsBacked, AboutToWrite, Live, Sent
<1>5. NothingLeft'
  BY <1>1, <1>2 DEF NothingLeft
<1>6. OfThisLoop' /\ SentIsQueued'
  BY <1>1, <1>2, <1>3 DEF OfThisLoop, SentIsQueued, Live, Sent
<1>7. SuspendedIsKnown' /\ OneRuns'
  BY <1>1, <1>2, <1>3 DEF SuspendedIsKnown, Live, OneRuns, Runs
<1>8. NotifiedIsFlagged'
  BY <1>1, <1>2 DEF NotifiedIsFlagged
<1> QED
  BY <1>4, <1>5, <1>6, <1>7, <1>8

\* wakeup() empties the socket, then clears the flag, and only then collects.
LEMMA RearmKeepsWakeup ==
    ASSUME WakeupInv, ReadSocket \/ Rearm PROVE WakeupInv'
<1> USE DEF WakeupInv, Handle
<1>1. UNCHANGED <<loop, created, suspensions, queue, call, slot, task, ready, fiber, current>>
  BY DEF ReadSocket, Rearm, loopVars, taskVars, fiberVars
<1>2. LoopNumbers' /\ NothingLeft' /\ ReadyInHandler' /\ OfThisLoop'
  BY <1>1 DEF ReadSocket, Rearm, LoopNumbers, NothingLeft, ReadyInHandler, OfThisLoop, Live, Sent, Elements
<1>3. SentIsOver' /\ SentIsQueued' /\ SuspendedIsKnown' /\ OneRuns'
  BY <1>1 DEF ReadSocket, Rearm, SentIsOver, SentIsQueued, SuspendedIsKnown, OneRuns, Runs, Live, Sent, Elements
<1>4. NotifiedIsFlagged' /\ FlagIsBacked'
  BY <1>1 DEF ReadSocket, Rearm, NotifiedIsFlagged, FlagIsBacked, Elements
<1> QED
  BY <1>2, <1>3, <1>4

\* resume(), of an empty channel, resumes the callers that were taken.
LEMMA ResumeKeepsWakeup ==
    ASSUME TypeOK, BorrowInv, WakeupInv, Resume PROVE WakeupInv'
<1> USE DEF WakeupInv
<1>1. UNCHANGED <<loop, created, suspensions, pending, socket, call, slot, task, current>>
  BY DEF Resume, loopVars, notifyVars, taskVars
<1>2. /\ php = "collect" /\ php' = "idle" /\ ready' = <<>> /\ queue = <<>> /\ queue' = <<>>
      /\ Elements(queue)' = {} /\ Elements(ready)' = {}
  BY NoElements DEF Resume, Handle
<1>3. LoopNumbers' /\ NothingLeft' /\ ReadyInHandler' /\ OfThisLoop'
  BY <1>1, <1>2 DEF LoopNumbers, NothingLeft, ReadyInHandler, OfThisLoop, Live, Sent
<1>4. SentIsOver' /\ SentIsQueued' /\ NotifiedIsFlagged' /\ FlagIsBacked'
  BY <1>1, <1>2, NoElements DEF SentIsOver, SentIsQueued, NotifiedIsFlagged, FlagIsBacked, AboutToWrite, Live, Sent
<1>5. SuspendedIsKnown'
  <2> SUFFICES ASSUME NEW f \in Fibers, fiber'[f] \in {"spawned", "suspended"},
                      current[f] # 0, Live(current[f])
               PROVE  current[f] \in suspensions
    BY <1>1 DEF SuspendedIsKnown, Live
  <2>1. fiber[f] = "suspended" /\ ~Resumes(f)
    BY <1>2 DEF Resume, TypeOK, OneRuns, Runs
  <2>2. call[current[f]].fiber = f
    BY DEF BorrowInv, FrameOfFiber
  <2> QED
    BY <2>1, <2>2 DEF Resumes, SuspendedIsKnown
<1>6. OneRuns'
  BY <1>2 DEF OneRuns, Runs, Resume, TypeOK
<1> QED
  BY <1>3, <1>4, <1>5, <1>6

\* An event loop that goes leaves nothing behind, and one that comes finds nothing.
LEMMA NewLoopKeepsWakeup ==
    ASSUME TypeOK, BorrowInv, AnswerInv, WakeupInv, php = "idle",
           UNCHANGED <<call, slot, task, fiber, current, ready>>,
           suspensions' = {}, queue' = <<>>, pending' = 0, php' \in {"idle", "borrowing"},
           \/ loop' = 0 /\ created' = created
           \/ loop' = created + 1 /\ created' = created + 1
    PROVE  WakeupInv'
<1> USE DEF WakeupInv
<1>1. Elements(queue)' = {} /\ Elements(ready)' = {} /\ ready' = <<>>
  BY NoElements DEF ReadyInHandler
<1>2. \A i \in Ids : call[i].loop \in Nat
  BY DEF TypeOK, CallType, NoCall, Loops
<1>3. NothingLeft' /\ ReadyInHandler' /\ OfThisLoop' /\ SentIsOver' /\ SentIsQueued'
  BY <1>1 DEF NothingLeft, ReadyInHandler, OfThisLoop, SentIsOver, SentIsQueued, Sent
<1>4. LoopNumbers'
  BY <1>2, BoundsAssumption DEF LoopNumbers, TypeOK
<1>5. NotifiedIsFlagged' /\ FlagIsBacked'
  BY <1>1 DEF NotifiedIsFlagged, FlagIsBacked
<1>6. OneRuns'
  BY DEF OneRuns, Runs
<1>7. SuspendedIsKnown'
  <2> SUFFICES ASSUME NEW f \in Fibers, current[f] # 0 PROVE call[current[f]].loop # loop'
    BY DEF SuspendedIsKnown, Live
  <2>1. current[f] \in Ids /\ current[f] < nextId
    BY FrameIsCall
  <2>2. call[current[f]].loop # 0
    BY <2>1 DEF AnswerInv, FrameUnanswered, TypeOK, CallType, NoCall, Loops
  <2> QED
    BY <1>2, <2>1, <2>2 DEF LoopNumbers, TypeOK
<1> QED
  BY <1>3, <1>4, <1>5, <1>6, <1>7

\* WakeupInv is inductive, whatever PHP code does, the callers it resumes itself included.
LEMMA WakeupInvariant == Spec => []WakeupInv
<1> USE DEF loopVars, notifyVars, taskVars, fiberVars, phpVars
<1>1. Init => WakeupInv
  BY NoElements DEF Init, WakeupInv, LoopNumbers, NothingLeft, ReadyInHandler, OfThisLoop, SentIsOver, OneRuns,
     Runs, SuspendedIsKnown, SentIsQueued, NotifiedIsFlagged, FlagIsBacked, Sent, NoCall
<1>2. TypeOK /\ BorrowInv /\ AnswerInv /\ WakeupInv /\ [Next]_vars => WakeupInv'
  <2> SUFFICES ASSUME TypeOK, BorrowInv, AnswerInv, WakeupInv, [Next]_vars PROVE WakeupInv'
    OBVIOUS
  <2>1. ASSUME NEW from \in Runtimes, NEW opened \in {"open", "none"}, Initialize(from, opened)
        PROVE  WakeupInv'
    <3>1. CASE Create(from)
      BY <2>1, <3>1, NewLoopKeepsWakeup DEF Initialize, Create
    <3>2. CASE Keep
      <4>1. OneRuns'
        BY <2>1 DEF Initialize, WakeupInv, OneRuns, Runs
      <4> QED
        BY <2>1, <3>2, <4>1, WakeupKept DEF Initialize, Keep, wakeupVars
    <3> QED
      BY <2>1, <3>1, <3>2 DEF Initialize
  <2>2. CASE CloseStream
    BY <2>2, WakeupKept DEF CloseStream, wakeupVars, WakeupInv, OneRuns, Runs
  <2>3. ASSUME NEW i \in Ids, FutureCompletes(i) \/ FuturePanics(i) PROVE WakeupInv'
    BY <2>3, TaskKeepsWakeup DEF FutureCompletes, FuturePanics, FutureEnds, TaskStates
  <2>4. ASSUME NEW i \in Ids, Set(i) PROVE WakeupInv'
    BY <2>4, TaskKeepsWakeup DEF Set, SlotStep, TaskStates, TypeOK
  <2>5. ASSUME NEW i \in Ids, Finish(i) PROVE WakeupInv'
    BY <2>5, TaskKeepsWakeup DEF Finish, SlotStep, TaskStates, TypeOK
  <2>6. ASSUME NEW i \in Ids, Send(i) PROVE WakeupInv'
    BY <2>6, SendKeepsWakeup
  <2>7. ASSUME NEW i \in Ids, NotifySwap(i) \/ NotifyWrite(i) PROVE WakeupInv'
    BY <2>7, NotifyKeepsWakeup
  <2>8. ASSUME NEW i \in Ids, TaskDrop(i) PROVE WakeupInv'
    <3>1. slot[i] # "Running"
      BY <2>8 DEF TaskDrop, TaskStep, WakeupInv, SentIsOver, Sent
    <3> QED
      BY <2>8, <3>1, TaskKeepsWakeup DEF TaskDrop, TaskStates
  <2>9. ASSUME NEW f \in Fibers, NEW kind \in Kinds, Spawn(f, kind) PROVE WakeupInv'
    BY <2>9, SpawnKeepsWakeup
  <2>10. ASSUME NEW f \in Fibers, Suspend(f) PROVE WakeupInv'
    <3>1. OneRuns'
      BY <2>10 DEF Suspend, WakeupInv, OneRuns, Runs, TypeOK
    <3> QED
      BY <2>10, <3>1, WakeupKept DEF Suspend, wakeupVars, TypeOK
  <2>11. ASSUME NEW f \in Fibers, SuspendFails(f) PROVE WakeupInv'
    BY <2>11, InterruptedKeepsWakeup DEF SuspendFails, Runs, AnswerInv, HasFrame
  <2>12. ASSUME NEW f \in Fibers, RunThrown(f) \/ Exit(f) PROVE WakeupInv'
    BY <2>12, InterruptedKeepsWakeup DEF RunThrown, Exit
  <2>13. ASSUME NEW f \in Fibers, RunResumed(f) PROVE WakeupInv'
    <3>1. OneRuns'
      BY <2>13 DEF RunResumed, WakeupInv, OneRuns, Runs, TypeOK
    <3> QED
      BY <2>13, <3>1, WakeupKept DEF RunResumed, wakeupVars, TypeOK
  <2>14. ASSUME NEW f \in Fibers, Return(f) PROVE WakeupInv'
    <3>1. OneRuns'
      BY <2>14 DEF Return, WakeupInv, OneRuns, Runs, TypeOK
    <3> QED
      BY <2>14, <3>1, WakeupKept DEF Return, wakeupVars, TypeOK
  <2>15. ASSUME NEW f \in Fibers, RevoltStep(f) PROVE WakeupInv'
    <3>1. PICK from, to : PhpCode(f, from, to) /\ to \notin {"spawned", "wait", "unwind"}
                          /\ (to = "suspended" => from = {"user"})
      BY <2>15 DEF RevoltStep, Throw, SuspendElsewhere, ResumeElsewhere, RunElsewhere, ResumeByOther
    <3>2. OneRuns'
      BY <3>1 DEF PhpCode, WakeupInv, OneRuns, Runs, TypeOK
    <3> QED
      BY <3>1, <3>2, WakeupKept DEF PhpCode, wakeupVars, TypeOK, BorrowInv, NoFrame
  <2>16. CASE Wakeup \/ DrainCall \/ RecvStops
    <3>1. OneRuns'
      BY <2>16 DEF Wakeup, DrainCall, RecvStops, Handle, WakeupInv, OneRuns, Runs
    <3>2. ready' = ready
      BY <2>16 DEF Wakeup, DrainCall, RecvStops, Handle, WakeupInv, ReadyInHandler
    <3> QED
      BY <2>16, <3>1, <3>2, WakeupKept DEF Wakeup, DrainCall, RecvStops, Handle, wakeupVars
  <2>17. CASE Recv \/ Collect
    BY <2>17, TakeKeepsWakeup DEF Recv, Collect, Handle
  <2>18. CASE ReadSocket \/ Rearm
    BY <2>18, RearmKeepsWakeup
  <2>19. CASE Resume
    BY <2>19, ResumeKeepsWakeup
  <2>20. CASE Shutdown \/ RequestEnd
    BY <2>20, NewLoopKeepsWakeup DEF Shutdown, RequestEnd, TakeLoop, Handle
  <2>21. CASE RequestEndAlready \/ WaitBorrowing \/ Release
    <3>1. OneRuns'
      BY <2>21 DEF RequestEndAlready, WaitBorrowing, Release, Handle, WakeupInv, OneRuns, Runs
    <3> QED
      BY <2>21, <3>1, WakeupKept DEF RequestEndAlready, WaitBorrowing, Release, Handle, wakeupVars
  <2>22. CASE Free
    BY <2>22, WakeupKept DEF Free, Handle, wakeupVars, OneRuns, Runs
  <2>23. CASE UNCHANGED vars
    BY <2>23 DEF vars, WakeupInv, LoopNumbers, NothingLeft, ReadyInHandler, OfThisLoop, SentIsOver, OneRuns, Runs,
       SuspendedIsKnown, SentIsQueued, NotifiedIsFlagged, FlagIsBacked, AboutToWrite, Live, Sent, Elements
  <2> QED
    BY <2>1, <2>2, <2>3, <2>4, <2>5, <2>6, <2>7, <2>8, <2>9, <2>10, <2>11, <2>12, <2>13, <2>14, <2>15,
       <2>16, <2>17, <2>18, <2>19, <2>20, <2>21, <2>22, <2>23
    DEF Next, TokioStep, CallerStep, HandlerStep, ShutdownStep
<1> QED
  BY <1>1, <1>2, TypeCorrect, BorrowInvariant, AnswerInvariant, PTL DEF Spec

\* A suspended caller whose future is over and has notified isn't stranded, for any
\* number of fibers, calls and event loops and whatever PHP code does: wakeup(),
\* called when the socket is readable, finds its ID and resumes it (event_loop.rs:480-487,
\* 512-520).
THEOREM CallersAreNotStranded == Spec => []NoStrandedCaller
<1>1. TypeOK /\ WakeupInv => NoStrandedCaller
  <2> SUFFICES ASSUME TypeOK, WakeupInv, php = "idle", NEW f \in Fibers, fiber[f] = "suspended",
                      current[f] # 0, Live(current[f]), task[current[f]] \in {"drop", "gone"}
               PROVE  /\ current[f] \in suspensions /\ current[f] \in Elements(queue)
                      /\ socket > 0 \/ AboutToWrite
    BY DEF NoStrandedCaller
  <2>1. current[f] \in suspensions
    BY NoElements DEF WakeupInv, SuspendedIsKnown, ReadyInHandler
  <2>2. current[f] \in Elements(queue)
    BY <2>1 DEF WakeupInv, SentIsQueued, Sent
  <2>3. pending = 1
    BY <2>2 DEF WakeupInv, NotifiedIsFlagged
  <2> QED
    BY <2>1, <2>2, <2>3 DEF WakeupInv, FlagIsBacked
<1> QED
  BY <1>1, TypeCorrect, WakeupInvariant, PTL

\* wakeup() and drain() resume every caller whose future has sent its ID, for any
\* number of fibers and calls, whoever else resumes callers and whatever becomes of
\* the stream: one that is left suspended is registered still, so that its ID, if it
\* was sent, would be in the channel, which is empty (event_loop.rs:480-487, 500-520).
THEOREM DoneAreResumed == Spec => HandlersResumeTheDone
<1>1. TypeOK /\ BorrowInv /\ WakeupInv /\ [Next]_vars =>
        [Resume => \A f \in Fibers :
            (fiber'[f] = "suspended" /\ current[f] # 0 /\ Live(current[f])) =>
                task[current[f]] \notin {"notify", "write", "drop", "gone"}]_vars
  <2> SUFFICES ASSUME TypeOK, BorrowInv, WakeupInv, Resume, NEW f \in Fibers,
                      fiber'[f] = "suspended", current[f] # 0, Live(current[f])
               PROVE  ~Sent(current[f])
    BY DEF Sent
  <2>1. SuspendedIsKnown'
    BY ResumeKeepsWakeup DEF WakeupInv
  <2>2. current' = current /\ Live(current[f])' /\ suspensions' = suspensions
    BY DEF Resume, Live, loopVars
  <2>3. Elements(ready)' = {} /\ Elements(queue) = {}
    BY NoElements DEF Resume
  <2>4. current[f] \in suspensions
    BY <2>1, <2>2, <2>3 DEF SuspendedIsKnown
  <2> QED
    BY <2>3, <2>4 DEF WakeupInv, SentIsQueued
<1> QED
  BY <1>1, TypeCorrect, BorrowInvariant, WakeupInvariant, PTL DEF Spec, HandlersResumeTheDone

-----------------------------------------------------------------------------
(* Resuming the right callers: RegisteredCallers and ResumesOnlyTheDone.   *)

\* Nobody but php-tokio resumes its callers.
OnlyTokioResumes == "resume" \notin Env

\* The fiber of a registered caller is still in that call, and nobody resumed it;
\* that of a caller to be resumed is still in that call, too.
InSuspend(f) == fiber[f] \in {"spawned", "suspended", "threw"}
OwnerInv ==
    /\ \A i \in suspensions : /\ current[call[i].fiber] = i /\ InSuspend(call[i].fiber)
                              /\ i \notin Elements(ready)
    /\ \A i \in Elements(ready) : current[call[i].fiber] = i

\* The registered callers and those to be resumed are some fiber's.
LEMMA CallersHaveFibers ==
    ASSUME TypeOK, WakeupInv
    PROVE  /\ \A i \in suspensions : i \in Ids /\ call[i].fiber \in Fibers
           /\ \A i \in Elements(ready) : i \in Ids /\ call[i].fiber \in Fibers
<1> USE KnownIds DEF WakeupInv
<1>1. ASSUME NEW i \in suspensions PROVE i \in Ids /\ call[i].loop # 0
  BY DEF OfThisLoop, NothingLeft, Live
<1>2. ASSUME NEW i \in Elements(ready) PROVE i \in Ids /\ call[i].loop # 0
  BY DEF OfThisLoop, Sent, LoopNumbers
<1> QED
  BY <1>1, <1>2, CallMade

\* A step that registers nobody and takes no frame away keeps the registered callers in
\* their calls.
LEMMA OwnersKept ==
    ASSUME TypeOK, WakeupInv, OwnerInv, UNCHANGED <<suspensions, ready, call, current>>,
           \A f \in Fibers : InSuspend(f) /\ current[f] # 0 => InSuspend(f)'
    PROVE  OwnerInv'
<1>1. Elements(ready)' = Elements(ready)
  BY DEF Elements
<1>2. \A i \in suspensions : i # 0
  BY CallersHaveFibers DEF Ids
<1> QED
  BY <1>1, <1>2, CallersHaveFibers DEF OwnerInv

\* An event loop that comes or goes has nobody registered, nor does one at the end of
\* the request.
LEMMA NoOwners ==
    ASSUME suspensions' = {}, ready' = <<>> PROVE OwnerInv'
BY NoElements DEF OwnerInv

\* spawn(): the new caller is in its call.
LEMMA SpawnKeepsOwners ==
    ASSUME TypeOK, BorrowInv, WakeupInv, OwnerInv, NEW f \in Fibers, NEW kind \in Kinds, Spawn(f, kind)
    PROVE  OwnerInv'
<1>1. /\ nextId \in Ids /\ nextId \notin suspensions /\ current[f] = 0
      /\ Elements(ready)' = {}
  BY BoundsAssumption, NoElements DEF Spawn, TypeOK, Ids, BorrowInv, NoFrame, WakeupInv, ReadyInHandler
<1>2. /\ call'[nextId].fiber = f /\ current'[f] = nextId /\ fiber'[f] = "spawned"
      /\ suspensions' = suspensions \cup {nextId}
  BY <1>1 DEF Spawn, TypeOK
<1>3. ASSUME NEW i \in suspensions
      PROVE  call'[i].fiber # f /\ current'[call'[i].fiber] = i /\ InSuspend(call[i].fiber)'
  <2>1. i \in Ids /\ i # 0 /\ call[i].fiber \in Fibers /\ call'[i] = call[i]
    BY <1>1, CallersHaveFibers DEF Spawn, TypeOK, Ids
  <2>2. current[call[i].fiber] = i /\ InSuspend(call[i].fiber)
    BY DEF OwnerInv
  <2>3. call[i].fiber # f
    BY <2>1, <2>2, <1>1
  <2> QED
    BY <2>1, <2>2, <2>3 DEF Spawn, TypeOK, InSuspend
<1> QED
  BY <1>1, <1>2, <1>3 DEF OwnerInv, InSuspend

\* A call that ends, or goes on to wait for its future, isn't registered any more.
LEMMA EndKeepsOwners ==
    ASSUME TypeOK, WakeupInv, OwnerInv, NEW f \in Fibers, ready = <<>>, ready' = ready, call' = call,
           suspensions' = suspensions \ {current[f]} \/ (suspensions' = suspensions /\ ~InSuspend(f)),
           \A h \in Fibers : h # f => current'[h] = current[h] /\ fiber'[h] = fiber[h]
    PROVE  OwnerInv'
<1>1. Elements(ready)' = {}
  BY NoElements
<1>2. ASSUME NEW i \in suspensions'
      PROVE  current'[call[i].fiber] = i /\ InSuspend(call[i].fiber)'
  <2>1. i \in suspensions /\ call[i].fiber \in Fibers
    BY CallersHaveFibers
  <2>2. current[call[i].fiber] = i /\ InSuspend(call[i].fiber)
    BY <2>1 DEF OwnerInv
  <2>3. call[i].fiber # f
    BY <2>2
  <2> QED
    BY <2>1, <2>2, <2>3 DEF InSuspend
<1> QED
  BY <1>1, <1>2 DEF OwnerInv

\* A caller that wakeup() or drain() takes isn't registered any more.
LEMMA TakeKeepsOwners ==
    ASSUME TypeOK, OwnerInv, Take PROVE OwnerInv'
<1>1. UNCHANGED <<call, current, fiber>> /\ suspensions' = suspensions \ {Head(queue)}
  BY DEF Take, fiberVars
<1>2. Elements(ready)' \subseteq Elements(ready) \cup (suspensions \cap {Head(queue)})
  <2>1. CASE Head(queue) \in suspensions
    <3>1. Head(queue) \in Ids /\ ready \in Seq(Ids)
      BY <2>1, KnownIds DEF TypeOK
    <3> QED
      BY <2>1, <3>1, AppendElements DEF Take
  <2>2. CASE Head(queue) \notin suspensions
    BY <2>2 DEF Take
  <2> QED
    BY <2>1, <2>2
<1> QED
  BY <1>1, <1>2 DEF OwnerInv, InSuspend

\* Resuming the callers that were taken resumes no registered one.
LEMMA ResumeKeepsOwners ==
    ASSUME TypeOK, WakeupInv, OwnerInv, Resume PROVE OwnerInv'
<1>1. UNCHANGED <<call, current, suspensions>> /\ Elements(ready)' = {}
  BY NoElements DEF Resume
<1>2. ASSUME NEW i \in suspensions PROVE InSuspend(call[i].fiber)'
  <2>1. call[i].fiber \in Fibers /\ InSuspend(call[i].fiber) /\ current[call[i].fiber] = i
        /\ i \notin Elements(ready)
    BY CallersHaveFibers DEF OwnerInv
  <2>2. ~Resumes(call[i].fiber)
    BY <2>1 DEF Resumes, OwnerInv
  <2>3. fiber'[call[i].fiber] = fiber[call[i].fiber]
    BY <2>1, <2>2 DEF Resume
  <2> QED
    BY <1>1, <2>1, <2>3 DEF InSuspend
<1> QED
  BY <1>1, <1>2 DEF OwnerInv

\* OwnerInv is inductive unless somebody else resumes the callers.
LEMMA OwnerInvariant == ASSUME OnlyTokioResumes PROVE Spec => []OwnerInv
<1> USE DEF loopVars, notifyVars, taskVars, fiberVars, phpVars
<1>1. Init => OwnerInv
  BY NoElements DEF Init, OwnerInv
<1>2. TypeOK /\ BorrowInv /\ WakeupInv /\ OwnerInv /\ [Next]_vars => OwnerInv'
  <2> SUFFICES ASSUME TypeOK, BorrowInv, WakeupInv, OwnerInv, [Next]_vars PROVE OwnerInv'
    OBVIOUS
  <2>1. ASSUME NEW from \in Runtimes, NEW opened \in {"open", "none"}, Initialize(from, opened)
        PROVE  OwnerInv'
    <3>1. CASE Create(from)
      BY <2>1, <3>1, NoOwners DEF Initialize, Create, WakeupInv, ReadyInHandler
    <3>2. CASE Keep
      BY <2>1, <3>2, OwnersKept DEF Initialize, Keep, InSuspend
    <3> QED
      BY <2>1, <3>1, <3>2 DEF Initialize
  <2>2. CASE CloseStream
    BY <2>2, OwnersKept DEF CloseStream, InSuspend
  <2>3. ASSUME NEW i \in Ids, TokioStep(i) PROVE OwnerInv'
    <3>1. UNCHANGED <<suspensions, ready, call, current, fiber>>
      BY <2>3 DEF TokioStep, FutureCompletes, FuturePanics, FutureEnds, Set, Finish, SlotStep, Send,
                  NotifySwap, NotifyWrite, TaskDrop
    <3> QED
      BY <3>1, OwnersKept DEF InSuspend
  <2>4. ASSUME NEW f \in Fibers, NEW kind \in Kinds, Spawn(f, kind) PROVE OwnerInv'
    BY <2>4, SpawnKeepsOwners
  <2>5. ASSUME NEW f \in Fibers, Suspend(f) PROVE OwnerInv'
    BY <2>5, OwnersKept DEF Suspend, InSuspend, TypeOK
  <2>6. ASSUME NEW f \in Fibers, SuspendFails(f) \/ RunThrown(f) \/ Exit(f) PROVE OwnerInv'
    <3>1. PICK waiting, then : Interrupted(f, waiting, then)
      BY <2>6 DEF SuspendFails, RunThrown, Exit
    <3>2. ready = <<>>
      BY <2>6 DEF SuspendFails, RunThrown, Exit, WakeupInv, ReadyInHandler
    <3> QED
      BY <3>1, <3>2, EndKeepsOwners DEF Interrupted, Unregister, TypeOK
  <2>7. ASSUME NEW f \in Fibers, RunResumed(f) PROVE OwnerInv'
    BY <2>7, OwnersKept DEF RunResumed, InSuspend, TypeOK
  <2>8. ASSUME NEW f \in Fibers, Return(f) PROVE OwnerInv'
    BY <2>8, EndKeepsOwners DEF Return, InSuspend, TypeOK, WakeupInv, ReadyInHandler
  <2>9. ASSUME NEW f \in Fibers, RevoltStep(f) PROVE OwnerInv'
    <3>1. ~ResumeByOther(f)
      BY DEF OnlyTokioResumes, ResumeByOther
    <3>2. PICK from, to : PhpCode(f, from, to) /\ (to \in {"suspended", "threw"} \/ current[f] = 0)
      BY <2>9, <3>1 DEF RevoltStep, Throw, SuspendElsewhere, ResumeElsewhere, RunElsewhere
    <3> QED
      BY <3>2, OwnersKept DEF PhpCode, InSuspend, TypeOK
  <2>10. CASE Wakeup \/ DrainCall
    BY <2>10, OwnersKept DEF Wakeup, DrainCall, Handle, InSuspend, WakeupInv, ReadyInHandler
  <2>11. CASE RecvStops \/ ReadSocket \/ Rearm
    BY <2>11, OwnersKept DEF RecvStops, ReadSocket, Rearm, InSuspend
  <2>12. CASE Recv \/ Collect
    BY <2>12, TakeKeepsOwners DEF Recv, Collect
  <2>13. CASE Resume
    BY <2>13, ResumeKeepsOwners
  <2>14. CASE Shutdown \/ RequestEnd
    BY <2>14, NoOwners DEF Shutdown, RequestEnd, TakeLoop, Handle, WakeupInv, ReadyInHandler
  <2>15. CASE RequestEndAlready \/ WaitBorrowing \/ Release
    BY <2>15, OwnersKept DEF RequestEndAlready, WaitBorrowing, Release, InSuspend
  <2>16. CASE Free
    BY <2>16, NoOwners DEF Free, Handle, BorrowInv, LoopTaken, WakeupInv, NothingLeft, ReadyInHandler
  <2>17. CASE UNCHANGED vars
    BY <2>17, OwnersKept DEF vars, InSuspend
  <2> QED
    BY <2>1, <2>2, <2>3, <2>4, <2>5, <2>6, <2>7, <2>8, <2>9, <2>10, <2>11, <2>12, <2>13, <2>14, <2>15,
       <2>16, <2>17
    DEF Next, CallerStep, HandlerStep, ShutdownStep
<1> QED
  BY <1>1, <1>2, TypeCorrect, BorrowInvariant, WakeupInvariant, PTL DEF Spec

\* wakeup() and drain() resume a caller only once the future of the call it is in is
\* over, so that Slot::wait() doesn't block the PHP thread (event_loop.rs:378, 398):
\* an ID that was collected is that of the call the fiber is in, and its task has
\* filled the slot.  It takes that nobody else resumes the callers: then a fiber may
\* be in another call already, as the run of the stale resumption shows.
THEOREM ResumedIsDone == ASSUME OnlyTokioResumes PROVE Spec => ResumesOnlyTheDone
<1>1. TypeOK /\ WakeupInv /\ OwnerInv /\ [Next]_vars =>
        [Resume => \A f \in Fibers :
            fiber'[f] # fiber[f] => (current[f] # 0 /\ slot[current[f]] # "Running")]_vars
  <2> SUFFICES ASSUME TypeOK, WakeupInv, OwnerInv, Resume, NEW f \in Fibers, fiber'[f] # fiber[f]
               PROVE  current[f] # 0 /\ slot[current[f]] # "Running"
    OBVIOUS
  <2>1. PICK i \in Elements(ready) : call[i].fiber = f
    BY DEF Resume, Resumes
  <2>2. current[f] = i /\ i \in Ids
    BY <2>1, CallersHaveFibers DEF OwnerInv
  <2>3. slot[i] # "Running"
    BY <2>1, <2>2 DEF WakeupInv, OfThisLoop, SentIsOver
  <2> QED
    BY <2>2, <2>3 DEF Ids
<1> QED
  BY <1>1, TypeCorrect, WakeupInvariant, OwnerInvariant, PTL DEF Spec, ResumesOnlyTheDone

\* pending() counts each waiting caller once: different registered calls are in
\* different fibers.
LEMMA PendingCountsFibers ==
    ASSUME TypeOK, BorrowInv, WakeupInv, OwnerInv, loop # 0
    PROVE  Pending <= Cardinality({f \in Fibers : Waiting(f)})
<1> DEFINE waiting == {f \in Fibers : Waiting(f)}
           fiberOf == [i \in suspensions |-> call[i].fiber]
           callOf == [f \in waiting |-> current[f]]
<1>1. callOf \in Injection(waiting, Ids)
  <2>1. \A f \in waiting : current[f] \in Ids
    BY FrameIsCall DEF Waiting
  <2>2. \A f, h \in waiting : current[f] = current[h] => f = h
    BY FramesDiffer DEF Waiting
  <2> QED
    BY <2>1, <2>2, Fun_IsInj
<1>2. IsFiniteSet(waiting)
  BY <1>1, FS_Injection, FS_Interval, BoundsAssumption DEF Ids
<1>3. fiberOf \in Injection(suspensions, waiting)
  <2>1. ASSUME NEW i \in suspensions PROVE call[i].fiber \in waiting /\ current[call[i].fiber] = i
    BY CallersHaveFibers DEF OwnerInv, InSuspend, Waiting, WakeupInv, OfThisLoop, Live, Ids
  <2> QED
    BY <2>1, Fun_IsInj
<1> QED
  BY <1>2, <1>3, FS_Injection DEF Pending

\* pending() (event_loop.rs:445-465) is right when PHP code calls it: the callers of the
\* current event loop that nobody resumed yet are registered, those that are registered
\* wait in their call, and none is counted twice.  It takes that nobody else resumes the
\* callers.
THEOREM RegisteredAreCallers == ASSUME OnlyTokioResumes PROVE Spec => []RegisteredCallers
<1>1. TypeOK /\ BorrowInv /\ WakeupInv /\ OwnerInv => RegisteredCallers
  <2> SUFFICES ASSUME TypeOK, BorrowInv, WakeupInv, OwnerInv, php \in {"idle", "call"}, loop # 0
               PROVE  RegisteredCallers
    BY DEF RegisteredCallers
  <2>1. ASSUME NEW f \in Fibers, Waiting(f), fiber[f] # "threw" PROVE current[f] \in suspensions
    BY <2>1, NoElements DEF Waiting, WakeupInv, SuspendedIsKnown, ReadyInHandler, Live
  <2>2. ASSUME NEW i \in suspensions PROVE \E f \in Fibers : current[f] = i /\ Waiting(f)
    BY CallersHaveFibers DEF OwnerInv, InSuspend, Waiting, WakeupInv, OfThisLoop, Live, Ids
  <2> QED
    BY <2>1, <2>2, PendingCountsFibers DEF RegisteredCallers
<1> QED
  BY <1>1, TypeCorrect, BorrowInvariant, WakeupInvariant, OwnerInvariant, PTL

=============================================================================
