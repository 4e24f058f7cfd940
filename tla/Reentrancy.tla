------------------------------ MODULE Reentrancy ------------------------------
(***************************************************************************)
(* EVENTLOOP, a RefCell that lives as long as its thread                   *)
(* (src/event_loop.rs), the requests of that thread, and the PHP code that *)
(* php-tokio calls in the middle of its operations: it can call php-tokio  *)
(* again, suspend its fiber, or end with a fatal error.  A borrow while    *)
(* another one lasts is a panic.  A fatal error jumps out of every frame   *)
(* without unwinding it, and the request ends.                             *)
(*                                                                         *)
(* Of the PHP code that runs under the borrow, autoloading Revolt and      *)
(* EventLoop::getSuspension(), it is assumed that it calls nothing of      *)
(* php-tokio.                                                              *)
(***************************************************************************)
EXTENDS Naturals, Sequences

CONSTANTS MaxDepth,     \* bound: calls into PHP within each other
          MaxCallers,   \* bound: callers suspended at a time
          MaxRequests,  \* bound: requests of the thread
          Fatal         \* the calls into PHP that a fatal error may end

\* The calls into PHP, and those that are made under the borrow.
Borrowed == {"autoload", "getSuspension"}
Outcalls == Borrowed \cup {"resume", "drop"}

ASSUME ReentrancyAssumption ==
    /\ MaxDepth \in Nat /\ MaxCallers \in Nat /\ MaxRequests \in Nat
    /\ Fatal \subseteq Outcalls

VARIABLES
    borrow,       \* the RefCell's flag
    loop,         \* what is in it
    stack,        \* the calls into PHP, the innermost last
    callers,      \* how many callers are suspended
    request,      \* "runs", "ends" (but for its resources) or "over"
    requests,     \* how many there were
    REQUEST_END,  \* the type of the resources, of the process
    resource,     \* the request's resource that shuts the event loop down
    panicked      \* did a borrow fail?

vars == <<borrow, loop, stack, callers, request, requests, REQUEST_END, resource, panicked>>
requestVars == <<request, requests, REQUEST_END, resource>>

TypeOK ==
    /\ borrow \in {"free", "mut"} /\ loop \in {"None", "Some"}
    /\ stack \in Seq(Outcalls) /\ Len(stack) <= MaxDepth
    /\ callers \in 0..MaxCallers
    /\ request \in {"runs", "ends", "over"} /\ requests \in 0..MaxRequests
    /\ REQUEST_END \in {"unset", "set"} /\ resource \in {"none", "there"}
    /\ panicked \in {"no", "yes"}

Init ==
    /\ borrow = "free" /\ loop = "None" /\ stack = <<>> /\ callers = 0
    /\ request = "runs" /\ requests = 0
    /\ REQUEST_END = "unset" /\ resource = "none" /\ panicked = "no"

In(outcall) == stack # <<>> /\ stack[Len(stack)] = outcall
Push(outcall) == Len(stack) < MaxDepth /\ stack' = Append(stack, outcall)
Pop == SubSeq(stack, 1, Len(stack) - 1)

\* PHP code that may call php-tokio: {main}'s, a fiber's, a destructor's.  What runs
\* under the borrow is assumed not to: neither getSuspension() and the autoloader,
\* nor a destructor that the garbage collector calls meanwhile.
PhpCode == panicked = "no" /\ request = "runs" /\ \A outcall \in Borrowed : ~In(outcall)

\* RefCell::borrow_mut() or borrow(): panics if it is borrowed.
Borrow == panicked' = IF borrow = "mut" THEN "yes" ELSE panicked

\* initialize(): new() looks the classes up, and autoloads them, under the borrow.
Initialize ==
    /\ PhpCode /\ loop = "None"
    /\ Borrow /\ Push("autoload") /\ borrow' = "mut"
    /\ UNCHANGED <<loop, callers, requestVars>>

\* Mutant: the resource is registered with its type, once in the process.
Register_Once == IF REQUEST_END = "unset" THEN "there" ELSE resource

\* zend_register_resource(), for every event loop.
Register == "there"

\* new() fails if the classes aren't there or the autoloader threw; if the shared runtime
\* was inherited, it fails once the resource is registered.
Autoloaded(result) ==
    /\ In("autoload")
    /\ stack' = Pop /\ borrow' = "free"
    /\ IF result = "missing" THEN UNCHANGED <<REQUEST_END, resource>>
       ELSE REQUEST_END' = "set" /\ resource' = Register
    /\ loop' = IF result = "made" THEN "Some" ELSE loop
    /\ UNCHANGED <<callers, request, requests, panicked>>

\* spawn(): getSuspension() is called under the borrow.
Spawn ==
    /\ PhpCode /\ loop = "Some" /\ callers < MaxCallers
    /\ Borrow /\ Push("getSuspension") /\ borrow' = "mut"
    /\ UNCHANGED <<loop, callers, requestVars>>

\* spawn() returns and suspend() suspends the caller; or spawn() fails.
Spawned(suspension) ==
    /\ In("getSuspension")
    /\ callers' = IF suspension /\ callers < MaxCallers THEN callers + 1 ELSE callers
    /\ stack' = Pop /\ borrow' = "free"
    /\ UNCHANGED <<loop, requestVars, panicked>>

\* suspend() returns: resumed, it doesn't borrow.
Resumed ==
    /\ PhpCode /\ callers > 0 /\ callers' = callers - 1
    /\ UNCHANGED <<borrow, loop, stack, requestVars, panicked>>

\* suspend() returns: interrupted, also by PHP that destroys its fiber, it borrows
\* to unregister the caller.
Interrupted ==
    /\ PhpCode /\ callers > 0 /\ callers' = callers - 1 /\ Borrow
    /\ UNCHANGED <<borrow, loop, stack, requestVars>>

\* Mutant: the borrow lasts during the calls into PHP.
AfterBorrow_Kept == "mut"

\* The borrow that wakeup(), drain() and shutdown() leave, before they call PHP.
AfterBorrow == borrow

\* wakeup() and drain() resume the callers.
Wakeup ==
    /\ PhpCode /\ loop = "Some"
    /\ Borrow /\ Push("resume") /\ borrow' = AfterBorrow
    /\ UNCHANGED <<loop, callers, requestVars>>

\* shutdown() takes the event loop, and drops it, with its callers' suspensions and
\* their fibers.
Shutdown ==
    /\ PhpCode /\ loop = "Some" /\ loop' = "None"
    /\ Borrow /\ Push("drop") /\ borrow' = AfterBorrow
    /\ UNCHANGED <<callers, requestVars>>

\* The other operations borrow and call nothing: pending(), initialize() again,
\* those that find no event loop.
Pending ==
    /\ PhpCode /\ Borrow
    /\ UNCHANGED <<borrow, loop, stack, callers, requestVars>>

\* The PHP code called by wakeup(), drain() or shutdown() returns.
Return ==
    /\ PhpCode /\ stack # <<>> /\ stack' = Pop
    /\ UNCHANGED <<borrow, loop, callers, requestVars, panicked>>

\* The script is over: the request's resources are destroyed.
ScriptEnds ==
    /\ PhpCode /\ stack = <<>> /\ request' = "ends" /\ callers' = 0
    /\ UNCHANGED <<borrow, loop, stack, requests, REQUEST_END, resource, panicked>>

\* A fatal error or a timeout in PHP code: no frame is unwound, no fiber either.
FatalError ==
    /\ panicked = "no" /\ request = "runs" /\ (stack = <<>> \/ \E outcall \in Fatal : In(outcall))
    /\ request' = "ends" /\ stack' = <<>> /\ callers' = 0
    /\ UNCHANGED <<borrow, loop, requests, REQUEST_END, resource, panicked>>

\* request_end(), the resource's destructor, calls shutdown(), if there is one.  A
\* panic there ends the process.
RequestEnd ==
    /\ panicked = "no" /\ request = "ends" /\ request' = "over"
    /\ IF resource = "none" THEN UNCHANGED <<loop, panicked>>
       ELSE Borrow /\ loop' = IF borrow = "mut" THEN loop ELSE "None"
    /\ resource' = "none"
    /\ UNCHANGED <<borrow, stack, callers, requests, REQUEST_END>>

\* The thread's next request.
NextRequest ==
    /\ panicked = "no" /\ request = "over" /\ requests < MaxRequests
    /\ request' = "runs" /\ requests' = requests + 1
    /\ UNCHANGED <<borrow, loop, stack, callers, REQUEST_END, resource, panicked>>

Next ==
    \/ Initialize \/ Spawn \/ Resumed \/ Interrupted \/ Wakeup \/ Shutdown \/ Pending \/ Return
    \/ \E result \in {"missing", "failed", "made"} : Autoloaded(result)
    \/ \E suspension \in BOOLEAN : Spawned(suspension)
    \/ ScriptEnds \/ FatalError \/ RequestEnd \/ NextRequest

Spec == Init /\ [][Next]_vars

-----------------------------------------------------------------------------
(* Properties.                                                             *)

\* No operation borrows the event loop while another one does, whatever the PHP code
\* called by wakeup(), drain(), suspend() and shutdown() does with php-tokio
\* (event_loop.rs:672, "Resumes the callers, outside the event loop's borrow").
NeverBorrowedTwice == panicked = "no"

\* No event loop, whose objects PHP frees, outlives its request in the thread, however
\* the request ended (event_loop.rs:541, "Called at the end of every request").
NoLoopOutlivesRequest == request = "over" => loop = "None"
=============================================================================
