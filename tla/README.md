# php-tokio: a TLA+ model

php-tokio lets PHP code running in Revolt fibers wait for Rust futures that run
on Tokio's threads. This directory models how the two sides meet, checks the
models with TLC and proves the main results with TLAPS. Paths such as
`event_loop.rs:92` are those of the repository's `src/` directory.

## The system

**Callers** (`event_loop.rs:328-465`). `suspend_on()` and `try_suspend_on()` call
`spawn()`, which takes an ID from `NEXT_ID`, registers the fiber's Revolt suspension
under it and starts a Tokio task, then `suspend()`, which suspends the fiber. The
suspension ends in four ways: resumed; an exception thrown into the fiber; an exit
(`exit()`, or PHP destroying the fiber); not suspended at all. In the last three the
caller unregisters itself. `suspend_on()` then blocks in `Slot::wait()`, because its
future may borrow from the caller; `try_suspend_on()` returns.

**Tasks** (`event_loop.rs:82-234, 435-440`). A task awaits the future and stores the
result (`Slot::set`), then drops the `Completion` (`Slot::finish`, the ID sent to a
channel, `Notifier::notify`), then the `Task`. `Tasks` counts the tasks of an event
loop, and among them those that may borrow. Tasks run on any of Tokio's threads,
between any two steps of the PHP thread.

**Notifier and Receiver** (`notify.rs`). A flag and a non-blocking socket pair. The
first completion raises the flag and writes a byte; the next ones see the flag and
skip the write. The PHP thread empties the socket, lowers the flag, then collects.

**wakeup(), drain()** (`event_loop.rs:467-523, 672-687`). `wakeup()` is Revolt's
callback for the readable socket. `drain()` first receives IDs from the channel, up
to a deadline. Both then empty the socket, rearm, collect and resume.

**init(), init_with(), shutdown(), the end of the request** (`event_loop.rs:54-63,
288-326, 534-602`). One event loop at a time, with the shared runtime or its own.
`shutdown()` takes it away, waits for the borrowing futures, and releases the runtime,
at once or through the last task. A resource of the request calls it at the latest
before PHP frees the request's memory.

**EVENTLOOP** (`event_loop.rs:78-80`). The event loop is in a thread-local `RefCell`,
which outlives the request. The operations borrow it, and some call PHP code, with the
borrow (`getSuspension()`, the autoloader) or after it (`Suspension::resume()`,
destructors): that code may call php-tokio again, or end with a fatal error.

**Fork** (`event_loop.rs:40-52, 369-375, 477, 499, 548, 604-630`). A forked child has a copy
of the event loop, the callers and the channel, none of Tokio's threads, and shares the
socket with its parent. It must leave all of them alone.

**The socket pair on Windows** (`notify/windows.rs`). Two sockets of the process connected
through a listener, which other processes can connect to: a Unix domain socket in the
temporary directory, checked by the peer's process ID, or else TCP on the loopback
interface, checked by the peer's address. `EVENTLOOP` is thread-local, so that several threads
may create their pairs at once; they have the same process ID, and different socket files.

**php_async_impl and borrow_unchecked** (`crates/macros/src/lib.rs`, `borrow_unchecked.rs`).
The macro turns an async method into one that calls `suspend_on()`, its receiver and its
references having been given the lifetime `'static`.

| component | state | hard behaviour | what makes it correct |
|---|---|---|---|
| Notifier, Receiver | flag, bytes, channel | threads against the PHP thread | `NoLostWakeup`, `FlagIsBacked`, `QueueIsCovered`, `BytesBounded`, `EventuallyCollecting` |
| callers | suspensions, frames, slots | interruption against completion | `BorrowSafety`, `RegisteredCallers`, `ResultFaithful`, `ImplementsCalls` |
| wakeup, drain | channel, collected callers | a resume that throws, a deadline | `NoStrandedCaller`, `HandlersResumeTheDone`, `ResumesOnlyTheDone`, `CallerContinues` |
| shutdown | the event loop, runtimes | a fatal error, callers never resumed | `BorrowSafety`, `RuntimeReleased`, `ShutdownReturns`, `DeferredReleased` |
| Tasks | counters, condition variable, the runtime left | the last task against check, wait and release | `CountersExact`, `ParkedIsWoken`, `RuntimeHasOneHolder`, `ImplementsRunningFutures` |
| Slot | the result, condition variable | `set()`, `finish()` and `wait()` in any order | `HandedOver`, `WaiterIsWoken`, `SlotImplementsCalls`, `WaitReturns` |
| EVENTLOOP | the borrow, the request's resource | re-entrance, fatal errors, several requests | `NeverBorrowedTwice`, `NoLoopOutlivesRequest` |
| Fork | copies of all that, one socket | the child doing its parent's work | `WakeupSurvivesFork`, `FuturesRunHere`, `WaitIsBounded`, `PendingIsHere`, `ReleasedByItsProcess`, `NobodyHangs` |
| socket pair | listeners, backlogs, files | other threads and processes, a failure at any call | `ConnectedToItself`, `AcceptFindsUs`, `PairReturns` |
| php_async_impl | the items and arguments to handle | combinations of types | `ExpandsAsExpected`, `ExtensionsAreSound` |

## Modules

| module | about |
|---|---|
| `Notify`, `NotifyProofs` | the wakeup protocol, step by step, for any number of threads |
| `EventLoop`, `EventLoopProofs` | callers, tasks, `wakeup()`, `drain()`, `init()`, `shutdown()`, the end of the request |
| `Calls` | what a call promises its caller; `EventLoop` and `Slot` implement it |
| `Tasks`, `TasksProofs` | the counters, the mutex and the condition variable of `Tasks` |
| `RunningFutures` | what `Tasks` promises: the sets and guards that `EventLoop` uses; `Tasks` implements it |
| `Slot`, `SlotProofs` | the mutex and the condition variable of `Slot` |
| `Fork`, `ForkProofs` | processes forked from each other |
| `Reentrancy`, `ReentrancyProofs` | the borrow of `EVENTLOOP`, PHP code within operations, requests |
| `SocketPair`, `SocketPairProofs` | `pair()` on Windows |
| `AsyncImpl`, `AsyncImplProofs` | `php_async_impl`, and what `borrow_unchecked` takes |
| `MC...` | the instances for TLC |

The details are divided between the modules. `EventLoop` has the callers and the event
loops with every step of the tasks, but a wait is a guard in it, and a counter a set:
`Slot` and `Tasks` show that the condition variables do that. `Notify` has the steps of the
wakeup protocol with any number of threads and reads. `Fork` and `Reentrancy` each add one
thing (processes; PHP code within operations) to a coarser view of the same operations.

### Notify

`pending` is `Notifier::pending`, `socket` the bytes in PHP's end, `queue` the number
of IDs in the channel. `pc` says where a thread is in `Completion::drop`: about to
swap (`notify`), about to write (`write`). `php` says where the PHP thread is. A write
to a full socket is lost, as the code ignores its error; a read takes at most `Chunk`
bytes. `wakeup()` may be called when nothing is readable, as it is public.

### EventLoop

The variables carry the names of the code's fields. Fibers are a set, `{main}` being
one of them. Calls are numbered by `NEXT_ID`; `call[i]` records the fiber, the event
loop and the kind. Event loops are numbered as they are created.

* `current[f]` is the call whose Rust frame is on the fiber's stack: what a future of
  `suspend_on()` borrows from lives as long as `current[f] = i`.
* `future[i]` says whether the future still exists; the code drops it before
  `Slot::set()` and before the drop of the `Completion`.
* `task[i]` is the task's position: `poll`, `set`, `finish`, `send`, `notify`, `write`,
  `drop`, `gone`. A task of an event loop that was shut down sends and notifies without
  effect on the current one (`Live`).
* `php` is `idle` when PHP code or Revolt runs, `call` inside a caller, and otherwise a
  point inside `wakeup()`, `drain()` or `shutdown()`.
* `runtime[g]` is `shared`, `loop` (owned by the event loop), `deferred` (left in
  `Tasks::release`) or `released`.
* `Tasks::running` and `borrowing` are the sets `Running(g)` and `RunningBorrowing(g)`.

Revolt and PHP are modelled as the code uses them. Revolt gives each fiber one
suspension object: `resume()` and `throw()` fail unless its fiber is suspended, and the
fiber only runs again when Revolt gets to it. At the end of a request, PHP calls
`request_end()`, then frees all frames (`Free`); this is also what a fatal error does.

`Env` selects what the environment does in an instance: futures that panic,
exceptions, exits, failures, fibers suspended elsewhere, `drain()`, `shutdown()`, the end
of the request, and two things PHP code shouldn't do: `resume` a caller's suspension
itself and `close` the stream. The proofs hold for every `Env`, but for the two that say
so.

### Calls

The promise of `suspend_on()` and `try_suspend_on()`, without fibers, threads or event
loops: a call gets one answer, that of its own future; one of `try_suspend_on()` may fail
instead; one of `suspend_on()` gets none, and its frame isn't freed, before its future is
over. `EventLoop` maps its calls' kinds to it, its other variables having the same names.

### Tasks and RunningFutures, Slot

A critical section is a step; so is what a thread does outside of one: `notify_all()` in
`Slot::set()`, which the code calls once the mutex is unlocked, and the release of the
runtime. A thread in `Condvar::wait()` is `parked`, and goes back to its test (`check`) when
it is notified or spuriously. A notification finds only a thread that is parked. `Tasks` has
one event loop, with or without a runtime of its own.

### Fork

Each variable is a function of the process whose memory it is. `Fork(p, q)` copies `p`'s to
`q`; `owner` (`EventLoop::pid`) and `socket` belong to no process. A task runs in the process
that owns its event loop only (`ThreadsIn`): its copies stay where they are. Inside a process,
`wakeup()` and a task's notification are single steps.

### Reentrancy

`stack` is the stack of calls into PHP, the innermost last. While the innermost is one under
the borrow (`Borrowed`), it is assumed to call nothing of php-tokio: neither Revolt's
`getSuspension()` nor the application's autoloader does, nor a destructor that PHP's garbage
collector runs meanwhile. Any other PHP code may call any
operation, return, or end with a fatal error, which empties the stack without unwinding it.
`Fatal` says in which calls that happens. `REQUEST_END` is the process's, `resource` the
request's, `loop` the thread's.

### SocketPair

`Threads` are those of one process that create a pair, each once. `pc[t]` is the next call of
`t`'s `pair()`, `backlog[t]` the connections that the kernel keeps for its listener, in their
order, and `file` says whose listener a socket file was made for. The connection of a thread's
writer is named after the thread. `bind()` fails if there is a file of that name, `connect()`
goes to whoever listens behind the name, and `Delete` removes the file, whoever made it, or
fails to, which the code ignores: a file may be left behind. `peer_pid()` accepts a connection
of any thread of the process. That each pair is still connected to itself therefore rests on
`Name`: the random name of the socket file is assumed not to collide. Other processes connect
at any time, as long as there is room; every call may fail.

### AsyncImpl

One step per item and per argument, with the local variables of `handle_method()`. A type is
abstracted to what the macro can tell: how it is wrapped in `Option`, whether it is a
reference, and to what. `InputsAssumption` is the grammar of what `syn` parses: `self` comes
first, if at all.

## What TLC checks

| run | instance | result |
|---|---|---|
| `notify` | 3 threads, 4 completions at a time, reads of 2 bytes | all properties hold |
| `callers` | 2 fibers, 2 calls, 2 event loops, panics, exceptions, exits, `drain()`, `shutdown()`, requests that end | all properties hold |
| `misuse` | 2 fibers, 2 calls, the whole of `Env` but panics | `HandlersResumeTheDone` and `ImplementsCalls` hold |
| `stale` | 1 fiber, 2 calls, a foreign `resume()` | `ResumesOnlyTheDone` is violated (finding 1) |
| `live` | 1 fiber, 2 calls, both runtimes, exceptions, failures, a stream that is opened late or closed, `drain()`, `shutdown()`, requests that end | the liveness properties hold |
| `tasks` | 4 futures, 2 of them borrowing | all properties hold, the refinement with its fairness |
| `slot` | 3 futures | all properties hold |
| `fork` | 2 processes, 1 call each, 2 event loops | all properties hold |
| `reentrancy` | calls into PHP 4 deep, 3 callers, 3 requests, fatal errors outside the borrow | both invariants hold |
| `fatal` | the same, fatal errors anywhere | `NoLoopOutlivesRequest` is violated (finding 2) |
| `pair` | 3 threads, 2 foreign connections, backlogs of 2 and 3 | all properties hold |
| `expand` | every method of 2 arguments, every 2 items of at most 1 | both invariants hold |

**Bounds.** Two calls are what it takes for one completion to skip its write because of
another (with one fiber too: an interrupted `try_suspend_on()` leaves its task behind), for a
resume that throws to precede another resume, for a task to be or not to be the last, and for
a registration to be left over from a fiber's previous call. Two event loops are what it
takes for a caller of an old one to meet a new one. Panics are in `callers` and `slot`, not in
`misuse`, which would take too long with them. Three threads are what it takes for one to take
over the socket file of a second after a third deleted it, if they had one name. With four futures, each kind of task
ends before, while and after `shutdown()` waits, twice. One call suffices for a child to
inherit a caller, a byte or a runtime, or to make its own; forks of forks, and a call of the
child beside an inherited one, are left to the proofs, which have no bounds. A stack
of depth 4 has resumes and drops within each other, and a call under the borrow on top. `CHECK_DEADLOCK FALSE` stands where the
system may stop: all futures awaited, `pair()` returned, no more requests, the macro done.

**Fairness.** `Notify`: a thread inside `notify()` goes on, the PHP thread goes on with a
handler it entered, and Revolt calls back for a stream that is readable again and again.
`EventLoop`: Tokio runs its tasks and every future ends, which php-tokio relies on and
can't enforce; the PHP thread goes on with what it entered; Revolt runs the fibers that
were resumed or thrown into, and calls back for the stream, whatever else comes between
(strong fairness, as the PHP thread may be elsewhere in between). Nothing makes PHP code
call `wakeup()`, `drain()` or `shutdown()` by itself. `Tasks`, `Slot` and `Fork`: every future
ends in the process that runs it, and a thread goes on when it can; a condition variable
that isn't notified needn't wake up. `SocketPair`: every call returns, `accept()` only when
there is a connection; other processes needn't connect.

## What is proved

For every finite set of threads, every socket capacity and read size (`NotifyProofs`):

* `TypeCorrect`, and `WakeupNeverLost`: `NoLostWakeup`. It isn't inductive: what it
  says of PHP in its event loop depends on what the flag covered while `wakeup()` ran. The
  inductive invariant adds `FlagIsBacked` (a raised flag has a byte, a writer, or a rearm
  to come; `FlagAlwaysBacked`) and `QueueIsCovered` (a completion is covered by the flag, by
  its own thread, or by the collection; `QueueAlwaysCovered`). These are the two halves of
  the argument in the comment of `rearm()`.
* `SocketStaysSmall`: the socket holds at most `threads + 2` bytes. The writers are counted,
  so this uses the library's facts on finite sets.

For every set of fibers, every number of calls and event loops, every `Env`
(`EventLoopProofs`):

* `TypeCorrect`.
* `BorrowIsSafe`: `BorrowSafety`. The invariant `BorrowInv` adds that a running future's
  slot says `Running` (so that `Slot::wait()` blocks), that a frame belongs to its fiber,
  that a fiber in PHP code has none, that unused IDs are unused, and that borrowing tasks
  belong to the current event loop or to the one whose `shutdown()` waits
  (`BorrowersWaitedFor`). The last makes the end of the request safe: without an event loop
  there is no borrower.
* `RuntimeIsReleased`: `RuntimeReleased`, with the facts that the current and the closing
  event loop still have their runtime and that only `shutdown()` closes one.
* `AnswersAreFaithful`: `ResultFaithful`. `AnswerInv` adds that the slot tells how the future
  ended, in the order in which the task fills it, and that a call whose frame is on a stack
  has no answer yet.
* `EventLoopImplementsCalls`: every step of `EventLoop` is one of `Calls` or a stutter, from
  `AnswerInv` and `BorrowInv`: freeing the frames at the end of a request is a step of `Calls`
  only because no borrower is left.
* `CallersAreNotStranded`: `NoStrandedCaller`, even if PHP code resumes callers by itself. What
  must hold when PHP is back in its event loop depends on what `wakeup()` or
  `drain()` left behind, and on what the tasks did meanwhile. `WakeupInv` follows an ID on its
  way: a suspended caller of the current event loop is registered, or about to be resumed
  (`SuspendedIsKnown`); once its task sent its ID, that is in the channel as long as it is
  registered (`SentIsQueued`); a task that got past the swap of `Notifier::notify()` left the
  flag raised, until the collection (`NotifiedIsFlagged`); and a raised flag has a byte, a writer, or a
  rearm to come (`FlagIsBacked`): the argument of `Notify`, here with the callers, the deadline
  of `drain()`, a resume that throws and event loops that replace each other. It also needs
  that no handler runs while a caller is between `spawn()` and `suspend()` (`OneRuns`): it could
  take the caller's ID, fail to resume a fiber that isn't suspended, and leave it to suspend
  for good.

* `DoneAreResumed`: `HandlersResumeTheDone`, also with foreign resumes and without a stream.
  A caller that `resume()` leaves suspended wasn't collected, so that it is registered
  (`SuspendedIsKnown`); were its ID sent, it would be in the channel (`SentIsQueued`), which is
  empty by then.

The same, for every `Env` without `resume` (`OnlyTokioResumes`, without which finding 1 is a
counterexample to the first):

* `ResumedIsDone`: `ResumesOnlyTheDone`. `OwnerInv` says that the fiber of a registered caller
  is still in that very call, and so is that of a caller about to be resumed; `WakeupInv`
  that an ID about to be resumed was sent, which is after its slot was filled.
* `RegisteredAreCallers`: `RegisteredCallers`, from `OwnerInv` and `WakeupInv`. That `pending()`
  is at most the number of waiting fibers takes an injection from the registrations to the
  fibers, and the library's facts on cardinality.

For every finite set of futures (`TasksProofs`, `SlotProofs`):

* `CountersAreExact`, from which the counters never underflow (`TypeCorrect`);
  `NoLostNotification`: `ParkedIsWoken`; `OneHolder`: `RuntimeHasOneHolder`. `TasksInv` adds that
  nobody but the event loop has the runtime before `shutdown()` is over, and that nothing
  borrows once it waited.
* `TasksRunFutures`: `Tasks` implements `RunningFutures`, but for fairness.
* `ResultsAreHandedOver`, `WaitersAreWoken`, `SlotKeepsThePromise`: `SlotInv` relates where a
  task is to what its slot holds.

For every set of processes, whatever the tree of forks (`ForkProofs`): `TypeCorrect` and
the safety properties of `Fork`. `ForkInv` says who owns what: calls made in a process are on
event loops of that process, `RUNTIME` is used by the process that created it, what is
published or resumed is over, and, in the process that owns the event loop, what is in the
channel is backed by a byte in the socket.

For any number of threads, of foreign connections and of places in the backlogs
(`SocketPairProofs`): `PairIsOurs`: `ConnectedToItself`, and `AcceptNeverBlocks`: `AcceptFindsUs`.
`PairInv` says that behind a thread's file is its own listener or none, and in its backlog only
foreign connections and its own (`OwnListener`): only then does the process ID tell ours. The
step that matters is that a call of one thread changes nothing of the others' (`PairsApart`),
`Delete` and `connect()` included.

For any depth and any number of callers and requests
(`ReentrancyProofs`), if fatal errors don't happen in the PHP code under the borrow
(`Fatal \cap Borrowed = {}`, without which finding 2 is a counterexample):
`BorrowsNeverNest`, `LoopsEndWithTheirRequest`. The borrow lasts exactly as long as a call
under it is the innermost one.

For every block of code that Rust's grammar allows, with any number of items and arguments
(`AsyncImplProofs`): `MacroExpandsAsExpected`, `MacroExtensionsAreSound`. The two properties
say what each item becomes as a whole, the macro goes through the arguments one by one;
`MacroInv` says what the loops have so far: the conversions of the arguments up to `index`, none
of which is refused, the receiver if there was one, and the items before the current one.

The types are proved too (`TypeCorrect`, in `SlotProofs` a part of `SlotInv`): only `Notify` and
`EventLoop` have them in a run. The other assumptions are those of the modules: finitely many threads and futures, positive
sizes, natural bounds, distinct names. Each invariant was checked with TLC before it was
proved. Every invariant and action property of the runs that hold is a theorem. Only
model-checked: the liveness properties (`EventuallyCollecting`, `CallerContinues`,
`ShutdownReturns`, `DeferredReleased`, `WaitReturns`, `NobodyHangs`, `PairReturns`) and the fairness
of `ImplementsRunningFutures`, which are out of the prover's reach.

## Findings

1. `event_loop.rs:398` says that a resumed caller doesn't block, as `wakeup()` or `drain()`
   resumed it once its future ended. If something else calls the suspension's `resume()`,
   the caller stays registered after it returned, and its completion resumes the fiber's
   next call too early, which then blocks the PHP thread until its future is over (`stale`).
   Nothing else breaks: `BorrowSafety` and `ResultFaithful` are proved in spite of it, and
   so is `NoStrandedCaller`.
2. `event_loop.rs:541` says that `shutdown()` is called at the end of every request. If a fatal
   error or a timeout happens in `getSuspension()` or in the autoloader, under the borrow, PHP
   jumps out without unwinding it, and `shutdown()` panics on the `RefCell` that is still
   borrowed: it neither takes the event loop nor waits for the futures of `suspend_on()`
   (`fatal`). This takes a jump that passes the Rust frames, as `event_loop.rs:354` and `:538`
   take it to.

Observed on the way, without a run of their own:

* `notify.rs:41` says that "at most one or two bytes are ever in" the socket, which is false:
  with three threads, `socket <= 2` fails in the instance of the run `notify`, in 18 states. A
  thread that stalls between the swap and the write writes after `wakeup()` or `drain()`
  lowered the flag, and its byte comes on top of those of the next notifications. The bound
  is the number of threads plus two (`BytesBounded`), which no socket buffer notices.
* `php_async_impl` generates a `borrow_unchecked()` for `&mut str` and for references to
  slices, as its test expects (`lib.rs:268-270`), but `BorrowUnchecked` is only implemented
  for references to sized types: such a method doesn't compile. It also refuses a pattern
  for an argument of a method that isn't async, and panics on `Option<>`.

## Not modelled

* `build.rs`, which only links; the test extension, the tests and the example, which only
  use php-tokio and were read for how it is used.
* `BorrowUnchecked` for `BinarySlice`, which the macro never generates. `borrow_unchecked()`
  does nothing at run time: what it needs is `BorrowSafety` and `ExtensionsAreSound`.
* Callers that PHP code of a forked child resumes by itself: they would wait for their
  parent's future, as only an interrupted caller is spared (`event_loop.rs:373`).
* PHP code under the borrow that calls php-tokio, destructors run by the garbage collector
  among it (see Reentrancy).
* A fatal error while `{main}` itself is suspended. PHP then jumps out of `{main}`'s frames
  before `shutdown()` waits for its future (`event_loop.rs:354-360`), while `Free` frees the
  frames of all fibers after it: `BorrowSafety` says nothing of what a future borrows from
  `{main}`'s own stack in that case. Whether ext-php-rs lets the jump pass isn't visible here.
* A socket file that another process makes under the name of ours, or puts in its place.
* The values of results and exceptions: a result is told from a panic and from an
  interruption, not from another result.

## What is left

A refinement from `EventLoop` to `Notify`, one event loop at a time: what it would give
`EventLoop`, that no wakeup is lost, is proved there directly.
