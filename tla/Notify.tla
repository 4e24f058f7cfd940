------------------------------- MODULE Notify -------------------------------
(***************************************************************************)
(* The wakeup protocol of src/notify.rs between Tokio's threads and the    *)
(* PHP thread.  A Tokio thread publishes a completion in a channel, then   *)
(* calls Notifier::notify(): it swaps the flag `pending' to true and, if   *)
(* it was false, writes a byte to a non-blocking socket.  The PHP thread   *)
(* watches the other end.  EventLoop::wakeup() empties the socket          *)
(* (Receiver::drain), clears the flag (Notifier::rearm) and only then      *)
(* collects the completions; EventLoop::drain() first takes completions    *)
(* from the channel without having been woken up, then does the same.      *)
(***************************************************************************)
EXTENDS Integers, FiniteSets

CONSTANTS Threads,    \* Tokio's worker threads
          Capacity,   \* bytes the socket holds before a write would block
          Chunk,      \* the size of the buffer Receiver::drain reads into
          MaxQueue    \* bound: completions published and not yet collected

ASSUME ThreadsAssumption == IsFiniteSet(Threads)
ASSUME SizesAssumption == /\ Capacity \in Nat \ {0}
                          /\ Chunk \in Nat \ {0}
                          /\ MaxQueue \in Nat

VARIABLES pending,    \* Notifier::pending, 1 while a notification is in the socket
          socket,     \* bytes in PHP's end of the socket
          queue,      \* completions in the channel
          pc,         \* where each Tokio thread is
          php         \* where the PHP thread is

vars == <<pending, socket, queue, pc, php>>

ThreadStates == {"idle", "notify", "write"}
PhpStates == {"loop", "recv", "drain", "rearm", "collect"}

TypeOK ==
    /\ pending \in {0, 1}
    /\ socket \in 0..Capacity
    /\ queue \in Nat
    /\ pc \in [Threads -> ThreadStates]
    /\ php \in PhpStates

\* channel(): a connected pair, the flag down, nothing published.
Init ==
    /\ pending = 0
    /\ socket = 0
    /\ queue = 0
    /\ pc = [t \in Threads |-> "idle"]
    /\ php = "loop"

-----------------------------------------------------------------------------
(* Tokio's threads.                                                        *)

Move(t, from, to) == pc[t] = from /\ pc' = [pc EXCEPT ![t] = to]

\* Completion::drop sends the ID before it notifies.
Publish(t) ==
    /\ queue < MaxQueue
    /\ Move(t, "idle", "notify")
    /\ queue' = queue + 1
    /\ UNCHANGED <<pending, socket, php>>

\* Mutant: the test of the swapped value inverted, so the first one returns.
Swap_Inverted(t) ==
    /\ Move(t, "notify", IF pending = 1 THEN "write" ELSE "idle")
    /\ pending' = 1
    /\ UNCHANGED <<socket, queue, php>>

\* Mutant: the flag is set but never tested, so every completion writes.
Swap_Untested(t) ==
    /\ Move(t, "notify", "write")
    /\ pending' = 1
    /\ UNCHANGED <<socket, queue, php>>

\* notify(): the swap, returning at once if a notification is pending.
Swap(t) ==
    /\ Move(t, "notify", IF pending = 1 THEN "idle" ELSE "write")
    /\ pending' = 1
    /\ UNCHANGED <<socket, queue, php>>

\* notify(): the write; its error (a full buffer) is ignored.
Write(t) ==
    /\ Move(t, "write", "idle")
    /\ socket' = IF socket < Capacity THEN socket + 1 ELSE socket
    /\ UNCHANGED <<pending, queue, php>>

-----------------------------------------------------------------------------
(* The PHP thread.                                                         *)

Readable == socket > 0

\* Revolt calls wakeup() when the stream is readable.
WakeupReadable ==
    /\ php = "loop" /\ Readable
    /\ php' = "drain"
    /\ UNCHANGED <<pending, socket, queue, pc>>

\* wakeup() is public: PHP code may call it when nothing is readable.
WakeupDirectly ==
    /\ php = "loop" /\ ~Readable
    /\ php' = "drain"
    /\ UNCHANGED <<pending, socket, queue, pc>>

\* drain() is called.
DrainCall ==
    /\ php = "loop"
    /\ php' = "recv"
    /\ UNCHANGED <<pending, socket, queue, pc>>

\* Mutant: a timeout taken for a completion.
Recv_Unchecked ==
    /\ php = "recv"
    /\ queue' = queue - 1
    /\ UNCHANGED <<pending, socket, pc, php>>

\* drain(): recv_timeout() returns a completion.
Recv ==
    /\ php = "recv" /\ queue > 0
    /\ queue' = queue - 1
    /\ UNCHANGED <<pending, socket, pc, php>>

\* drain(): the timeout expires, or no caller is left to wait for.
RecvStops ==
    /\ php = "recv"
    /\ php' = "drain"
    /\ UNCHANGED <<pending, socket, queue, pc>>

\* Receiver::drain: a read that returns bytes, up to the buffer's size.
Read ==
    /\ php = "drain" /\ socket > 0
    /\ socket' = IF socket > Chunk THEN socket - Chunk ELSE 0
    /\ UNCHANGED <<pending, queue, pc, php>>

\* Mutant: the flag isn't cleared before collecting.
ReadWouldBlock_NoRearm ==
    /\ php = "drain" /\ socket = 0
    /\ php' = "collect"
    /\ UNCHANGED <<pending, socket, queue, pc>>

\* Receiver::drain: the read that would block ends the loop.
ReadWouldBlock ==
    /\ php = "drain" /\ socket = 0
    /\ php' = "rearm"
    /\ UNCHANGED <<pending, socket, queue, pc>>

\* Mutant: rearm() leaves the flag up.
Rearm_Forgotten ==
    /\ php = "rearm"
    /\ php' = "collect"
    /\ UNCHANGED <<pending, socket, queue, pc>>

\* Notifier::rearm.
Rearm ==
    /\ php = "rearm"
    /\ pending' = 0
    /\ php' = "collect"
    /\ UNCHANGED <<socket, queue, pc>>

\* try_iter() yields a completion.
Collect ==
    /\ php = "collect" /\ queue > 0
    /\ queue' = queue - 1
    /\ UNCHANGED <<pending, socket, pc, php>>

\* Mutant: one completion is collected by wakeup, not all.
CollectEnds_Early ==
    /\ php = "collect"
    /\ php' = "loop"
    /\ UNCHANGED <<pending, socket, queue, pc>>

\* try_iter() finds the channel empty: the callers are resumed, back to the loop.
CollectEnds ==
    /\ php = "collect" /\ queue = 0
    /\ php' = "loop"
    /\ UNCHANGED <<pending, socket, queue, pc>>

-----------------------------------------------------------------------------
TokioStep == \E t \in Threads : Publish(t) \/ Swap(t) \/ Write(t)

\* What the PHP thread does on its own once it is in wakeup() or drain().
Handler == Recv \/ RecvStops \/ Read \/ ReadWouldBlock \/ Rearm \/ Collect \/ CollectEnds

Next == TokioStep \/ WakeupReadable \/ WakeupDirectly \/ DrainCall \/ Handler

Spec == Init /\ [][Next]_vars

\* A thread inside notify() goes on, a handler that was entered runs (its
\* timeout expires), and Revolt dispatches a stream that stays readable.
Fairness ==
    /\ \A t \in Threads : WF_vars(Swap(t)) /\ WF_vars(Write(t))
    /\ WF_vars(RecvStops) /\ WF_vars(Read) /\ WF_vars(ReadWouldBlock)
    /\ WF_vars(Rearm) /\ WF_vars(Collect) /\ WF_vars(CollectEnds)
    /\ SF_vars(WakeupReadable)

FairSpec == Spec /\ Fairness

-----------------------------------------------------------------------------
(* Properties.                                                             *)

Writers == {t \in Threads : pc[t] = "write"}
Notifying == \E t \in Threads : pc[t] \in {"notify", "write"}

\* No completion is stranded: while PHP is in its event loop with a completion
\* in the channel, its end of the socket is readable, or a thread is about to
\* make it so (the comment of Notifier::rearm, notify.rs:85-90).
NoLostWakeup == (php = "loop" /\ queue > 0) => (Readable \/ Notifying)

\* A raised flag is backed by a byte, a thread about to write one, or a PHP
\* thread about to clear it: the flag never stays up over an empty socket.
FlagIsBacked ==
    pending = 1 => Readable \/ Writers # {} \/ php \in {"drain", "rearm"}

\* A completion in the channel that no thread has yet to notify is covered by
\* the flag, or PHP is about to collect it.
QueueIsCovered ==
    queue > 0 => pending = 1 \/ php = "collect" \/ \E t \in Threads : pc[t] = "notify"

\* The bytes in the socket, written or about to be, stay below the number of
\* threads plus two, however late the writes come: this is what really keeps
\* the buffer from filling up (notify.rs:41-43 says one or two).
Rearmed == php # "rearm"
BytesBounded ==
    socket + Cardinality(Writers) <=
        Cardinality(Threads) + pending + (IF Rearmed THEN 1 ELSE 0)

\* A published completion is eventually collected: PHP comes to collecting the
\* channel whenever a completion is in it, though a write may come late or be
\* skipped (Notifier::notify, notify.rs:73-80).
EventuallyCollecting == queue > 0 ~> (php = "collect" \/ queue = 0)
=============================================================================
