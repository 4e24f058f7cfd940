---------------------------- MODULE NotifyProofs ----------------------------
(***************************************************************************)
(* Proofs about Notify, for any finite set of threads, any socket capacity *)
(* and any read buffer.                                                    *)
(***************************************************************************)
EXTENDS Notify, FiniteSetTheorems, TLAPS

\* The inductive invariant: NoLostWakeup alone is not inductive, as what the
\* flag covers while PHP is not in its event loop decides what it covers later.
WakeupInv == TypeOK /\ FlagIsBacked /\ QueueIsCovered

\* Every state of the protocol is well typed, the socket never above its
\* capacity (the writes of Notifier::notify are non-blocking).
THEOREM TypeCorrect == Spec => []TypeOK
<1> USE SizesAssumption DEF TypeOK, ThreadStates, PhpStates
<1>1. Init => TypeOK
  BY DEF Init
<1>2. TypeOK /\ [Next]_vars => TypeOK'
  <2> SUFFICES ASSUME TypeOK, [Next]_vars PROVE TypeOK'
    OBVIOUS
  <2>1. ASSUME NEW t \in Threads, Publish(t) PROVE TypeOK'
    BY <2>1 DEF Publish, Move
  <2>2. ASSUME NEW t \in Threads, Swap(t) PROVE TypeOK'
    BY <2>2 DEF Swap, Move
  <2>3. ASSUME NEW t \in Threads, Write(t) PROVE TypeOK'
    BY <2>3 DEF Write, Move
  <2>4. CASE WakeupReadable \/ WakeupDirectly \/ DrainCall
    BY <2>4 DEF WakeupReadable, WakeupDirectly, DrainCall
  <2>5. CASE Recv \/ RecvStops
    BY <2>5 DEF Recv, RecvStops
  <2>6. CASE Read
    BY <2>6 DEF Read
  <2>7. CASE ReadWouldBlock \/ Rearm \/ Collect \/ CollectEnds
    BY <2>7 DEF ReadWouldBlock, Rearm, Collect, CollectEnds
  <2>8. CASE UNCHANGED vars
    BY <2>8 DEF vars
  <2> QED
    BY <2>1, <2>2, <2>3, <2>4, <2>5, <2>6, <2>7, <2>8 DEF Next, TokioStep, Handler
<1> QED
  BY <1>1, <1>2, PTL DEF Spec

\* The two facts the comment of Notifier::rearm argues with, together inductive.
LEMMA WakeupInvariant == Spec => []WakeupInv
<1> USE SizesAssumption DEF WakeupInv, FlagIsBacked, QueueIsCovered, Writers, Readable
<1>1. Init => WakeupInv
  BY DEF Init, TypeOK, PhpStates, ThreadStates
<1>2. WakeupInv /\ TypeOK' /\ [Next]_vars => WakeupInv'
  <2> SUFFICES ASSUME WakeupInv, TypeOK', [Next]_vars
               PROVE  FlagIsBacked' /\ QueueIsCovered'
    OBVIOUS
  <2> USE DEF TypeOK, ThreadStates, PhpStates
  <2>1. ASSUME NEW t \in Threads, Publish(t) PROVE FlagIsBacked' /\ QueueIsCovered'
    BY <2>1 DEF Publish, Move
  <2>2. ASSUME NEW t \in Threads, Swap(t) PROVE FlagIsBacked' /\ QueueIsCovered'
    BY <2>2 DEF Swap, Move
  <2>3. ASSUME NEW t \in Threads, Write(t) PROVE FlagIsBacked' /\ QueueIsCovered'
    BY <2>3 DEF Write, Move
  <2>4. CASE WakeupReadable \/ WakeupDirectly \/ DrainCall
    BY <2>4 DEF WakeupReadable, WakeupDirectly, DrainCall
  <2>5. CASE Recv \/ RecvStops
    BY <2>5 DEF Recv, RecvStops
  <2>6. CASE Read
    BY <2>6 DEF Read
  <2>7. CASE ReadWouldBlock \/ Rearm \/ Collect \/ CollectEnds
    BY <2>7 DEF ReadWouldBlock, Rearm, Collect, CollectEnds
  <2>8. CASE UNCHANGED vars
    BY <2>8 DEF vars
  <2> QED
    BY <2>1, <2>2, <2>3, <2>4, <2>5, <2>6, <2>7, <2>8 DEF Next, TokioStep, Handler
<1> QED
  BY <1>1, <1>2, TypeCorrect, PTL DEF Spec

\* No completion is stranded, for any number of threads: the order of
\* Receiver::drain, Notifier::rearm and the collection in wakeup() is right.
THEOREM WakeupNeverLost == Spec => []NoLostWakeup
<1>1. WakeupInv => NoLostWakeup
  BY DEF WakeupInv, NoLostWakeup, FlagIsBacked, QueueIsCovered, Writers, Notifying, Readable
<1> QED
  BY <1>1, WakeupInvariant, PTL

\* The flag of Notifier never stays up over an empty socket.
THEOREM FlagAlwaysBacked == Spec => []FlagIsBacked
<1>1. WakeupInv => FlagIsBacked
  BY DEF WakeupInv
<1> QED
  BY <1>1, WakeupInvariant, PTL

\* A completion in the channel is never left without the flag, a thread that has yet
\* to notify, or PHP about to collect it (notify.rs:82-93, event_loop.rs:478-485).
THEOREM QueueAlwaysCovered == Spec => []QueueIsCovered
<1>1. WakeupInv => QueueIsCovered
  BY DEF WakeupInv
<1> QED
  BY <1>1, WakeupInvariant, PTL

-----------------------------------------------------------------------------
(* The number of bytes in the socket.                                      *)

\* The writers are finitely many, at most all the threads.
LEMMA WritersFinite ==
    /\ IsFiniteSet(Writers)
    /\ Cardinality(Writers) \in Nat
    /\ Cardinality(Threads) \in Nat
    /\ Cardinality(Writers) <= Cardinality(Threads)
<1>1. Writers \subseteq Threads
  BY DEF Writers
<1> QED
  BY <1>1, ThreadsAssumption, FS_Subset, FS_CardinalityType

\* The swap of notify() that finds the flag down adds a writer.
LEMMA WriterJoins ==
    ASSUME NEW t \in Threads, pc \in [Threads -> ThreadStates],
           pc[t] # "write", pc' = [pc EXCEPT ![t] = "write"]
    PROVE  Cardinality(Writers') = Cardinality(Writers) + 1
<1>1. Writers' = Writers \cup {t} /\ t \notin Writers
  BY DEF Writers
<1> QED
  BY <1>1, WritersFinite, FS_AddElement

\* The write of notify() removes one.
LEMMA WriterLeaves ==
    ASSUME NEW t \in Threads, pc \in [Threads -> ThreadStates],
           pc[t] = "write", pc' = [pc EXCEPT ![t] = "idle"]
    PROVE  Cardinality(Writers') = Cardinality(Writers) - 1
<1>1. Writers' = Writers \ {t} /\ t \in Writers
  BY DEF Writers, ThreadStates
<1> QED
  BY <1>1, WritersFinite, FS_RemoveElement

\* A thread that isn't at its write, before or after, leaves the writers alone.
LEMMA WritersKept ==
    ASSUME NEW t \in Threads, pc \in [Threads -> ThreadStates],
           NEW s \in ThreadStates, s # "write",
           pc[t] # "write", pc' = [pc EXCEPT ![t] = s]
    PROVE  Writers' = Writers
  BY DEF Writers

\* However late the writes of notify() come, the socket holds at most as many
\* bytes as there are threads, plus two.
THEOREM SocketStaysSmall == Spec => []BytesBounded
<1> USE SizesAssumption DEF BytesBounded, Rearmed
<1>1. Init => BytesBounded
  <2> SUFFICES ASSUME Init PROVE BytesBounded
    OBVIOUS
  <2>1. Writers = {}
    BY DEF Init, Writers
  <2> QED
    BY <2>1, WritersFinite, FS_EmptySet DEF Init
<1>2. TypeOK /\ BytesBounded /\ [Next]_vars => BytesBounded'
  <2> SUFFICES ASSUME TypeOK, BytesBounded, [Next]_vars PROVE BytesBounded'
    OBVIOUS
  <2> USE WritersFinite DEF TypeOK
  <2>1. ASSUME NEW t \in Threads, Publish(t) PROVE BytesBounded'
    <3>1. Writers' = Writers
      BY <2>1, WritersKept DEF Publish, Move, ThreadStates
    <3> QED
      BY <2>1, <3>1 DEF Publish
  <2>2. ASSUME NEW t \in Threads, Swap(t) PROVE BytesBounded'
    <3>1. CASE pending = 1
      <4>1. Writers' = Writers
        BY <2>2, <3>1, WritersKept DEF Swap, Move, ThreadStates
      <4> QED
        BY <2>2, <3>1, <4>1 DEF Swap
    <3>2. CASE pending = 0
      <4>1. pc[t] # "write" /\ pc' = [pc EXCEPT ![t] = "write"]
        BY <2>2, <3>2 DEF Swap, Move
      <4>2. Cardinality(Writers') = Cardinality(Writers) + 1
        BY <4>1, WriterJoins
      <4> QED
        BY <2>2, <3>2, <4>2 DEF Swap
    <3> QED
      BY <3>1, <3>2
  <2>3. ASSUME NEW t \in Threads, Write(t) PROVE BytesBounded'
    <3>1. Cardinality(Writers') = Cardinality(Writers) - 1
      BY <2>3, WriterLeaves DEF Write, Move
    <3> QED
      BY <2>3, <3>1 DEF Write
  <2>4. ASSUME pc' = pc PROVE Writers' = Writers
    BY <2>4 DEF Writers
  <2>5. CASE WakeupReadable \/ WakeupDirectly \/ DrainCall
    BY <2>4, <2>5 DEF WakeupReadable, WakeupDirectly, DrainCall
  <2>6. CASE Recv \/ RecvStops
    BY <2>4, <2>6 DEF Recv, RecvStops
  <2>7. CASE Read
    BY <2>4, <2>7 DEF Read
  <2>8. CASE ReadWouldBlock \/ Rearm \/ Collect \/ CollectEnds
    BY <2>4, <2>8 DEF ReadWouldBlock, Rearm, Collect, CollectEnds
  <2>9. CASE UNCHANGED vars
    BY <2>4, <2>9 DEF vars
  <2> QED
    BY <2>1, <2>2, <2>3, <2>5, <2>6, <2>7, <2>8, <2>9 DEF Next, TokioStep, Handler
<1> QED
  BY <1>1, <1>2, TypeCorrect, PTL DEF Spec
=============================================================================
