--------------------------- MODULE ReentrancyProofs ---------------------------
(***************************************************************************)
(* Proofs about Reentrancy, for any depth of the calls into PHP and any    *)
(* number of callers and requests, if no fatal error ends a call under the *)
(* borrow.                                                                 *)
(***************************************************************************)
EXTENDS Reentrancy, SequenceTheorems, TLAPS

UnderBorrow == \E outcall \in Borrowed : In(outcall)

\* The borrow lasts exactly as long as the call under it, which is the innermost one.
BorrowHeld == borrow = "mut" <=> UnderBorrow
InnermostOnly == \A n \in 1..Len(stack) - 1 : stack[n] \notin Borrowed

\* An event loop has a resource that shuts it down, until its request is over.
LoopBacked == /\ loop = "Some" => resource = "there" /\ request # "over"
              /\ request # "runs" => stack = <<>>

ReentrancyInv ==
    /\ stack \in Seq(Outcalls) /\ borrow \in {"free", "mut"} /\ loop \in {"None", "Some"} /\ panicked = "no"
    /\ BorrowHeld /\ InnermostOnly /\ LoopBacked

\* What a call into PHP makes of the stack.
LEMMA PushFacts ==
    ASSUME ReentrancyInv, ~UnderBorrow, NEW c \in Outcalls, stack' = Append(stack, c)
    PROVE  stack' \in Seq(Outcalls) /\ InnermostOnly' /\ (UnderBorrow' <=> c \in Borrowed)
<1>1. Len(stack') = Len(stack) + 1 /\ stack'[Len(stack')] = c /\ stack' # <<>>
  BY DEF ReentrancyInv
<1>2. \A n \in 1..Len(stack) : stack'[n] = stack[n]
  BY DEF ReentrancyInv
<1>3. \A n \in 1..Len(stack) : stack[n] \notin Borrowed
  <2> SUFFICES ASSUME NEW n \in 1..Len(stack) PROVE stack[n] \notin Borrowed
    OBVIOUS
  <2>1. Len(stack) \in Nat /\ (stack = <<>> => Len(stack) = 0)
    BY DEF ReentrancyInv
  <2>2. CASE n = Len(stack)
    BY <2>1, <2>2 DEF UnderBorrow, In
  <2>3. CASE n # Len(stack)
    BY <2>1, <2>3 DEF ReentrancyInv, InnermostOnly
  <2> QED
    BY <2>2, <2>3
<1>4. Len(stack) \in Nat
  BY DEF ReentrancyInv
<1>5. InnermostOnly'
  BY <1>1, <1>2, <1>3, <1>4 DEF InnermostOnly
<1>6. UnderBorrow' <=> c \in Borrowed
  BY <1>1 DEF UnderBorrow, In
<1> QED
  BY <1>5, <1>6 DEF ReentrancyInv

\* A return takes one call from the stack.
LEMMA PopShorter ==
    ASSUME stack \in Seq(Outcalls), stack # <<>>
    PROVE  Pop \in Seq(Outcalls) /\ Len(Pop) = Len(stack) - 1
<1> DEFINE n == Len(stack) - 1
<1>1. n \in Int /\ 1 \in Int /\ n >= 0
  OBVIOUS
<1>2. \A i \in 1..n : stack[i] \in Outcalls
  OBVIOUS
<1>3. Pop = SubSeq(stack, 1, n)
  BY DEF Pop
<1> HIDE DEF n
<1>4. /\ SubSeq(stack, 1, n) \in Seq(Outcalls)
      /\ Len(SubSeq(stack, 1, n)) = IF 1 <= n THEN n - 1 + 1 ELSE 0
  BY <1>1, <1>2, SubSeqProperties
<1>5. Len(SubSeq(stack, 1, n)) = n
  BY <1>1, <1>4
<1>6. Pop \in Seq(Outcalls) /\ Len(Pop) = n
  BY <1>3, <1>4, <1>5, Zenon
<1> QED
  BY <1>6 DEF n

\* What its return makes of it.
LEMMA PopFacts ==
    ASSUME ReentrancyInv, stack # <<>>, stack' = Pop
    PROVE  stack' \in Seq(Outcalls) /\ InnermostOnly' /\ ~UnderBorrow'
<1>1. Len(stack) \in Nat /\ Len(stack) > 0
  BY DEF ReentrancyInv
<1>2. stack' \in Seq(Outcalls) /\ Len(stack') = Len(stack) - 1
  BY PopShorter DEF ReentrancyInv
<1>3. \A n \in 1..Len(stack) - 1 : stack'[n] = stack[n]
  BY <1>1 DEF ReentrancyInv, Pop
<1>4. InnermostOnly'
  BY <1>1, <1>2, <1>3 DEF InnermostOnly, ReentrancyInv
<1>5. ~UnderBorrow'
  <2> SUFFICES ASSUME NEW c \in Borrowed, In(c)' PROVE FALSE
    BY DEF UnderBorrow
  <2>1. Len(stack) - 1 \in 1..Len(stack) - 1
    BY <1>1, <1>2 DEF In
  <2> QED
    BY <1>2, <1>3, <2>1 DEF In, ReentrancyInv, InnermostOnly
<1> QED
  BY <1>2, <1>4, <1>5

\* Every step keeps the invariant.
LEMMA InvStep ==
    ASSUME Fatal \cap Borrowed = {}, ReentrancyInv, [Next]_vars
    PROVE  ReentrancyInv'
<1> USE DEF requestVars
<1>1. PhpCode => ~UnderBorrow /\ borrow = "free" /\ request = "runs"
  BY DEF PhpCode, UnderBorrow, ReentrancyInv, BorrowHeld
<1>2. UNCHANGED stack => (UnderBorrow' <=> UnderBorrow) /\ (InnermostOnly' <=> InnermostOnly)
  BY DEF UnderBorrow, In, InnermostOnly
<1>3. stack = <<>> => ~UnderBorrow
  BY DEF UnderBorrow, In
<1>4. stack' = <<>> => ~UnderBorrow' /\ InnermostOnly'
  BY DEF UnderBorrow, In, InnermostOnly
<1>5. CASE Initialize
  <2>1. stack' \in Seq(Outcalls) /\ InnermostOnly' /\ UnderBorrow'
    BY <1>1, <1>5, PushFacts DEF Initialize, Push, Borrowed, Outcalls
  <2> QED
    BY <1>1, <1>5, <2>1 DEF Initialize, Borrow, ReentrancyInv, BorrowHeld, LoopBacked
<1>6. ASSUME NEW result, Autoloaded(result) PROVE ReentrancyInv'
  <2>1. stack # <<>> /\ stack' \in Seq(Outcalls) /\ InnermostOnly' /\ ~UnderBorrow'
    BY <1>6, PopFacts DEF Autoloaded, In
  <2>2. CASE result = "made"
    BY <1>6, <2>1, <2>2 DEF Autoloaded, Register, ReentrancyInv, BorrowHeld, LoopBacked
  <2>3. CASE result # "made"
    BY <1>6, <2>1, <2>3 DEF Autoloaded, Register, ReentrancyInv, BorrowHeld, LoopBacked
  <2> QED
    BY <2>2, <2>3
<1>7. CASE Spawn
  <2>1. stack' \in Seq(Outcalls) /\ InnermostOnly' /\ UnderBorrow'
    BY <1>1, <1>7, PushFacts DEF Spawn, Push, Borrowed, Outcalls
  <2> QED
    BY <1>1, <1>7, <2>1 DEF Spawn, Borrow, ReentrancyInv, BorrowHeld, LoopBacked
<1>8. ASSUME NEW suspension, Spawned(suspension) PROVE ReentrancyInv'
  <2>1. stack # <<>> /\ stack' \in Seq(Outcalls) /\ InnermostOnly' /\ ~UnderBorrow'
    BY <1>8, PopFacts DEF Spawned, In
  <2> QED
    BY <1>8, <2>1 DEF Spawned, ReentrancyInv, BorrowHeld, LoopBacked
<1>9. CASE Resumed
  BY <1>2, <1>9 DEF Resumed, ReentrancyInv, BorrowHeld, LoopBacked
<1>10. CASE Interrupted
  BY <1>1, <1>2, <1>10 DEF Interrupted, Borrow, ReentrancyInv, BorrowHeld, LoopBacked
<1>11. CASE Wakeup
  <2>1. stack' \in Seq(Outcalls) /\ InnermostOnly' /\ ~UnderBorrow'
    BY <1>1, <1>11, PushFacts DEF Wakeup, Push, Borrowed, Outcalls
  <2> QED
    BY <1>1, <1>11, <2>1 DEF Wakeup, Borrow, AfterBorrow, ReentrancyInv, BorrowHeld, LoopBacked
<1>12. CASE Shutdown
  <2>1. stack' \in Seq(Outcalls) /\ InnermostOnly' /\ ~UnderBorrow'
    BY <1>1, <1>12, PushFacts DEF Shutdown, Push, Borrowed, Outcalls
  <2> QED
    BY <1>1, <1>12, <2>1 DEF Shutdown, Borrow, AfterBorrow, ReentrancyInv, BorrowHeld, LoopBacked
<1>13. CASE Pending
  BY <1>1, <1>2, <1>13 DEF Pending, Borrow, ReentrancyInv, BorrowHeld, LoopBacked
<1>14. CASE Return
  <2>1. stack' \in Seq(Outcalls) /\ InnermostOnly' /\ ~UnderBorrow'
    BY <1>14, PopFacts DEF Return
  <2> QED
    BY <1>1, <1>14, <2>1 DEF Return, ReentrancyInv, BorrowHeld, LoopBacked
<1>15. CASE ScriptEnds
  BY <1>1, <1>2, <1>15 DEF ScriptEnds, ReentrancyInv, BorrowHeld, LoopBacked
<1>16. CASE FatalError
  <2>1. ~UnderBorrow
    BY <1>3, <1>16 DEF FatalError, UnderBorrow, In
  <2>2. stack' = <<>> /\ borrow' = "free"
    BY <1>16, <2>1 DEF FatalError, ReentrancyInv, BorrowHeld
  <2> QED
    BY <1>4, <1>16, <2>2 DEF FatalError, ReentrancyInv, BorrowHeld, LoopBacked
<1>17. CASE RequestEnd
  <2>1. stack = <<>> /\ borrow = "free"
    BY <1>3, <1>17 DEF RequestEnd, ReentrancyInv, BorrowHeld, LoopBacked
  <2> QED
    BY <1>2, <1>17, <2>1 DEF RequestEnd, Borrow, ReentrancyInv, BorrowHeld, LoopBacked
<1>18. CASE NextRequest
  BY <1>2, <1>18 DEF NextRequest, ReentrancyInv, BorrowHeld, LoopBacked
<1>19. CASE UNCHANGED vars
  BY <1>2, <1>19 DEF vars, ReentrancyInv, BorrowHeld, LoopBacked
<1> QED
  BY <1>5, <1>6, <1>7, <1>8, <1>9, <1>10, <1>11, <1>12, <1>13, <1>14, <1>15, <1>16, <1>17,
     <1>18, <1>19 DEF Next

\* It always holds.
LEMMA InvHolds ==
    ASSUME Fatal \cap Borrowed = {}
    PROVE  Spec => []ReentrancyInv
<1>1. Init => ReentrancyInv
  BY DEF Init, ReentrancyInv, BorrowHeld, UnderBorrow, In, InnermostOnly, LoopBacked
<1>2. ReentrancyInv /\ [Next]_vars => ReentrancyInv'
  BY InvStep
<1> QED
  BY <1>1, <1>2, PTL DEF Spec

\* However deep PHP code re-enters php-tokio from what wakeup(), drain() and shutdown()
\* call, no borrow of EVENTLOOP fails (event_loop.rs:414, 459, 472, 498, 527, 545, 672).
THEOREM BorrowsNeverNest ==
    ASSUME Fatal \cap Borrowed = {}
    PROVE  Spec => []NeverBorrowedTwice
<1>1. ReentrancyInv => NeverBorrowedTwice
  BY DEF ReentrancyInv, NeverBorrowedTwice
<1> QED
  BY <1>1, InvHolds, PTL

\* The thread enters no request with the event loop of another one (event_loop.rs:54-63,
\* 572-579).
THEOREM LoopsEndWithTheirRequest ==
    ASSUME Fatal \cap Borrowed = {}
    PROVE  Spec => []NoLoopOutlivesRequest
<1>1. ReentrancyInv => NoLoopOutlivesRequest
  BY DEF ReentrancyInv, NoLoopOutlivesRequest, LoopBacked
<1> QED
  BY <1>1, InvHolds, PTL

\* The stack of calls into PHP stays within its bound, and a caller that returns was there
\* (event_loop.rs:414-464, 544-558).
THEOREM TypeCorrect == Spec => []TypeOK
<1> USE ReentrancyAssumption
<1>1. Init => TypeOK
  BY DEF Init, TypeOK, Outcalls, Borrowed
<1>2. TypeOK /\ [Next]_vars => TypeOK'
  <2> SUFFICES ASSUME TypeOK, [Next]_vars PROVE TypeOK'
    OBVIOUS
  <2>1. \A c \in Outcalls : Push(c) => stack' \in Seq(Outcalls) /\ Len(stack') <= MaxDepth
    BY DEF TypeOK, Push
  <2>2. ASSUME stack # <<>> PROVE Pop \in Seq(Outcalls) /\ Len(Pop) <= MaxDepth
    <3>1. Pop \in Seq(Outcalls) /\ Len(Pop) = Len(stack) - 1
      BY <2>2, PopShorter DEF TypeOK
    <3>2. Len(stack) \in Nat /\ Len(stack) <= MaxDepth
      BY DEF TypeOK
    <3> QED
      BY <3>1, <3>2
  <2>3. CASE Initialize \/ Spawn \/ Wakeup \/ Shutdown
    BY <2>1, <2>3 DEF TypeOK, Initialize, Spawn, Wakeup, Shutdown, Borrow, AfterBorrow, Outcalls,
                      Borrowed, requestVars
  <2>4. ASSUME NEW result \in {"missing", "failed", "made"}, Autoloaded(result) PROVE TypeOK'
    BY <2>2, <2>4 DEF TypeOK, Autoloaded, In, Register
  <2>5. ASSUME NEW suspension \in BOOLEAN, Spawned(suspension) PROVE TypeOK'
    BY <2>2, <2>5 DEF TypeOK, Spawned, In, requestVars
  <2>6. CASE Return
    BY <2>2, <2>6 DEF TypeOK, Return, requestVars
  <2>7. CASE Resumed \/ Interrupted \/ Pending \/ UNCHANGED vars
    BY <2>7 DEF TypeOK, Resumed, Interrupted, Pending, Borrow, requestVars, vars
  <2>8. CASE ScriptEnds \/ RequestEnd \/ NextRequest
    BY <2>8 DEF TypeOK, ScriptEnds, RequestEnd, NextRequest, Borrow
  <2>9. CASE FatalError
    <3>1. stack' = <<>> /\ stack' \in Seq(Outcalls) /\ Len(stack') = 0
      BY <2>9 DEF FatalError
    <3> QED
      BY <2>9, <3>1 DEF TypeOK, FatalError
  <2> QED
    BY <2>3, <2>4, <2>5, <2>6, <2>7, <2>8, <2>9 DEF Next
<1> QED
  BY <1>1, <1>2, PTL DEF Spec

=============================================================================
