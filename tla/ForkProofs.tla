---------------------------- MODULE ForkProofs ----------------------------
(***************************************************************************)
(* Proofs about Fork, for any number of processes, calls and event loops.  *)
(***************************************************************************)
EXTENDS Fork, FiniteSetTheorems, TLAPS

-----------------------------------------------------------------------------
(* Type correctness.                                                       *)

\* Updating a process's memory keeps its type.
LEMMA MemoryType ==
    ASSUME NEW T, NEW g \in [Processes -> T], NEW p \in Processes, NEW v \in T
    PROVE  [g EXCEPT ![p] = v] \in [Processes -> T]
OBVIOUS

\* So does updating one entry of a table in it.
LEMMA TableType ==
    ASSUME NEW S, NEW T, NEW g \in [Processes -> [S -> T]], NEW p \in Processes, NEW x, NEW v \in T
    PROVE  [g EXCEPT ![p][x] = v] \in [Processes -> [S -> T]]
OBVIOUS

\* A forked process's memory has the type of its parent's.
LEMMA InheritsType ==
    ASSUME NEW T, NEW g \in [Processes -> T], NEW p \in Processes, NEW q \in Processes
    PROVE  Inherits(g, p, q) \in [Processes -> T]
BY DEF Inherits

\* What a completion publishes is well typed.
LEMMA PublishTypes ==
    ASSUME TypeOK, NEW p \in Processes, NEW i \in Ids, Publish(p, i)
    PROVE  /\ completed' \in [Processes -> SUBSET Ids]
           /\ pending' \in [Processes -> {0, 1}]
           /\ socket' \in [Loops -> Nat]
<1>1. CASE Live(p, i)
  <2>1. /\ completed' = [completed EXCEPT ![p] = @ \cup {i}]
        /\ pending' = [pending EXCEPT ![p] = 1]
    BY <1>1 DEF Publish
  <2>2. socket' = socket \/ socket' = [socket EXCEPT ![call[p][i].loop] = @ + 1]
    BY <1>1 DEF Publish
  <2>3. completed' \in [Processes -> SUBSET Ids] /\ pending' \in [Processes -> {0, 1}]
    BY <2>1 DEF TypeOK
  <2>4. socket' \in [Loops -> Nat]
    <3>1. socket \in [Loops -> Nat]
      BY DEF TypeOK
    <3>2. CASE call[p][i].loop \in Loops
      BY <2>2, <3>1, <3>2
    <3>3. CASE call[p][i].loop \notin Loops
      BY <2>2, <3>1, <3>3
    <3> QED
      BY <3>2, <3>3
  <2> QED
    BY <2>3, <2>4
<1>2. CASE ~Live(p, i)
  BY <1>2 DEF Publish, TypeOK
<1> QED
  BY <1>1, <1>2

\* A new event loop is well typed.
LEMMA CreateTypes ==
    ASSUME TypeOK, NEW p \in Processes, NEW from \in RuntimeStates, Create(p, from)
    PROVE  /\ loop' \in [Processes -> 0..MaxLoops]
           /\ runtime' \in [Processes -> [Loops -> RuntimeStates]]
           /\ owner' \in [Loops -> Processes \cup {NoProcess}]
           /\ suspensions' \in [Processes -> SUBSET Ids]
           /\ completed' \in [Processes -> SUBSET Ids]
           /\ pending' \in [Processes -> {0, 1}]
           /\ socket' = socket
<1> USE DEF TypeOK, Create
<1>1. PICK g \in Loops : /\ loop' = [loop EXCEPT ![p] = g]
                         /\ owner' = [owner EXCEPT ![g] = p]
                         /\ runtime' = [runtime EXCEPT ![p][g] = from]
  OBVIOUS
<1>2. g \in 0..MaxLoops
  BY ForkBoundsAssumption DEF Loops
<1>3. runtime' \in [Processes -> [Loops -> RuntimeStates]]
  BY <1>1, TableType
<1>4. loop' \in [Processes -> 0..MaxLoops] /\ owner' \in [Loops -> Processes \cup {NoProcess}]
  BY <1>1, <1>2
<1> QED
  BY <1>3, <1>4

\* Every state is well typed: a process's memory, inherited or its own.
THEOREM TypeCorrect == Spec => []TypeOK
<1> USE ProcessAssumption, KindsAssumption, ForkBoundsAssumption
<1>1. Init => TypeOK
  BY DEF Init, TypeOK, Ids, Loops, CallType, SlotStates, TaskStates, FrameStates, RuntimeStates
<1>2. TypeOK /\ [Next]_vars => TypeOK'
  <2> SUFFICES ASSUME TypeOK, [Next]_vars PROVE TypeOK'
    OBVIOUS
  <2> USE DEF TypeOK, callVars, loopVars, channelVars, phpVars
  <2>1. ASSUME NEW p \in Processes, NEW q \in Processes, Fork(p, q) PROVE TypeOK'
    BY <2>1, InheritsType DEF Fork
  <2>2. ASSUME NEW p \in Processes, InitShared(p) PROVE TypeOK'
    BY <2>2, CreateTypes DEF InitShared, RuntimeStates, SharedRuntime, CreateRuntime
  <2>3. ASSUME NEW p \in Processes, InitWith(p) PROVE TypeOK'
    BY <2>3, CreateTypes DEF InitWith, RuntimeStates
  <2>4. ASSUME NEW p \in Processes, NEW kind \in Kinds, Spawn(p, kind) PROVE TypeOK'
    <3>1. nextId'[p] \in 1..(MaxId + 1) /\ nextId[p] \in Ids /\ loop[p] \in Loops
      <4>1. nextId[p] \in 1..(MaxId + 1) /\ nextId[p] <= MaxId /\ nextId'[p] = nextId[p] + 1
        BY <2>4 DEF Spawn
      <4>2. loop[p] \in 0..MaxLoops /\ loop[p] # 0
        BY <2>4 DEF Spawn, Owned
      <4> QED
        BY <4>1, <4>2 DEF Ids, Loops
    <3>2. [pid |-> p, loop |-> loop[p], kind |-> kind] \in CallType
      BY <3>1 DEF CallType
    <3>3. call' \in [Processes -> [Ids -> CallType]]
      BY <2>4, <3>2, TableType DEF Spawn
    <3>4. nextId' \in [Processes -> 1..(MaxId + 1)] /\ suspensions' \in [Processes -> SUBSET Ids]
      BY <2>4, <3>1 DEF Spawn
    <3>5. /\ task' \in [Processes -> [Ids -> TaskStates]]
          /\ frame' \in [Processes -> [Ids -> FrameStates]]
      BY <2>4, TableType DEF Spawn, TaskStates, FrameStates
    <3> QED
      BY <2>4, <3>3, <3>4, <3>5 DEF Spawn
  <2>5. ASSUME NEW p \in Processes, NEW i \in Ids, Interrupted(p, i) PROVE TypeOK'
    BY <2>5, TableType DEF Interrupted, Idle, FrameStates, SlotStates
  <2>6. ASSUME NEW p \in Processes, NEW i \in Ids, RunResumed(p, i) PROVE TypeOK'
    BY <2>6, TableType DEF RunResumed, Idle, FrameStates, SlotStates
  <2>7. ASSUME NEW p \in Processes, NEW i \in Ids, Return(p, i) PROVE TypeOK'
    BY <2>7, TableType DEF Return, FrameStates, SlotStates
  <2>8. ASSUME NEW p \in Processes, NEW i \in Ids, Finish(p, i) PROVE TypeOK'
    BY <2>8, TableType DEF Finish, TaskStep, TaskStates, SlotStates, RuntimeStates
  <2>9. ASSUME NEW p \in Processes, NEW i \in Ids, Publish(p, i) PROVE TypeOK'
    BY <2>9, TableType, PublishTypes DEF Publish, TaskStep, TaskStates
  <2>10. ASSUME NEW p \in Processes, NEW i \in Ids, TaskDrop(p, i) PROVE TypeOK'
    BY <2>10, TableType DEF TaskDrop, TaskStep, TaskStates, SlotStates, RuntimeStates
  <2>11. ASSUME NEW p \in Processes, Wakeup(p) PROVE TypeOK'
    <3>1. frame' \in [Processes -> [Ids -> FrameStates]]
      BY <2>11 DEF Wakeup, Collect, FrameStates
    <3> QED
      BY <2>11, <3>1 DEF Wakeup, Collect, DrainSocket, Owned, Idle
  <2>12. ASSUME NEW p \in Processes, Shutdown(p) PROVE TypeOK'
    BY <2>12 DEF Shutdown, Owned, Forget, Idle
  <2>13. ASSUME NEW p \in Processes, Release(p) PROVE TypeOK'
    <3>1. runtime' \in [Processes -> [Loops -> RuntimeStates]]
      BY <2>13, TableType DEF Release, RuntimeStates
    <3> QED
      BY <2>13, <3>1 DEF Release
  <2>14. CASE UNCHANGED vars
    BY <2>14 DEF vars
  <2> QED
    BY <2>1, <2>2, <2>3, <2>4, <2>5, <2>6, <2>7, <2>8, <2>9, <2>10, <2>11, <2>12, <2>13,
       <2>14
    DEF Next, TokioStep
<1> QED
  BY <1>1, <1>2, PTL DEF Spec

-----------------------------------------------------------------------------
(* Whose threads, whose socket: ForkInv.                                   *)

\* Only processes that were forked own something.
KnownProcesses ==
    /\ \A g \in Loops : owner[g] \in alive \cup {NoProcess}
    /\ \A p \in Processes : runtimePid[p] \in alive \cup {NoProcess}
    /\ \A p \in Processes, i \in Ids : call[p][i].pid \in alive \cup {NoProcess}

\* A call made in a process was made on an event loop of that process; no call is
\* made on an event loop that isn't created.
CallsOwned ==
    \A p \in Processes, i \in Ids :
        /\ call[p][i].pid = p => owner[call[p][i].loop] = p
        /\ call[p][i].loop \in Loops => owner[call[p][i].loop] # NoProcess

\* A process's event loop uses RUNTIME only if that process created it.
SharedHere ==
    \A p \in Processes, g \in Loops :
        (owner[g] = p /\ runtime[p][g] = "shared") => runtimePid[p] = p

\* At most one caller waits, on the PHP thread, and for a future of its process
\* unless it is over.
WaitsAlone ==
    \A p \in Processes, i \in Ids : frame[p][i] = "wait" =>
        /\ php[p] = "call" /\ (slot[p][i] # "Running" \/ call[p][i].pid = p)
        /\ \A j \in Ids : frame[p][j] = "wait" => i = j

\* What is published or resumed is over.
OverFirst ==
    \A p \in Processes, i \in Ids :
        (\/ frame[p][i] = "resumed" \/ i \in completed[p]
         \/ task[p][i] \in {"publish", "drop", "gone"}) => slot[p][i] # "Running"

\* shutdown() goes on only with an event loop of its process.
ClosingOwned ==
    \A p \in Processes : php[p] = "borrowing" => closing[p] \in Loops /\ owner[closing[p]] = p

\* In the process that owns the event loop, what is in the channel is backed by
\* a byte in the socket, and a suspended caller is registered, its ID being in
\* the channel once its task has published it.
ChannelBacked ==
    \A p \in Processes : (loop[p] # 0 /\ owner[loop[p]] = p) =>
        /\ completed[p] # {} => pending[p] = 1
        /\ pending[p] = 1 => socket[loop[p]] > 0
        /\ \A i \in Ids : (frame[p][i] = "suspended" /\ call[p][i].loop = loop[p]) =>
              /\ i \in suspensions[p]
              /\ task[p][i] \in {"drop", "gone"} => i \in completed[p]

\* In that process, a registered caller is suspended in a call it made on that
\* event loop.
RegisteredHere ==
    \A p \in Processes, i \in Ids :
        (loop[p] # 0 /\ owner[loop[p]] = p /\ i \in suspensions[p]) =>
            frame[p][i] = "suspended" /\ call[p][i].pid = p /\ call[p][i].loop = loop[p]

ForkInv ==
    /\ KnownProcesses /\ CallsOwned /\ SharedHere /\ WaitsAlone /\ OverFirst
    /\ ClosingOwned /\ ChannelBacked /\ RegisteredHere

\* A forked process owns nothing of what it inherits.
LEMMA ForkKeepsInv ==
    ASSUME TypeOK, ForkInv, NEW p \in Processes, NEW q \in Processes, Fork(p, q) PROVE ForkInv'
<1> USE ProcessAssumption, ForkBoundsAssumption
    DEF TypeOK, ForkInv, Inherits, Fork, Idle,
        callVars, loopVars, channelVars, phpVars
<1>1. KnownProcesses'
  BY DEF KnownProcesses
<1>2. CallsOwned'
  BY DEF CallsOwned, KnownProcesses
<1>3. SharedHere'
  BY DEF SharedHere, KnownProcesses
<1>4. WaitsAlone'
  BY DEF WaitsAlone
<1>5. OverFirst'
  BY DEF OverFirst
<1>6. ClosingOwned'
  BY DEF ClosingOwned
<1>7. \A r \in Processes \ {q} :
        /\ loop'[r] = loop[r] /\ completed'[r] = completed[r] /\ pending'[r] = pending[r]
        /\ suspensions'[r] = suspensions[r] /\ frame'[r] = frame[r]
        /\ call'[r] = call[r] /\ task'[r] = task[r]
  OBVIOUS
<1>8. loop'[q] # 0 => owner'[loop'[q]] # q
  <2>1. loop'[q] = loop[p] /\ owner' = owner
    OBVIOUS
  <2> QED
    BY <2>1 DEF KnownProcesses, Loops
<1>9. ChannelBacked'
  BY <1>7, <1>8 DEF ChannelBacked
<1>10. RegisteredHere'
  <2> SUFFICES ASSUME NEW r \in Processes, NEW i \in Ids,
                      loop'[r] # 0, owner'[loop'[r]] = r, i \in suspensions'[r]
               PROVE  frame'[r][i] = "suspended" /\ call'[r][i].pid = r /\ call'[r][i].loop = loop'[r]
    BY DEF RegisteredHere
  <2>1. r # q /\ owner' = owner
    BY <1>8
  <2> QED
    BY <1>7, <2>1 DEF RegisteredHere
<1> QED
  BY <1>1, <1>2, <1>3, <1>4, <1>5, <1>6, <1>9, <1>10

\* A new event loop is its process's, and so is RUNTIME.
LEMMA InitSharedKeepsInv ==
    ASSUME TypeOK, ForkInv, NEW p \in Processes, InitShared(p) PROVE ForkInv'
<1> USE ProcessAssumption, ForkBoundsAssumption
    DEF TypeOK, ForkInv, InitShared, Create, SharedRuntime, CreateRuntime, Idle,
        callVars, loopVars, channelVars, phpVars
<1>1. KnownProcesses'
  BY DEF KnownProcesses
<1>2. CallsOwned'
  BY DEF CallsOwned
<1>3. SharedHere'
  BY DEF SharedHere
<1>4. WaitsAlone'
  BY DEF WaitsAlone
<1>5. OverFirst'
  BY DEF OverFirst
<1>6. ClosingOwned'
  BY DEF ClosingOwned
<1>7. ChannelBacked'
  <2>1. PICK g \in Loops : /\ owner[g] = NoProcess
                           /\ loop' = [loop EXCEPT ![p] = g]
                           /\ owner' = [owner EXCEPT ![g] = p]
    OBVIOUS
  <2>2. \A q \in Processes, i \in Ids : call[q][i].loop # g
    BY <2>1 DEF CallsOwned
  <2>3. \A q \in Processes \ {p} : /\ loop'[q] = loop[q] /\ pending'[q] = pending[q]
                                   /\ completed'[q] = completed[q]
                                   /\ suspensions'[q] = suspensions[q]
    BY <2>1
  <2>4. loop'[p] = g /\ completed'[p] = {} /\ pending'[p] = 0
    BY <2>1
  <2> SUFFICES ASSUME NEW q \in Processes, loop'[q] # 0, owner'[loop'[q]] = q
               PROVE  /\ completed'[q] # {} => pending'[q] = 1
                      /\ pending'[q] = 1 => socket'[loop'[q]] > 0
                      /\ \A i \in Ids : (frame'[q][i] = "suspended" /\ call'[q][i].loop = loop'[q]) =>
                            /\ i \in suspensions'[q]
                            /\ task'[q][i] \in {"drop", "gone"} => i \in completed'[q]
    BY DEF ChannelBacked
  <2>5. CASE q = p
    BY <2>2, <2>4, <2>5
  <2>6. CASE q # p
    <3>1. loop'[q] = loop[q] /\ owner[loop[q]] = q
      BY <2>1, <2>3, <2>6
    <3> QED
      BY <2>3, <2>6, <3>1 DEF ChannelBacked
  <2> QED
    BY <2>5, <2>6
<1>8. RegisteredHere'
  BY DEF RegisteredHere
<1> QED
  BY <1>1, <1>2, <1>3, <1>4, <1>5, <1>6, <1>7, <1>8

\* A new event loop with its own runtime is its process's.
LEMMA InitWithKeepsInv ==
    ASSUME TypeOK, ForkInv, NEW p \in Processes, InitWith(p) PROVE ForkInv'
<1> USE ProcessAssumption, ForkBoundsAssumption
    DEF TypeOK, ForkInv, InitWith, Create, Idle,
        callVars, loopVars, channelVars, phpVars
<1>1. KnownProcesses'
  BY DEF KnownProcesses
<1>2. CallsOwned'
  BY DEF CallsOwned
<1>3. SharedHere'
  BY DEF SharedHere
<1>4. WaitsAlone'
  BY DEF WaitsAlone
<1>5. OverFirst'
  BY DEF OverFirst
<1>6. ClosingOwned'
  BY DEF ClosingOwned
<1>7. ChannelBacked'
  <2>1. PICK g \in Loops : /\ owner[g] = NoProcess
                           /\ loop' = [loop EXCEPT ![p] = g]
                           /\ owner' = [owner EXCEPT ![g] = p]
    OBVIOUS
  <2>2. \A q \in Processes, i \in Ids : call[q][i].loop # g
    BY <2>1 DEF CallsOwned
  <2>3. \A q \in Processes \ {p} : /\ loop'[q] = loop[q] /\ pending'[q] = pending[q]
                                   /\ completed'[q] = completed[q]
                                   /\ suspensions'[q] = suspensions[q]
    BY <2>1
  <2>4. loop'[p] = g /\ completed'[p] = {} /\ pending'[p] = 0
    BY <2>1
  <2> SUFFICES ASSUME NEW q \in Processes, loop'[q] # 0, owner'[loop'[q]] = q
               PROVE  /\ completed'[q] # {} => pending'[q] = 1
                      /\ pending'[q] = 1 => socket'[loop'[q]] > 0
                      /\ \A i \in Ids : (frame'[q][i] = "suspended" /\ call'[q][i].loop = loop'[q]) =>
                            /\ i \in suspensions'[q]
                            /\ task'[q][i] \in {"drop", "gone"} => i \in completed'[q]
    BY DEF ChannelBacked
  <2>5. CASE q = p
    BY <2>2, <2>4, <2>5
  <2>6. CASE q # p
    <3>1. loop'[q] = loop[q] /\ owner[loop[q]] = q
      BY <2>1, <2>3, <2>6
    <3> QED
      BY <2>3, <2>6, <3>1 DEF ChannelBacked
  <2> QED
    BY <2>5, <2>6
<1>8. RegisteredHere'
  BY DEF RegisteredHere
<1> QED
  BY <1>1, <1>2, <1>3, <1>4, <1>5, <1>6, <1>7, <1>8

\* A process makes calls on its own event loop only.
LEMMA SpawnKeepsInv ==
    ASSUME TypeOK, ForkInv, NEW p \in Processes, NEW kind \in Kinds, Spawn(p, kind) PROVE ForkInv'
<1> USE ProcessAssumption, ForkBoundsAssumption
    DEF TypeOK, ForkInv, Spawn, Owned, Idle,
        callVars, loopVars, channelVars, phpVars
<1>1. KnownProcesses'
  BY DEF KnownProcesses
<1>2. CallsOwned'
  BY DEF CallsOwned
<1>3. SharedHere'
  BY DEF SharedHere
<1>4. WaitsAlone'
  BY DEF WaitsAlone
<1>5. OverFirst'
  BY DEF OverFirst
<1>6. ClosingOwned'
  BY DEF ClosingOwned
<1>7. ChannelBacked'
  BY DEF ChannelBacked
<1>8. RegisteredHere'
  BY DEF RegisteredHere
<1> QED
  BY <1>1, <1>2, <1>3, <1>4, <1>5, <1>6, <1>7, <1>8

\* An interrupted caller waits for a future of its process.
LEMMA InterruptedKeepsInv ==
    ASSUME TypeOK, ForkInv, NEW p \in Processes, NEW i \in Ids, Interrupted(p, i) PROVE ForkInv'
<1> USE ProcessAssumption, ForkBoundsAssumption
    DEF TypeOK, ForkInv, Interrupted, Waits, Idle,
        callVars, loopVars, channelVars, phpVars
<1>1. KnownProcesses'
  BY DEF KnownProcesses
<1>2. CallsOwned'
  BY DEF CallsOwned
<1>3. SharedHere'
  BY DEF SharedHere
<1>4. WaitsAlone'
  BY DEF WaitsAlone
<1>5. OverFirst'
  BY DEF OverFirst
<1>6. ClosingOwned'
  BY DEF ClosingOwned
<1>7. ChannelBacked'
  BY DEF ChannelBacked
<1>8. RegisteredHere'
  BY DEF RegisteredHere
<1> QED
  BY <1>1, <1>2, <1>3, <1>4, <1>5, <1>6, <1>7, <1>8

\* A resumed caller has its result, in a copy of its process too.
LEMMA RunResumedKeepsInv ==
    ASSUME TypeOK, ForkInv, NEW p \in Processes, NEW i \in Ids, RunResumed(p, i) PROVE ForkInv'
<1> USE ProcessAssumption, ForkBoundsAssumption
    DEF TypeOK, ForkInv, RunResumed, Idle,
        callVars, loopVars, channelVars, phpVars
<1>1. KnownProcesses'
  BY DEF KnownProcesses
<1>2. CallsOwned'
  BY DEF CallsOwned
<1>3. SharedHere'
  BY DEF SharedHere
<1>4. WaitsAlone'
  BY DEF WaitsAlone, OverFirst
<1>5. OverFirst'
  BY DEF OverFirst
<1>6. ClosingOwned'
  BY DEF ClosingOwned
<1>7. ChannelBacked'
  BY DEF ChannelBacked
<1>8. RegisteredHere'
  BY DEF RegisteredHere
<1> QED
  BY <1>1, <1>2, <1>3, <1>4, <1>5, <1>6, <1>7, <1>8

\* A caller that returns was the one waiting.
LEMMA ReturnKeepsInv ==
    ASSUME TypeOK, ForkInv, NEW p \in Processes, NEW i \in Ids, Return(p, i) PROVE ForkInv'
<1> USE ProcessAssumption, ForkBoundsAssumption
    DEF TypeOK, ForkInv, Return,
        callVars, loopVars, channelVars, phpVars
<1>1. KnownProcesses'
  BY DEF KnownProcesses
<1>2. CallsOwned'
  BY DEF CallsOwned
<1>3. SharedHere'
  BY DEF SharedHere
<1>4. WaitsAlone'
  BY DEF WaitsAlone
<1>5. OverFirst'
  BY DEF OverFirst
<1>6. ClosingOwned'
  BY DEF ClosingOwned
<1>7. ChannelBacked'
  BY DEF ChannelBacked
<1>8. RegisteredHere'
  BY DEF RegisteredHere
<1> QED
  BY <1>1, <1>2, <1>3, <1>4, <1>5, <1>6, <1>7, <1>8

\* The future is over before it is published.
LEMMA FinishKeepsInv ==
    ASSUME TypeOK, ForkInv, NEW p \in Processes, NEW i \in Ids, Finish(p, i) PROVE ForkInv'
<1> USE ProcessAssumption, ForkBoundsAssumption
    DEF TypeOK, ForkInv, Finish, TaskStep,
        callVars, loopVars, channelVars, phpVars
<1>1. KnownProcesses'
  BY DEF KnownProcesses
<1>2. CallsOwned'
  BY DEF CallsOwned
<1>3. SharedHere'
  BY DEF SharedHere
<1>4. WaitsAlone'
  BY DEF WaitsAlone
<1>5. OverFirst'
  BY DEF OverFirst
<1>6. ClosingOwned'
  BY DEF ClosingOwned
<1>7. ChannelBacked'
  BY DEF ChannelBacked
<1>8. RegisteredHere'
  BY DEF RegisteredHere
<1> QED
  BY <1>1, <1>2, <1>3, <1>4, <1>5, <1>6, <1>7, <1>8

\* A published completion is backed by a byte.
LEMMA PublishKeepsInv ==
    ASSUME TypeOK, ForkInv, NEW p \in Processes, NEW i \in Ids, Publish(p, i) PROVE ForkInv'
<1>0. socket' \in [Loops -> Nat]
  BY PublishTypes
<1> USE ProcessAssumption, ForkBoundsAssumption
    DEF TypeOK, ForkInv, Publish, TaskStep,
        callVars, loopVars, channelVars, phpVars
<1>1. KnownProcesses'
  BY DEF KnownProcesses, Live
<1>2. CallsOwned'
  BY DEF CallsOwned, Live
<1>3. SharedHere'
  BY DEF SharedHere, Live
<1>4. WaitsAlone'
  BY DEF WaitsAlone, Live
<1>5. OverFirst'
  BY DEF OverFirst, Live
<1>6. ClosingOwned'
  BY DEF ClosingOwned, Live
<1>7. ChannelBacked'
  <2>1. CASE ~Live(p, i)
    BY <2>1 DEF ChannelBacked, Live
  <2>2. CASE Live(p, i)
    <3>1. /\ completed' = [completed EXCEPT ![p] = @ \cup {i}]
          /\ pending' = [pending EXCEPT ![p] = 1]
          /\ task' = [task EXCEPT ![p][i] = "drop"]
          /\ UNCHANGED <<loop, owner, frame, call, suspensions>>
      BY <2>2
    <3>2. loop[p] # 0 => loop[p] \in Loops
      BY DEF Loops
    <3>3. \A g \in Loops : socket'[g] >= socket[g]
      <4>1. socket' = socket \/ socket' = [socket EXCEPT ![call[p][i].loop] = @ + 1]
        BY <2>2
      <4>2. socket \in [Loops -> Nat]
        OBVIOUS
      <4>3. CASE socket' = socket
        BY <4>2, <4>3
      <4>4. CASE socket' = [socket EXCEPT ![call[p][i].loop] = @ + 1]
        BY <4>2, <4>4
      <4> QED
        BY <4>1, <4>3, <4>4
    <3>4. (loop[p] # 0 /\ pending[p] = 0) => socket'[loop[p]] > 0
      BY <2>2, <3>2 DEF Live
    <3>5. \A q \in Processes : (loop[q] # 0 /\ owner[loop[q]] = q /\ pending'[q] = 1) => socket'[loop[q]] > 0
      <4> SUFFICES ASSUME NEW q \in Processes, loop[q] # 0, owner[loop[q]] = q, pending'[q] = 1
                   PROVE  socket'[loop[q]] > 0
        OBVIOUS
      <4>1. loop[q] \in Loops /\ socket'[loop[q]] \in Int /\ socket[loop[q]] \in Int
        BY <1>0 DEF Loops
      <4>2. CASE pending[q] = 1
        BY <3>3, <4>1, <4>2 DEF ChannelBacked
      <4>3. CASE pending[q] = 0
        BY <3>1, <3>4, <4>3
      <4> QED
        BY <4>2, <4>3
    <3> QED
      BY <3>1, <3>5 DEF ChannelBacked
  <2> QED
    BY <2>1, <2>2
<1>8. RegisteredHere'
  BY DEF RegisteredHere, Live
<1> QED
  BY <1>1, <1>2, <1>3, <1>4, <1>5, <1>6, <1>7, <1>8

\* The end of a task changes nobody's event loop.
LEMMA TaskDropKeepsInv ==
    ASSUME TypeOK, ForkInv, NEW p \in Processes, NEW i \in Ids, TaskDrop(p, i) PROVE ForkInv'
<1> USE ProcessAssumption, ForkBoundsAssumption
    DEF TypeOK, ForkInv, TaskDrop, TaskStep,
        callVars, loopVars, channelVars, phpVars
<1>1. KnownProcesses'
  BY DEF KnownProcesses
<1>2. CallsOwned'
  BY DEF CallsOwned
<1>3. SharedHere'
  BY DEF SharedHere
<1>4. WaitsAlone'
  BY DEF WaitsAlone
<1>5. OverFirst'
  BY DEF OverFirst
<1>6. ClosingOwned'
  BY DEF ClosingOwned
<1>7. ChannelBacked'
  BY DEF ChannelBacked
<1>8. RegisteredHere'
  BY DEF RegisteredHere
<1> QED
  BY <1>1, <1>2, <1>3, <1>4, <1>5, <1>6, <1>7, <1>8

\* Only the owner empties the socket, and resumes what it had.
LEMMA WakeupKeepsInv ==
    ASSUME TypeOK, ForkInv, NEW p \in Processes, Wakeup(p) PROVE ForkInv'
<1> USE ProcessAssumption, ForkBoundsAssumption
    DEF TypeOK, ForkInv, Wakeup, Collect, DrainSocket, Owned, Idle,
        callVars, loopVars, channelVars, phpVars
<1>1. KnownProcesses'
  BY DEF KnownProcesses
<1>2. CallsOwned'
  BY DEF CallsOwned
<1>3. SharedHere'
  BY DEF SharedHere
<1>4. WaitsAlone'
  BY DEF WaitsAlone
<1>5. OverFirst'
  BY DEF OverFirst
<1>6. ClosingOwned'
  BY DEF ClosingOwned
<1>7. ChannelBacked'
  BY DEF ChannelBacked
<1>8. RegisteredHere'
  BY DEF RegisteredHere
<1> QED
  BY <1>1, <1>2, <1>3, <1>4, <1>5, <1>6, <1>7, <1>8

\* An event loop of another process is forgotten.
LEMMA ShutdownKeepsInv ==
    ASSUME TypeOK, ForkInv, NEW p \in Processes, Shutdown(p) PROVE ForkInv'
<1> USE ProcessAssumption, ForkBoundsAssumption
    DEF TypeOK, ForkInv, Shutdown, Owned, Forget, Idle,
        callVars, loopVars, channelVars, phpVars
<1>1. KnownProcesses'
  BY DEF KnownProcesses
<1>2. CallsOwned'
  BY DEF CallsOwned
<1>3. SharedHere'
  BY DEF SharedHere
<1>4. WaitsAlone'
  BY DEF WaitsAlone
<1>5. OverFirst'
  BY DEF OverFirst
<1>6. ClosingOwned'
  BY DEF ClosingOwned, Loops
<1>7. ChannelBacked'
  BY DEF ChannelBacked
<1>8. RegisteredHere'
  BY DEF RegisteredHere
<1> QED
  BY <1>1, <1>2, <1>3, <1>4, <1>5, <1>6, <1>7, <1>8

\* Releasing the runtime changes nobody's event loop.
LEMMA ReleaseKeepsInv ==
    ASSUME TypeOK, ForkInv, NEW p \in Processes, Release(p) PROVE ForkInv'
<1> USE ProcessAssumption, ForkBoundsAssumption
    DEF TypeOK, ForkInv, Release,
        callVars, loopVars, channelVars, phpVars
<1>1. KnownProcesses'
  BY DEF KnownProcesses
<1>2. CallsOwned'
  BY DEF CallsOwned
<1>3. SharedHere'
  BY DEF SharedHere
<1>4. WaitsAlone'
  BY DEF WaitsAlone
<1>5. OverFirst'
  BY DEF OverFirst
<1>6. ClosingOwned'
  BY DEF ClosingOwned
<1>7. ChannelBacked'
  BY DEF ChannelBacked
<1>8. RegisteredHere'
  BY DEF RegisteredHere
<1> QED
  BY <1>1, <1>2, <1>3, <1>4, <1>5, <1>6, <1>7, <1>8

\* ForkInv is inductive.
LEMMA ForkInvariant == Spec => []ForkInv
<1>1. Init => ForkInv
  BY ProcessAssumption
  DEF Init, ForkInv, NoCall, KnownProcesses, CallsOwned, SharedHere, WaitsAlone, OverFirst,
      ClosingOwned, ChannelBacked, RegisteredHere, Loops
<1>2. TypeOK /\ ForkInv /\ [Next]_vars => ForkInv'
  <2> SUFFICES ASSUME TypeOK, ForkInv, [Next]_vars PROVE ForkInv'
    OBVIOUS
  <2>1. ASSUME NEW p \in Processes, NEW q \in Processes, Fork(p, q) PROVE ForkInv'
    BY <2>1, ForkKeepsInv
  <2>2. ASSUME NEW p \in Processes, InitShared(p) PROVE ForkInv'
    BY <2>2, InitSharedKeepsInv
  <2>3. ASSUME NEW p \in Processes, InitWith(p) PROVE ForkInv'
    BY <2>3, InitWithKeepsInv
  <2>4. ASSUME NEW p \in Processes, NEW kind \in Kinds, Spawn(p, kind) PROVE ForkInv'
    BY <2>4, SpawnKeepsInv
  <2>5. ASSUME NEW p \in Processes, NEW i \in Ids, Interrupted(p, i) PROVE ForkInv'
    BY <2>5, InterruptedKeepsInv
  <2>6. ASSUME NEW p \in Processes, NEW i \in Ids, RunResumed(p, i) PROVE ForkInv'
    BY <2>6, RunResumedKeepsInv
  <2>7. ASSUME NEW p \in Processes, NEW i \in Ids, Return(p, i) PROVE ForkInv'
    BY <2>7, ReturnKeepsInv
  <2>8. ASSUME NEW p \in Processes, NEW i \in Ids, Finish(p, i) PROVE ForkInv'
    BY <2>8, FinishKeepsInv
  <2>9. ASSUME NEW p \in Processes, NEW i \in Ids, Publish(p, i) PROVE ForkInv'
    BY <2>9, PublishKeepsInv
  <2>10. ASSUME NEW p \in Processes, NEW i \in Ids, TaskDrop(p, i) PROVE ForkInv'
    BY <2>10, TaskDropKeepsInv
  <2>11. ASSUME NEW p \in Processes, Wakeup(p) PROVE ForkInv'
    BY <2>11, WakeupKeepsInv
  <2>12. ASSUME NEW p \in Processes, Shutdown(p) PROVE ForkInv'
    BY <2>12, ShutdownKeepsInv
  <2>13. ASSUME NEW p \in Processes, Release(p) PROVE ForkInv'
    BY <2>13, ReleaseKeepsInv
  <2>14. CASE UNCHANGED vars
    BY <2>14 DEF vars, callVars, loopVars, channelVars, phpVars, ForkInv, KnownProcesses, CallsOwned,
       SharedHere, WaitsAlone, OverFirst, ClosingOwned, ChannelBacked, RegisteredHere
  <2> QED
    BY <2>1, <2>2, <2>3, <2>4, <2>5, <2>6, <2>7, <2>8, <2>9, <2>10, <2>11, <2>12, <2>13,
       <2>14
    DEF Next, TokioStep
<1> QED
  BY <1>1, <1>2, TypeCorrect, PTL DEF Spec

\* No child strands a caller of its parent: the wakeup stays in the socket until
\* the owner takes it (event_loop.rs:469-479, 499).
THEOREM WakeupsSurviveForks == Spec => []WakeupSurvivesFork
<1>1. TypeOK /\ ForkInv => WakeupSurvivesFork
  BY DEF TypeOK, ForkInv, ChannelBacked, WakeupSurvivesFork, Live
<1> QED
  BY <1>1, TypeCorrect, ForkInvariant, PTL

\* The threads of an event loop of a process are in that process.
LEMMA OwnerHasThreads ==
    ASSUME ForkInv, NEW p \in Processes, NEW g \in Loops, owner[g] = p
    PROVE  ThreadsIn(p, g)
BY DEF ForkInv, SharedHere, ThreadsIn

\* A process's futures run on its own threads (event_loop.rs:418, 604-612).
THEOREM FuturesRunInTheirProcess == Spec => []FuturesRunHere
<1>1. ASSUME TypeOK, ForkInv, NEW p \in Processes, NEW i \in Ids, call[p][i].pid = p
      PROVE  ThreadsIn(p, call[p][i].loop)
  <2>1. call[p][i] # NoCall
    BY <1>1, ProcessAssumption DEF NoCall
  <2>2. call[p][i].loop \in Loops
    BY <1>1, <2>1 DEF TypeOK, CallType
  <2> QED
    BY <1>1, <2>2, OwnerHasThreads DEF ForkInv, CallsOwned
<1>2. TypeOK /\ ForkInv => FuturesRunHere
  BY <1>1 DEF FuturesRunHere
<1> QED
  BY <1>2, TypeCorrect, ForkInvariant, PTL

\* No PHP thread waits for threads that its process doesn't have
\* (event_loop.rs:369-380, 547-553).
THEOREM WaitsAreBounded == Spec => []WaitIsBounded
<1>1. ForkInv /\ FuturesRunHere => WaitIsBounded
  BY OwnerHasThreads DEF ForkInv, WaitsAlone, ClosingOwned, FuturesRunHere, WaitIsBounded
<1> QED
  BY <1>1, FuturesRunInTheirProcess, ForkInvariant, PTL

\* Only the process that built a runtime releases it (event_loop.rs:547-556).
THEOREM RuntimesReleasedAtHome == Spec => ReleasedByItsProcess
<1> DEFINE Home == \A p \in alive, g \in Loops : runtime'[p][g] # runtime[p][g] => owner'[g] = p
<1>1. ASSUME TypeOK, ForkInv, Next PROVE Home
  <2> USE DEF TypeOK, callVars, loopVars, channelVars, phpVars
  <2>1. ASSUME NEW p \in Processes, NEW q \in Processes, Fork(p, q) PROVE Home
    BY <2>1 DEF Fork, Inherits
  <2>2. ASSUME NEW p \in Processes, InitShared(p) \/ InitWith(p) PROVE Home
    <3>1. PICK from \in RuntimeStates : Create(p, from)
      BY <2>2 DEF InitShared, InitWith, RuntimeStates
    <3>2. PICK g \in Loops : /\ owner' = [owner EXCEPT ![g] = p]
                             /\ runtime' = [runtime EXCEPT ![p][g] = from]
      BY <3>1 DEF Create
    <3> QED
      BY <1>1, <3>2
  <2>3. ASSUME NEW p \in Processes, NEW i \in Ids, TaskDrop(p, i) PROVE Home
    BY <2>3 DEF TaskDrop, TaskStep, ThreadsIn
  <2>4. ASSUME NEW p \in Processes, Release(p) PROVE Home
    BY <1>1, <2>4 DEF Release, ForkInv, ClosingOwned
  <2>5. ASSUME NEW p \in Processes, NEW kind \in Kinds, Spawn(p, kind) PROVE Home
    BY <2>5 DEF Spawn
  <2>6. ASSUME NEW p \in Processes, NEW i \in Ids,
               Interrupted(p, i) \/ RunResumed(p, i) \/ Return(p, i) PROVE Home
    BY <2>6 DEF Interrupted, RunResumed, Return
  <2>7. ASSUME NEW p \in Processes, NEW i \in Ids, Finish(p, i) \/ Publish(p, i) PROVE Home
    BY <2>7 DEF Finish, Publish
  <2>8. ASSUME NEW p \in Processes, Wakeup(p) \/ Shutdown(p) PROVE Home
    BY <2>8 DEF Wakeup, Collect, Shutdown, Forget
  <2> QED
    BY <1>1, <2>1, <2>2, <2>3, <2>4, <2>5, <2>6, <2>7, <2>8 DEF Next, TokioStep
<1>2. TypeOK /\ ForkInv /\ [Next]_vars => [Home]_vars
  BY <1>1
<1> QED
  BY <1>2, TypeCorrect, ForkInvariant, PTL DEF Spec, ReleasedByItsProcess

\* pending() counts callers that this process resumes (event_loop.rs:525-532).
THEOREM PendingCountsOwnCallers == Spec => []PendingIsHere
<1>1. ASSUME TypeOK, ForkInv, NEW p \in alive
      PROVE  Pending(p) <= Cardinality({i \in Ids : /\ frame[p][i] = "suspended"
                                                   /\ call[p][i].pid = p /\ Live(p, i)})
  <2> DEFINE Mine == {i \in Ids : frame[p][i] = "suspended" /\ call[p][i].pid = p /\ Live(p, i)}
  <2>1. IsFiniteSet(Ids)
    BY FS_Interval, ForkBoundsAssumption DEF Ids
  <2>2. IsFiniteSet(Mine) /\ Cardinality(Mine) \in Nat
    BY <2>1, FS_Subset, FS_CardinalityType
  <2>3. CASE Owned(p)
    <3>1. suspensions[p] \subseteq Mine
      BY <1>1, <2>3 DEF TypeOK, ForkInv, RegisteredHere, Owned, Live
    <3> QED
      BY <2>2, <2>3, <3>1, FS_Subset DEF Pending
  <2>4. CASE ~Owned(p)
    BY <2>2, <2>4 DEF Pending
  <2> QED
    BY <2>3, <2>4
<1>2. TypeOK /\ ForkInv => PendingIsHere
  BY <1>1 DEF PendingIsHere
<1> QED
  BY <1>2, TypeCorrect, ForkInvariant, PTL
=============================================================================
