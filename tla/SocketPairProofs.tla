--------------------------- MODULE SocketPairProofs ---------------------------
(***************************************************************************)
(* Proofs about SocketPair, for any number of threads that create pairs at *)
(* once, any connections of other processes and any backlog.               *)
(***************************************************************************)
EXTENDS SocketPair, TLAPS

-----------------------------------------------------------------------------
(* Types.                                                                  *)

\* What a connection that comes and one that is accepted do to the backlogs.
LEMMA BacklogTypes ==
    ASSUME TypeOK, NEW t \in Threads
    PROVE  /\ \A c \in Connections : Enqueue(t, c) =>
                  /\ backlog' \in [Threads -> Seq(Connections)]
                  /\ \A u \in Threads : Len(backlog'[u]) <= Places(u)
           /\ (backlog[t] # <<>> /\ backlog' = [backlog EXCEPT ![t] = Tail(@)]) =>
                  /\ backlog' \in [Threads -> Seq(Connections)]
                  /\ \A u \in Threads : Len(backlog'[u]) <= Places(u)
                  /\ Head(backlog[t]) \in Connections
<1> USE PairAssumption
<1>1. backlog \in [Threads -> Seq(Connections)] /\ \A u \in Threads : Len(backlog[u]) <= Places(u)
  BY DEF TypeOK
<1>2. Places(t) \in Nat /\ Len(backlog[t]) \in Nat
  BY <1>1 DEF Places
<1>3. ASSUME NEW c \in Connections, Enqueue(t, c)
      PROVE  /\ backlog' \in [Threads -> Seq(Connections)]
             /\ \A u \in Threads : Len(backlog'[u]) <= Places(u)
  <2>1. Append(backlog[t], c) \in Seq(Connections) /\ Len(Append(backlog[t], c)) <= Places(t)
    BY <1>1, <1>2, <1>3 DEF Enqueue, Room
  <2> QED
    BY <1>1, <1>3, <2>1 DEF Enqueue
<1>4. ASSUME backlog[t] # <<>>, backlog' = [backlog EXCEPT ![t] = Tail(@)]
      PROVE  /\ backlog' \in [Threads -> Seq(Connections)]
             /\ \A u \in Threads : Len(backlog'[u]) <= Places(u)
             /\ Head(backlog[t]) \in Connections
  <2>1. /\ Tail(backlog[t]) \in Seq(Connections) /\ Head(backlog[t]) \in Connections
        /\ Len(Tail(backlog[t])) <= Places(t)
    BY <1>1, <1>2, <1>4
  <2> QED
    BY <1>1, <1>4, <2>1
<1> QED
  BY <1>3, <1>4

\* The backlogs stay within what the kernel keeps, also after unix_pair()'s listener
\* made way for tcp_pair()'s: connect() of our own writer is refused beyond it
\* (windows.rs:55-57, 101-102).
THEOREM TypeCorrect == Spec => []TypeOK
<1> USE PairAssumption DEF Connections, UnixCalls, TcpCalls
<1>1. Init => TypeOK
  BY DEF Init, TypeOK, Places
<1>2. TypeOK /\ [Next]_vars => TypeOK'
  <2> SUFFICES ASSUME TypeOK, [Next]_vars PROVE TypeOK'
    OBVIOUS
  <2>1. ASSUME NEW f \in Foreign, Connects(f) PROVE TypeOK'
    <3>1. PICK t \in Threads : Enqueue(t, f)
      BY <2>1 DEF Connects
    <3>2. /\ backlog' \in [Threads -> Seq(Connections)]
          /\ \A u \in Threads : Len(backlog'[u]) <= Places(u)
      BY <3>1, BacklogTypes
    <3> QED
      BY <2>1, <3>2 DEF TypeOK, Connects, Places
  <2>2. ASSUME NEW t \in Threads, Bind(t) \/ Listen(t) \/ TcpBind(t) PROVE TypeOK'
    <3>1. backlog' = backlog /\ \A u \in Threads : Places(u)' = Places(u)
      BY <2>2 DEF TypeOK, Bind, Listen, TcpBind, Places
    <3>2. \A u \in Threads : Len(backlog'[u]) <= Places(u)'
      BY <3>1 DEF TypeOK
    <3>3. /\ pc' \in [Threads -> UnixCalls \cup TcpCalls \cup {"done", "failed"}]
          /\ file' \in [Threads -> Threads \cup {None}]
          /\ UNCHANGED <<came, reader>>
      BY <2>2 DEF TypeOK, Bind, Listen, TcpBind, Name
    <3> QED
      BY <3>1, <3>2, <3>3 DEF TypeOK
  <2>3. ASSUME NEW t \in Threads, Connect(t) \/ TcpConnect(t) PROVE TypeOK'
    <3>1. \E u \in Threads : Enqueue(u, t)
      BY <2>3 DEF Connect, TcpConnect, TypeOK, Name
    <3>2. /\ backlog' \in [Threads -> Seq(Connections)]
          /\ \A u \in Threads : Len(backlog'[u]) <= Places(u)
      BY <3>1, BacklogTypes
    <3>3. \A u \in Threads : Places(u)' = Places(u)
      BY <2>3 DEF TypeOK, Connect, TcpConnect, Places
    <3>4. \A u \in Threads : Len(backlog'[u]) <= Places(u)'
      BY <3>2, <3>3
    <3>5. /\ pc' \in [Threads -> UnixCalls \cup TcpCalls \cup {"done", "failed"}]
          /\ UNCHANGED <<file, came, reader>>
      BY <2>3 DEF TypeOK, Connect, TcpConnect
    <3> QED
      BY <3>2, <3>4, <3>5 DEF TypeOK
  <2>4. ASSUME NEW t \in Threads, Accept(t) \/ TcpAccept(t) PROVE TypeOK'
    <3>1. /\ backlog' \in [Threads -> Seq(Connections)]
          /\ \A u \in Threads : Len(backlog'[u]) <= Places(u)
          /\ Head(backlog[t]) \in Connections
      BY <2>4, BacklogTypes DEF Accept, TcpAccept
    <3>2. \A u \in Threads : Places(u)' = Places(u)
      BY <2>4 DEF TypeOK, Accept, TcpAccept, Places
    <3>3. \A u \in Threads : Len(backlog'[u]) <= Places(u)'
      BY <3>1, <3>2
    <3>4. /\ pc' \in [Threads -> UnixCalls \cup TcpCalls \cup {"done", "failed"}]
          /\ reader' \in [Threads -> Connections \cup {None}]
          /\ UNCHANGED <<file, came>>
      <4>1. CASE Accept(t)
        BY <3>1, <4>1 DEF TypeOK, Accept
      <4>2. CASE TcpAccept(t)
        <5>1. CASE Mine(t, Head(backlog[t]))
          <6>1. /\ pc' = [pc EXCEPT ![t] = "nodelay"]
                /\ reader' = [reader EXCEPT ![t] = Head(backlog[t])]
                /\ UNCHANGED <<file, came>>
            BY <4>2, <5>1 DEF TcpAccept
          <6>2. "nodelay" \in UnixCalls \cup TcpCalls
            OBVIOUS
          <6> QED
            BY <3>1, <6>1, <6>2 DEF TypeOK
        <5>2. CASE ~Mine(t, Head(backlog[t]))
          BY <4>2, <5>2 DEF TypeOK, TcpAccept
        <5> QED
          BY <5>1, <5>2
      <4> QED
        BY <2>4, <4>1, <4>2
    <3> QED
      BY <3>1, <3>3, <3>4 DEF TypeOK
  <2>5. ASSUME NEW t \in Threads, PeerPid(t) \/ UnixFails(t) \/ Nodelay(t) \/ TcpFails(t)
        PROVE  TypeOK'
    <3>1. backlog' = [backlog EXCEPT ![t] = <<>>] /\ Places(t)' \in Nat
      BY <2>5 DEF PeerPid, UnixFails, ReturnUnix, Nodelay, TcpFails, ReturnTcp, Places
    <3>2. \A u \in Threads \ {t} : Places(u)' = Places(u)
      BY <2>5 DEF TypeOK, PeerPid, UnixFails, ReturnUnix, Nodelay, TcpFails, ReturnTcp, Places
    <3>3. <<>> \in Seq(Connections) /\ Len(<<>>) <= Places(t)'
      BY <3>1
    <3>4. /\ backlog' \in [Threads -> Seq(Connections)]
          /\ \A u \in Threads : Len(backlog'[u]) <= Places(u)'
      BY <3>1, <3>2, <3>3 DEF TypeOK
    <3>5. CASE PeerPid(t) \/ UnixFails(t)
      BY <3>4, <3>5 DEF TypeOK, PeerPid, UnixFails, ReturnUnix, Delete, Name
    <3>6. CASE Nodelay(t) \/ TcpFails(t)
      BY <3>4, <3>6 DEF TypeOK, Nodelay, TcpFails, ReturnTcp
    <3> QED
      BY <2>5, <3>5, <3>6
  <2>6. CASE UNCHANGED vars
    BY <2>6 DEF TypeOK, vars, Places
  <2> QED
    BY <2>1, <2>2, <2>3, <2>4, <2>5, <2>6 DEF Next, Pair, UnixPair, TcpPair
<1> QED
  BY <1>1, <1>2, PTL DEF Spec

-----------------------------------------------------------------------------
(* The pairs of different threads stay apart.                              *)

\* Behind a thread's file is its own listener, whose backlog no other thread of ours
\* joins: the process ID need not tell them apart.
OwnListener(t) == file[Name(t)] \in {t, None} /\ Queued(t) \subseteq Foreign \cup {t}

\* What it accepted is foreign or its own, and its own once checked.
OwnReader(t) == /\ pc[t] = "peer_pid" => reader[t] \in Foreign \cup {t}
                /\ pc[t] \in {"nodelay", "done"} => reader[t] = t

\* Its own connection waits for accept().
OwnQueued(t) == pc[t] \in {"accept", "tcp_accept"} => t \in Queued(t)

ThreadInv(t) == OwnListener(t) /\ OwnReader(t) /\ OwnQueued(t)
PairInv == \A t \in Threads : ThreadInv(t)

\* A connection that joins a backlog is in it, with those that were.
LEMMA EnqueueQueued ==
    ASSUME TypeOK, NEW t \in Threads, NEW c \in Connections, Enqueue(t, c)
    PROVE  Queued(t)' = Queued(t) \cup {c}
<1> DEFINE s == backlog[t]
<1>1. s \in Seq(Connections) /\ backlog'[t] = Append(s, c)
  BY DEF TypeOK, Enqueue
<1>2. Len(backlog'[t]) = Len(s) + 1 /\ Len(s) \in Nat
  BY <1>1
<1>3. backlog'[t][Len(s) + 1] = c /\ \A i \in 1..Len(s) : backlog'[t][i] = s[i]
  BY <1>1
<1>4. c \in Queued(t)' /\ Queued(t) \subseteq Queued(t)'
  BY <1>2, <1>3 DEF Queued
<1>5. ASSUME NEW i \in 1..Len(backlog'[t]) PROVE backlog'[t][i] \in Queued(t) \cup {c}
  <2>1. i \in 1..Len(s) \/ i = Len(s) + 1
    BY <1>2
  <2> QED
    BY <2>1, <1>3 DEF Queued
<1> QED
  BY <1>4, <1>5 DEF Queued

\* The places of a sequence without its first element.
LEMMA TailPlaces ==
    ASSUME NEW S, NEW s \in Seq(S), s # <<>>
    PROVE  /\ Len(Tail(s)) = Len(s) - 1 /\ Len(s) \in Nat \ {0}
           /\ Head(s) = s[1] /\ \A i \in 1..Len(Tail(s)) : Tail(s)[i] = s[i + 1]
<1>1. Len(s) \in Nat /\ Len(s) # 0
  OBVIOUS
<1>2. Len(Tail(s)) = Len(s) - 1
  BY <1>1
<1> QED
  BY <1>1, <1>2

\* Accepting the first one leaves the others.
LEMMA AcceptQueued ==
    ASSUME TypeOK, NEW t \in Threads, backlog[t] # <<>>,
           backlog' = [backlog EXCEPT ![t] = Tail(@)]
    PROVE  /\ Head(backlog[t]) \in Queued(t) /\ Queued(t)' \subseteq Queued(t)
           /\ Queued(t) \ {Head(backlog[t])} \subseteq Queued(t)'
<1> DEFINE s == backlog[t]
<1>1. s \in Seq(Connections) /\ s # <<>> /\ backlog'[t] = Tail(s)
  BY DEF TypeOK
<1>2. Len(backlog'[t]) = Len(s) - 1 /\ Len(s) \in Nat \ {0}
  BY <1>1, TailPlaces
<1>3. Head(s) = s[1] /\ \A i \in 1..Len(backlog'[t]) : backlog'[t][i] = s[i + 1]
  BY <1>1, TailPlaces
<1>4. Head(s) \in Queued(t)
  BY <1>2, <1>3 DEF Queued
<1>5. ASSUME NEW i \in 1..Len(backlog'[t]) PROVE backlog'[t][i] \in Queued(t)
  <2>1. i + 1 \in 1..Len(s)
    BY <1>2
  <2> QED
    BY <1>3, <2>1 DEF Queued
<1>6. ASSUME NEW i \in 1..Len(s), s[i] # Head(s) PROVE s[i] \in Queued(t)'
  <2>1. i # 1 /\ i - 1 \in 1..Len(backlog'[t]) /\ (i - 1) + 1 = i
    BY <1>2, <1>3, <1>6
  <2>2. backlog'[t][i - 1] = s[i]
    BY <1>3, <2>1
  <2> QED
    BY <2>1, <2>2 DEF Queued
<1> QED
  BY <1>4, <1>5, <1>6 DEF Queued

\* A thread that a step leaves alone keeps its part of the invariant.
LEMMA OthersKept ==
    ASSUME NEW u, ThreadInv(u), pc'[u] = pc[u], reader'[u] = reader[u],
           backlog'[u] = backlog[u], file'[u] = file[u]
    PROVE  ThreadInv(u)'
BY DEF ThreadInv, OwnListener, OwnReader, OwnQueued, Queued, Name

\* connect() reaches the thread's own listener: nobody else's is behind its name.
LEMMA ConnectsToOwn ==
    ASSUME TypeOK, PairInv, NEW t \in Threads, Connect(t) \/ TcpConnect(t)
    PROVE  Enqueue(t, t)
BY PairAssumption DEF PairInv, ThreadInv, OwnListener, Connect, TcpConnect

\* A call of pair() changes nothing of the other threads' pairs.
LEMMA PairsApart ==
    ASSUME TypeOK, PairInv, NEW t \in Threads, Pair(t), NEW u \in Threads \ {t}
    PROVE  pc'[u] = pc[u] /\ reader'[u] = reader[u] /\ backlog'[u] = backlog[u] /\ file'[u] = file[u]
<1>1. CASE Connect(t) \/ TcpConnect(t)
  BY <1>1, ConnectsToOwn DEF Enqueue, Connect, TcpConnect, TypeOK
<1>2. CASE Bind(t) \/ Listen(t) \/ TcpBind(t) \/ Accept(t) \/ TcpAccept(t)
  BY <1>2 DEF Bind, Listen, TcpBind, Accept, TcpAccept, Name, TypeOK
<1>3. CASE PeerPid(t) \/ UnixFails(t)
  BY <1>3 DEF PeerPid, UnixFails, ReturnUnix, Delete, Name, TypeOK
<1>4. CASE Nodelay(t) \/ TcpFails(t)
  BY <1>4 DEF Nodelay, TcpFails, ReturnTcp, TypeOK
<1> QED
  BY <1>1, <1>2, <1>3, <1>4 DEF Pair, UnixPair, TcpPair

\* A call of pair() keeps the invariant of its thread.
LEMMA PairKeepsOwn ==
    ASSUME TypeOK, PairInv, NEW t \in Threads, Pair(t)
    PROVE  ThreadInv(t)'
<1> USE DEF ThreadInv, OwnListener, OwnReader, OwnQueued, UnixCalls, TcpCalls, Name
<1>1. ThreadInv(t) /\ t \in Connections
  BY DEF PairInv, Connections
<1>2. CASE Bind(t) \/ Listen(t) \/ TcpBind(t)
  <2>1. Queued(t)' = Queued(t)
    BY <1>2 DEF Bind, Listen, TcpBind, Queued
  <2> QED
    BY <1>1, <1>2, <2>1 DEF Bind, Listen, TcpBind, TypeOK
<1>3. CASE Connect(t) \/ TcpConnect(t)
  <2>1. Queued(t)' = Queued(t) \cup {t}
    BY <1>1, <1>3, ConnectsToOwn, EnqueueQueued
  <2> QED
    BY <1>1, <1>3, <2>1 DEF Connect, TcpConnect, TypeOK
<1>4. CASE Accept(t)
  <2>1. Head(backlog[t]) \in Queued(t) /\ Queued(t)' \subseteq Queued(t)
    BY <1>4, AcceptQueued DEF Accept
  <2> QED
    BY <1>1, <1>4, <2>1 DEF Accept, TypeOK
<1>5. CASE TcpAccept(t)
  <2>1. Queued(t)' \subseteq Queued(t) /\ Queued(t) \ {Head(backlog[t])} \subseteq Queued(t)'
    BY <1>5, AcceptQueued DEF TcpAccept
  <2>2. CASE Mine(t, Head(backlog[t]))
    BY <1>1, <1>5, <2>1, <2>2 DEF TcpAccept, Mine, TypeOK
  <2>3. CASE ~Mine(t, Head(backlog[t]))
    BY <1>1, <1>5, <2>1, <2>3 DEF TcpAccept, Mine, TypeOK
  <2> QED
    BY <2>2, <2>3
<1>6. CASE PeerPid(t) \/ UnixFails(t) \/ Nodelay(t) \/ TcpFails(t)
  <2>1. backlog'[t] = <<>>
    BY <1>6 DEF PeerPid, UnixFails, Nodelay, TcpFails, ReturnUnix, ReturnTcp, TypeOK
  <2>2. Queued(t)' = {}
    BY <2>1 DEF Queued
  <2>3. CASE PeerPid(t)
    BY <1>1, <2>2, <2>3, PairAssumption DEF PeerPid, PidIsOurs, ReturnUnix, Delete, TypeOK
  <2>4. CASE UnixFails(t)
    BY <1>1, <2>2, <2>4 DEF UnixFails, ReturnUnix, Delete, TypeOK
  <2>5. CASE Nodelay(t) \/ TcpFails(t)
    BY <1>1, <2>2, <2>5 DEF Nodelay, TcpFails, ReturnTcp, TypeOK
  <2> QED
    BY <1>6, <2>3, <2>4, <2>5
<1> QED
  BY <1>2, <1>3, <1>4, <1>5, <1>6 DEF Pair, UnixPair, TcpPair

\* A foreign connection joins one thread's backlog.
LEMMA ForeignKeepsPairs ==
    ASSUME TypeOK, PairInv, NEW f \in Foreign, Connects(f)
    PROVE  PairInv'
<1>1. PICK t \in Threads : Enqueue(t, f)
  BY DEF Connects
<1>2. UNCHANGED <<pc, reader, file>> /\ \A u \in Threads \ {t} : backlog'[u] = backlog[u]
  BY <1>1 DEF Connects, Enqueue, TypeOK
<1>3. ASSUME NEW u \in Threads \ {t} PROVE ThreadInv(u)'
  BY <1>2, OthersKept DEF PairInv
<1>4. Queued(t)' = Queued(t) \cup {f}
  BY <1>1, EnqueueQueued DEF Connections
<1>5. ThreadInv(t)'
  BY <1>2, <1>4 DEF PairInv, ThreadInv, OwnListener, OwnReader, OwnQueued, Name
<1> QED
  BY <1>3, <1>5 DEF PairInv

\* The invariant always holds.
LEMMA PairInvariant == Spec => []PairInv
<1>1. Init => PairInv
  <2> SUFFICES ASSUME Init, NEW t \in Threads PROVE ThreadInv(t)
    BY DEF PairInv
  <2>1. backlog[t] = <<>> /\ pc[t] = "bind" /\ file[t] = None
    BY DEF Init
  <2>2. Queued(t) = {}
    BY <2>1 DEF Queued
  <2> QED
    BY <2>1, <2>2 DEF ThreadInv, OwnListener, OwnReader, OwnQueued, Name
<1>2. TypeOK /\ PairInv /\ [Next]_vars => PairInv'
  <2> SUFFICES ASSUME TypeOK, PairInv, [Next]_vars PROVE PairInv'
    OBVIOUS
  <2>1. ASSUME NEW t \in Threads, Pair(t) PROVE PairInv'
    <3>1. ASSUME NEW u \in Threads \ {t} PROVE ThreadInv(u)'
      BY <2>1, PairsApart, OthersKept DEF PairInv
    <3> QED
      BY <2>1, <3>1, PairKeepsOwn DEF PairInv
  <2>2. CASE UNCHANGED vars
    BY <2>2, OthersKept DEF vars, PairInv
  <2> QED
    BY <2>1, <2>2, ForeignKeepsPairs DEF Next
<1> QED
  BY <1>1, <1>2, TypeCorrect, PTL DEF Spec

\* However many threads create pairs at once and whoever connects to their
\* listeners, each pair is connected to itself, though peer_pid() takes any thread
\* of the process for us: only its own connection and foreign ones ever reach a
\* thread's listener (windows.rs:47-64, 100-110).
THEOREM PairIsOurs == Spec => []ConnectedToItself
<1>1. PairInv => ConnectedToItself
  BY DEF PairInv, ThreadInv, OwnReader, ConnectedToItself
<1> QED
  BY <1>1, PairInvariant, PTL

\* accept() always has our connection to find (windows.rs:47-58, 100-110).
THEOREM AcceptNeverBlocks == Spec => []AcceptFindsUs
<1>1. PairInv => AcceptFindsUs
  BY DEF PairInv, ThreadInv, OwnQueued, AcceptFindsUs
<1> QED
  BY <1>1, PairInvariant, PTL
=============================================================================
