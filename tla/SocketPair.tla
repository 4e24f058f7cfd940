------------------------------ MODULE SocketPair ------------------------------
(***************************************************************************)
(* pair() on Windows (src/notify/windows.rs), called by several threads of *)
(* a process at once (EVENTLOOP is thread-local, event_loop.rs:78-80): two *)
(* sockets connected through a listener, first a Unix domain one, then a   *)
(* TCP one on the loopback interface.  Other processes can connect to any  *)
(* of the listeners, at any time; every call can fail, also because of a   *)
(* connection that its process reset.  A thread's writer makes one         *)
(* connection at a time, which is named after the thread.                  *)
(***************************************************************************)
EXTENDS Naturals, Sequences

CONSTANTS Threads,      \* the threads of our process that create a pair
          Foreign,      \* the connections of other processes
          None,         \* no connection, no listener
          UnixBacklog,  \* connections that wait to be accepted
          TcpBacklog

ASSUME PairAssumption ==
    /\ Threads \cap Foreign = {} /\ None \notin Threads \cup Foreign
    /\ UnixBacklog \in Nat \ {0} /\ TcpBacklog \in Nat \ {0}

VARIABLES
    pc,       \* the next call of each thread's pair()
    file,     \* the thread whose listener each socket file was made for
    backlog,  \* the connections to each thread's listener
    came,     \* the foreign connections so far
    reader    \* the connection that each thread accepted

vars == <<pc, file, backlog, came, reader>>

UnixCalls == {"bind", "listen", "connect", "accept", "peer_pid"}
TcpCalls == {"tcp_bind", "tcp_connect", "tcp_accept", "nodelay"}
Connections == Threads \cup Foreign

\* Mutant: the name is made from the process ID alone, without a random key.
Name_Shared(t) == CHOOSE u \in Threads : TRUE

\* The socket file's name, random: no two calls use the same.
Name(t) == t

UnixListening(t) == pc[t] \in {"connect", "accept", "peer_pid"}
TcpListening(t) == pc[t] \in {"tcp_connect", "tcp_accept", "nodelay"}

\* The connections that the kernel keeps for accept(), and whether there is room.
Places(t) == IF pc[t] \in UnixCalls THEN UnixBacklog ELSE TcpBacklog
Room(t) == Len(backlog[t]) < Places(t)

TypeOK ==
    /\ pc \in [Threads -> UnixCalls \cup TcpCalls \cup {"done", "failed"}]
    /\ file \in [Threads -> Threads \cup {None}]
    /\ backlog \in [Threads -> Seq(Connections)]
    /\ \A t \in Threads : Len(backlog[t]) <= Places(t)
    /\ came \subseteq Foreign
    /\ reader \in [Threads -> Connections \cup {None}]

Init ==
    /\ pc = [t \in Threads |-> "bind"] /\ file = [t \in Threads |-> None]
    /\ backlog = [t \in Threads |-> <<>>] /\ came = {}
    /\ reader = [t \in Threads |-> None]

\* connect() to thread t's listener: it waits for nobody, a place in the backlog is enough.
Enqueue(t, connection) ==
    /\ Room(t)
    /\ backlog' = [backlog EXCEPT ![t] = Append(@, connection)]

\* Another process connects, through the socket file or to the port.
Connects(f) ==
    /\ f \notin came /\ came' = came \cup {f}
    /\ \E t \in Threads :
          /\ (UnixListening(t) /\ file[Name(t)] = t) \/ TcpListening(t)
          /\ Enqueue(t, f)
    /\ UNCHANGED <<pc, file, reader>>

\* bind(), which creates the socket file, once the address and the socket are made.
\* It fails if there is one.
Bind(t) ==
    /\ pc[t] = "bind" /\ pc' = [pc EXCEPT ![t] = "listen"]
    /\ file[Name(t)] = None /\ file' = [file EXCEPT ![Name(t)] = t]
    /\ UNCHANGED <<backlog, came, reader>>

Listen(t) ==
    /\ pc[t] = "listen" /\ pc' = [pc EXCEPT ![t] = "connect"]
    /\ UNCHANGED <<file, backlog, came, reader>>

\* Delete::drop, however unix_pair() returns, whether or not bind() made the file:
\* that it couldn't be removed is ignored.
Delete(t) == file' \in {file, [file EXCEPT ![Name(t)] = None]}

\* unix_pair() returns, its listener and the sockets that aren't returned closed.
ReturnUnix(t, next, connection) ==
    /\ pc' = [pc EXCEPT ![t] = next] /\ reader' = [reader EXCEPT ![t] = connection]
    /\ Delete(t) /\ backlog' = [backlog EXCEPT ![t] = <<>>]
    /\ UNCHANGED came

\* connect() to whoever listens under the file's name.
Connect(t) ==
    /\ pc[t] = "connect" /\ pc' = [pc EXCEPT ![t] = "accept"]
    /\ file[Name(t)] # None
    /\ UnixListening(file[Name(t)]) /\ Enqueue(file[Name(t)], t)
    /\ UNCHANGED <<file, came, reader>>

\* accept() blocks until there is a connection.
Accept(t) ==
    /\ pc[t] = "accept" /\ backlog[t] # <<>>
    /\ pc' = [pc EXCEPT ![t] = "peer_pid"]
    /\ reader' = [reader EXCEPT ![t] = Head(backlog[t])]
    /\ backlog' = [backlog EXCEPT ![t] = Tail(@)]
    /\ UNCHANGED <<file, came>>

\* peer_pid(&reader)? == process::id(), which every thread of ours passes.
PidIsOurs(connection) == connection \in Threads

PeerPid(t) ==
    /\ pc[t] = "peer_pid"
    /\ IF PidIsOurs(reader[t]) THEN ReturnUnix(t, "done", reader[t])
                               ELSE ReturnUnix(t, "tcp_bind", None)

\* Any call of unix_pair() fails, connect() with a full backlog and accept() or
\* peer_pid() with a connection that was reset among them: tcp_pair() is tried.
UnixFails(t) == pc[t] \in UnixCalls /\ ReturnUnix(t, "tcp_bind", None)

\* bind() to port 0: a port of its own.
TcpBind(t) ==
    /\ pc[t] = "tcp_bind" /\ pc' = [pc EXCEPT ![t] = "tcp_connect"]
    /\ UNCHANGED <<file, backlog, came, reader>>

TcpConnect(t) ==
    /\ pc[t] = "tcp_connect" /\ pc' = [pc EXCEPT ![t] = "tcp_accept"]
    /\ Enqueue(t, t)
    /\ UNCHANGED <<file, came, reader>>

\* Mutant: no peer's address is the writer's.
Mine_Never(t, connection) == FALSE

\* s.peer_addr().ok() == Some(ours): a reset connection has no address any more.
Mine(t, connection) == connection = t

\* listener.incoming().find(mine): the connections of others are closed.
TcpAccept(t) ==
    /\ pc[t] = "tcp_accept" /\ backlog[t] # <<>>
    /\ backlog' = [backlog EXCEPT ![t] = Tail(@)]
    /\ IF Mine(t, Head(backlog[t]))
       THEN /\ pc' = [pc EXCEPT ![t] = "nodelay"]
            /\ reader' = [reader EXCEPT ![t] = Head(backlog[t])]
       ELSE UNCHANGED <<pc, reader>>
    /\ UNCHANGED <<file, came>>

\* tcp_pair() returns, its listener closed.
ReturnTcp(t, next, connection) ==
    /\ pc' = [pc EXCEPT ![t] = next] /\ reader' = [reader EXCEPT ![t] = connection]
    /\ backlog' = [backlog EXCEPT ![t] = <<>>]
    /\ UNCHANGED <<file, came>>

Nodelay(t) == pc[t] = "nodelay" /\ ReturnTcp(t, "done", reader[t])

\* Any call of tcp_pair() fails, an accept() of a connection that was reset among
\* them: so does pair().
TcpFails(t) == pc[t] \in TcpCalls /\ ReturnTcp(t, "failed", None)

UnixPair(t) == Bind(t) \/ Listen(t) \/ Connect(t) \/ Accept(t) \/ PeerPid(t) \/ UnixFails(t)
TcpPair(t) == TcpBind(t) \/ TcpConnect(t) \/ TcpAccept(t) \/ Nodelay(t) \/ TcpFails(t)
Pair(t) == UnixPair(t) \/ TcpPair(t)

Next == (\E t \in Threads : Pair(t)) \/ (\E f \in Foreign : Connects(f))

Spec == Init /\ [][Next]_vars

\* Each call returns, if it isn't one of accept() with nobody to accept.  Calls
\* need not fail, but for a name that is taken and a listener without room.
Fairness == \A t \in Threads :
    /\ WF_vars(Bind(t) \/ (pc[t] = "bind" /\ UnixFails(t)))
    /\ WF_vars(Listen(t)) /\ WF_vars(Accept(t)) /\ WF_vars(PeerPid(t))
    /\ WF_vars(Connect(t) \/ (pc[t] = "connect" /\ UnixFails(t)))
    /\ WF_vars(TcpBind(t)) /\ WF_vars(TcpAccept(t)) /\ WF_vars(Nodelay(t))
    /\ WF_vars(TcpConnect(t) \/ (pc[t] = "tcp_connect" /\ TcpFails(t)))

FairSpec == Spec /\ Fairness

-----------------------------------------------------------------------------
(* Properties.                                                             *)

Queued(t) == {backlog[t][i] : i \in 1..Len(backlog[t])}

\* The sockets that pair() returns are connected to each other, neither to another
\* process nor to another thread's pair: no byte wakes another PHP thread than the
\* one whose future completed.  peer_pid() only tells processes apart, so this rests
\* on the file's name too (windows.rs:47-64, 100-110).
ConnectedToItself == \A t \in Threads : pc[t] = "done" => reader[t] = t

\* accept() is only called with our connection in the backlog, behind any number of
\* others: it doesn't block PHP (windows.rs:47-58, 100-110).
AcceptFindsUs == \A t \in Threads : pc[t] \in {"accept", "tcp_accept"} => t \in Queued(t)

\* pair() returns, however many connections of others come: ours is behind a
\* bounded number of them (windows.rs:110, "incoming() never ends").
PairReturns == \A t \in Threads : <>(pc[t] \in {"done", "failed"})
=============================================================================
