---------------------------- MODULE EventServer ----------------------------
(***************************************************************************)
(* The running server: one thread that loops in                            *)
(* wsgi_reactor_wait_for_events, the acceptors of the configured servers,  *)
(* the pool of connections they share, and the read loop of an http        *)
(* connection.  Around the thread act the kernel (event queue, accept      *)
(* queues, receive queues), the clients and the termination signals.       *)
(*                                                                         *)
(* The thread takes one step per system call: that is where the            *)
(* environment can interleave.  What a handler does between two system     *)
(* calls belongs to the step of the first.                                 *)
(***************************************************************************)
EXTENDS ConnectionPool, FiniteSets

CONSTANTS
  Servers,        \* the entries of `servers': one listening socket each
  Clients,        \* client streams; each connects at most once
  Dial,           \* [Clients -> Servers]: the server a client connects to
  BufferSize,     \* [Servers -> Nat]: request_header_buffer_size
  MaxEvents,      \* `events': the most events one wait returns
  EdgeTriggered,  \* TRUE: epoll with EPOLLET; FALSE: kqueue without EV_CLEAR
  MaxQueue,       \* bound: bytes a receive queue holds
  MaxFaults       \* bound: failed system calls in a behaviour

None == -1        \* a descriptor or a pointer that is not set

ASSUME ServerAssumption ==
  /\ (Servers \cup Clients) \cap (Items \cup {None}) = {}
  /\ Servers \cap Clients = {}
  /\ Dial \in [Clients -> Servers]
  /\ BufferSize \in [Servers -> Nat \ {0}]
  /\ MaxEvents \in Nat \ {0}
  /\ EdgeTriggered \in BOOLEAN
  /\ MaxQueue \in Nat
  /\ MaxFaults \in Nat

VARIABLES
  \* the thread
  pc,         \* where it is
  cur,        \* the connection a handler works on; the loop index of Drain
  srv,        \* the acceptor whose event is being handled
  batch,      \* events the last wait returned and the loop has not dispatched
  shutdown,   \* wsgi_signal_shutdown
  \* wsgi_connection_t, by item of the pool
  sockfd,     \* socket.fd: the stream it is connected to
  acceptor,   \* acceptor
  last,       \* request->buffer_last - request->buffer_start
  arena,      \* its gc: "clean" (reset), "dirty" (allocated from), "gone"
  \* the kernel
  listening,  \* servers whose socket is open and registered
  phase,      \* of a stream: "idle", "queued", "accepted", "closed"
  rcvq,       \* bytes of a stream sent and not read
  peerEnd,    \* the client's side of a stream: "open", "fin", "reset"
  watch,      \* connection a registered stream's events are reported to
  ready,      \* registered files with an edge not yet reported
  faults      \* system calls that have failed

threadVars == <<pc, cur, srv, batch>>
connVars   == <<sockfd, acceptor, last, arena>>
streamVars == <<phase, rcvq, peerEnd>>
kernelVars == <<listening, phase, rcvq, peerEnd, watch, ready>>
vars == <<free, freeCount, pc, cur, srv, batch, shutdown, sockfd, acceptor, last,
          arena, listening, phase, rcvq, peerEnd, watch, ready, faults>>

PcSet == {"check", "wait", "waiting", "dispatch", "drop", "accept", "register",
          "open", "recv", "receiving", "closing", "drain", "exited", "aborted", "crashed"}

\* "aborted": the shutdown was cut short; "crashed": the process was killed.
\* The variables keep what the process left; the kernel cleans it up.
Stopped == pc \in {"exited", "aborted", "crashed"}

\* The state wsgi_cycle_init leaves: every listener open and registered,
\* every connection in the pool.  None stands for memory not yet written.
Init ==
  /\ PoolInit
  /\ pc = "check"
  /\ cur = 0
  /\ srv = None
  /\ batch = {}
  /\ shutdown = FALSE
  /\ sockfd = [k \in Items |-> None]
  /\ acceptor = [k \in Items |-> None]
  /\ last = [k \in Items |-> 0]
  /\ arena = [k \in Items |-> "clean"]
  /\ listening = Servers
  /\ phase = [c \in Clients |-> "idle"]
  /\ rcvq = [c \in Clients |-> 0]
  /\ peerEnd = [c \in Clients |-> "open"]
  /\ watch = [c \in Clients |-> None]
  /\ ready = {}
  /\ faults = 0

-----------------------------------------------------------------------------
(* The kernel's event queue. *)

Backlog(s) == {c \in Clients : phase[c] = "queued" /\ Dial[c] = s}

StreamReadable(c) == rcvq[c] > 0 \/ peerEnd[c] # "open"

Readable(f) == IF f \in Servers THEN Backlog(f) # {} ELSE StreamReadable(f)

Registered == listening \cup {c \in Clients : watch[c] # None}

\* What a wait may report.  An edge-triggered queue reports a file once per
\* edge, and only if the file is readable when the wait looks at it.
Live == {f \in Registered : Readable(f) /\ (EdgeTriggered => f \in ready)}

\* New activity on f: an edge, if f is registered.
Edge(f) == ready' = IF EdgeTriggered /\ f \in Registered THEN ready \cup {f} ELSE ready

\* The pointer registered for f: an acceptor's handler or a connection's.
Handler(f) == IF f \in Servers THEN f ELSE watch[f]

-----------------------------------------------------------------------------
(* Clients and signals. *)

Connect(c) ==
  /\ ~Stopped
  /\ phase[c] = "idle"
  /\ Dial[c] \in listening
  /\ phase' = [phase EXCEPT ![c] = "queued"]
  /\ Edge(Dial[c])
  /\ UNCHANGED <<poolVars, threadVars, connVars, shutdown, listening, rcvq, peerEnd,
                 watch, faults>>

PeerUp(c) == phase[c] \in {"queued", "accepted"} /\ peerEnd[c] = "open"

Send(c, n) ==
  /\ PeerUp(c)
  /\ rcvq[c] + n <= MaxQueue
  /\ rcvq' = [rcvq EXCEPT ![c] = @ + n]
  /\ Edge(c)
  /\ UNCHANGED <<poolVars, threadVars, connVars, shutdown, listening, phase, peerEnd,
                 watch, faults>>

\* An orderly shutdown: what was sent before can still be read.
Fin(c) ==
  /\ PeerUp(c)
  /\ peerEnd' = [peerEnd EXCEPT ![c] = "fin"]
  /\ Edge(c)
  /\ UNCHANGED <<poolVars, threadVars, connVars, shutdown, listening, phase, rcvq,
                 watch, faults>>

\* A reset throws away what was not read.
Reset(c) ==
  /\ PeerUp(c)
  /\ peerEnd' = [peerEnd EXCEPT ![c] = "reset"]
  /\ rcvq' = [rcvq EXCEPT ![c] = 0]
  /\ Edge(c)
  /\ UNCHANGED <<poolVars, threadVars, connVars, shutdown, listening, phase, watch,
                 faults>>

Speak(c) == Fin(c) \/ Reset(c) \/ \E n \in 1 .. MaxQueue : Send(c, n)

Fault ==
  /\ faults < MaxFaults
  /\ faults' = faults + 1
NoFault == UNCHANGED faults

-----------------------------------------------------------------------------
(* The reactor's loop. *)

\* Mutant: the flag is not tested.
CheckNothing ==
  /\ pc = "check"
  /\ pc' = "wait"
  /\ UNCHANGED <<poolVars, cur, srv, batch, connVars, kernelVars, shutdown, faults>>

CheckShutdown ==
  /\ pc = "check"
  /\ pc' = IF shutdown THEN "closing" ELSE "wait"
  /\ UNCHANGED <<poolVars, cur, srv, batch, connVars, kernelVars, shutdown, faults>>

\* The wait finds nothing to report: the thread is inside the system call.
WaitBlocks ==
  /\ pc = "wait"
  /\ Live = {}
  /\ pc' = "waiting"
  /\ UNCHANGED <<poolVars, cur, srv, batch, connVars, kernelVars, shutdown, faults>>

\* The kernel chooses which events, and in which order they are reported.
WaitReturns ==
  /\ pc \in {"wait", "waiting"}
  /\ \E events \in (SUBSET Live) \ {{}} :
       /\ Cardinality(events) <= MaxEvents
       /\ Cardinality(events) < MaxEvents => events = Live
       /\ batch' = {[file |-> f, handler |-> Handler(f)] : f \in events}
       /\ ready' = ready \ events
  /\ pc' = "dispatch"
  /\ UNCHANGED <<poolVars, cur, srv, connVars, shutdown, listening, streamVars, watch,
                 faults>>

\* Any error of the wait, a signal that sets no flag included, ends the loop.
WaitFails ==
  /\ pc \in {"wait", "waiting"}
  /\ Fault
  /\ pc' = "closing"
  /\ UNCHANGED <<poolVars, cur, srv, batch, connVars, kernelVars, shutdown>>

BatchDone ==
  /\ pc = "dispatch"
  /\ batch = {}
  /\ pc' = "check"
  /\ UNCHANGED <<poolVars, cur, srv, batch, connVars, kernelVars, shutdown, faults>>

-----------------------------------------------------------------------------
(* wsgi_connection_close and the acceptor's handler. *)

\* Mutant: the arena is not reset.
CloseUnclean(k, left) ==
  LET c == sockfd[k] IN
  /\ watch' = [watch EXCEPT ![c] = None]
  /\ ready' = ready \ {c}
  /\ phase' = [phase EXCEPT ![c] = "closed"]
  /\ sockfd' = [sockfd EXCEPT ![k] = None]
  /\ GetBack(k)
  /\ UNCHANGED arena

\* Unregister, close the socket, give the item back, then reset its arena;
\* `left' is the arena's state when that is done.
Close(k, left) ==
  LET c == sockfd[k] IN
  /\ watch' = [watch EXCEPT ![c] = None]
  /\ ready' = ready \ {c}
  /\ phase' = [phase EXCEPT ![c] = "closed"]
  /\ sockfd' = [sockfd EXCEPT ![k] = None]
  /\ GetBack(k)
  /\ arena' = [arena EXCEPT ![k] = left]

\* Mutant: an event of a listener is dispatched again.
HandleAcceptAgain(ev) ==
  /\ pc = "dispatch"
  /\ ev \in batch
  /\ ev.handler \in Servers
  /\ srv' = ev.handler
  /\ \/ /\ Exhausted
        /\ pc' = "drop"
        /\ UNCHANGED <<poolVars, cur>>
     \/ /\ Acquire
        /\ cur' = TopItem
        /\ pc' = "accept"
  /\ UNCHANGED <<batch, connVars, kernelVars, shutdown, faults>>

HandleAccept(ev) ==
  /\ pc = "dispatch"
  /\ ev \in batch
  /\ ev.handler \in Servers
  /\ batch' = batch \ {ev}
  /\ srv' = ev.handler
  /\ \/ /\ Exhausted
        /\ pc' = "drop"
        /\ UNCHANGED <<poolVars, cur>>
     \/ /\ Acquire
        /\ cur' = TopItem
        /\ pc' = "accept"
  /\ UNCHANGED <<connVars, kernelVars, shutdown, faults>>

\* No connection left: accept the stream and close it at once.
Drop ==
  /\ pc = "drop"
  /\ \E c \in Backlog(srv) : phase' = [phase EXCEPT ![c] = "closed"]
  /\ pc' = "dispatch"
  /\ UNCHANGED <<poolVars, cur, srv, batch, connVars, shutdown, listening, rcvq, peerEnd,
                 watch, ready, faults>>

DropFails ==
  /\ pc = "drop"
  /\ Fault
  /\ pc' = "dispatch"
  /\ UNCHANGED <<poolVars, cur, srv, batch, connVars, kernelVars, shutdown>>

\* The peer's address is allocated from the connection's arena.
Accept ==
  /\ pc = "accept"
  /\ \E c \in Backlog(srv) :
       /\ phase' = [phase EXCEPT ![c] = "accepted"]
       /\ sockfd' = [sockfd EXCEPT ![cur] = c]
  /\ arena' = [arena EXCEPT ![cur] = "dirty"]
  /\ pc' = "register"
  /\ UNCHANGED <<poolVars, cur, srv, batch, acceptor, last, shutdown, listening, rcvq,
                 peerEnd, watch, ready, faults>>

\* Mutant: the connection is not given back.
AcceptFailsKeeping ==
  /\ pc = "accept"
  /\ Fault
  /\ arena' = [arena EXCEPT ![cur] = "clean"]
  /\ pc' \in {"dispatch", "crashed"}
  /\ UNCHANGED <<poolVars, cur, srv, batch, sockfd, acceptor, last, kernelVars, shutdown>>

\* accept fails; or there is no memory for the peer's address, which nobody
\* looks at, and the process dies.
AcceptFails ==
  /\ pc = "accept"
  /\ Fault
  /\ GetBack(cur)
  /\ arena' = [arena EXCEPT ![cur] = "clean"]
  /\ pc' \in {"dispatch", "crashed"}
  /\ UNCHANGED <<cur, srv, batch, sockfd, acceptor, last, kernelVars, shutdown>>

\* A stream that is readable when it is added has its first edge at once.
Register ==
  /\ pc = "register"
  /\ LET c == sockfd[cur] IN
       /\ watch' = [watch EXCEPT ![c] = cur]
       /\ ready' = IF EdgeTriggered /\ StreamReadable(c) THEN ready \cup {c} ELSE ready
  /\ acceptor' = [acceptor EXCEPT ![cur] = srv]
  /\ pc' = "open"
  /\ UNCHANGED <<poolVars, cur, srv, batch, sockfd, last, arena, shutdown, listening,
                 streamVars, faults>>

\* Mutant: the socket is not closed.
RegisterFailsOpen ==
  /\ pc = "register"
  /\ EdgeTriggered
  /\ Fault
  /\ sockfd' = [sockfd EXCEPT ![cur] = None]
  /\ GetBack(cur)
  /\ arena' = [arena EXCEPT ![cur] = "clean"]
  /\ pc' = "dispatch"
  /\ UNCHANGED <<cur, srv, batch, acceptor, last, shutdown, kernelVars>>

\* kqueue only queues the change for the next wait, which cannot fail.
RegisterFails ==
  /\ pc = "register"
  /\ EdgeTriggered
  /\ Fault
  /\ phase' = [phase EXCEPT ![sockfd[cur]] = "closed"]
  /\ sockfd' = [sockfd EXCEPT ![cur] = None]
  /\ GetBack(cur)
  /\ arena' = [arena EXCEPT ![cur] = "clean"]
  /\ pc' = "dispatch"
  /\ UNCHANGED <<cur, srv, batch, acceptor, last, shutdown, listening, rcvq, peerEnd,
                 watch, ready>>

\* wsgi_http_connection_open: create the request, then read from the stream.
Open ==
  /\ pc = "open"
  /\ last' = [last EXCEPT ![cur] = 0]
  /\ pc' = "recv"
  /\ UNCHANGED <<poolVars, cur, srv, batch, sockfd, acceptor, arena, kernelVars, shutdown,
                 faults>>

\* A handler gives up on the connection it works on.
GiveUp ==
  /\ Close(cur, "clean")
  /\ pc' = "dispatch"
  /\ UNCHANGED <<cur, srv, batch, acceptor, last, listening, rcvq, peerEnd>>

CloseCurrent == GiveUp /\ UNCHANGED shutdown

Die ==
  /\ pc' = "crashed"
  /\ UNCHANGED <<poolVars, cur, srv, batch, connVars, kernelVars>>

\* A recv that fails is logged with a number where the format says %s: the
\* process dies of it, unless the number happens to point at a string.
LogRecvError == Die \/ GiveUp

OpenFails ==
  /\ pc = "open"
  /\ Fault
  /\ CloseCurrent

-----------------------------------------------------------------------------
(* wsgi_http_connection_handle_read. *)

\* Mutant: an event of a connection is dispatched again.
HandleReadAgain(ev) ==
  /\ pc = "dispatch"
  /\ ev \in batch
  /\ ev.handler \in Items
  /\ cur' = ev.handler
  /\ pc' = "recv"
  /\ UNCHANGED <<poolVars, srv, batch, connVars, kernelVars, shutdown, faults>>

HandleRead(ev) ==
  /\ pc = "dispatch"
  /\ ev \in batch
  /\ ev.handler \in Items
  /\ batch' = batch \ {ev}
  /\ cur' = ev.handler
  /\ pc' = "recv"
  /\ UNCHANGED <<poolVars, srv, connVars, kernelVars, shutdown, faults>>

Stream == sockfd[cur]
Room == BufferSize[acceptor[cur]] - last[cur]
InRecv == pc \in {"recv", "receiving"}

\* Mutant: the connection is left open.
HangupIgnored ==
  /\ InRecv
  /\ rcvq[Stream] = 0
  /\ peerEnd[Stream] = "fin"
  /\ pc' = "dispatch"
  /\ UNCHANGED <<poolVars, cur, srv, batch, connVars, kernelVars, shutdown, faults>>

\* recv returns 0.  A recv of no bytes may do so at any time.
ClosedByPeer ==
  /\ InRecv
  /\ IF Room = 0
       THEN pc = "recv" \/ StreamReadable(Stream)
       ELSE rcvq[Stream] = 0 /\ peerEnd[Stream] = "fin"
  /\ CloseCurrent
  /\ NoFault

RecvError ==
  /\ InRecv
  /\ peerEnd[Stream] = "reset"
  /\ LogRecvError
  /\ NoFault
  /\ UNCHANGED shutdown

\* Mutant: one read per event.
AfterOneRead(n) == "dispatch"

\* A read that filled the buffer is followed by another one.
AfterRead(n) == IF n < Room THEN "dispatch" ELSE "recv"

\* r->handle_read accepts the n new bytes, or refuses them and the connection
\* is closed.
RecvBytes ==
  /\ InRecv
  /\ Room > 0
  /\ rcvq[Stream] > 0
  /\ LET n == IF rcvq[Stream] < Room THEN rcvq[Stream] ELSE Room IN
       /\ rcvq' = [rcvq EXCEPT ![Stream] = @ - n]
       /\ last' = [last EXCEPT ![cur] = @ + n]
       /\ \/ /\ pc' = AfterRead(n)
             /\ UNCHANGED <<poolVars, sockfd, arena, phase, watch, ready>>
          \/ /\ pc' = "dispatch"
             /\ Close(cur, "clean")
  /\ UNCHANGED <<cur, srv, batch, acceptor, shutdown, listening, peerEnd, faults>>

\* The sockets are blocking: the whole server waits for this client.
RecvBlocks ==
  /\ pc = "recv"
  /\ ~StreamReadable(Stream)
  /\ pc' = "receiving"
  /\ UNCHANGED <<poolVars, cur, srv, batch, connVars, kernelVars, shutdown, faults>>

-----------------------------------------------------------------------------
(* A termination signal.  The handler sets the flag; a system call that is  *)
(* waiting fails with EINTR, any other is unaffected.                       *)

Signal ==
  /\ ~Stopped
  /\ shutdown' = TRUE
  /\ IF pc = "waiting" /\ Live = {}
       THEN /\ pc' = "closing"
            /\ UNCHANGED <<poolVars, cur, srv, batch, connVars, kernelVars>>
     ELSE IF pc = "receiving" /\ ~StreamReadable(Stream)
       THEN LogRecvError
     ELSE UNCHANGED <<poolVars, threadVars, connVars, kernelVars>>
  /\ NoFault

-----------------------------------------------------------------------------
(* wsgi_cycle_shutdown: the http module, then the event module. *)

\* Mutant: who is queued keeps waiting.
StopListeningQuietly(s) ==
  /\ listening' = listening \ {s}
  /\ ready' = ready \ {s}
  /\ UNCHANGED phase

\* Unregister, close and unlink one listener: who was still queued is cut off.
StopListening(s) ==
  /\ listening' = listening \ {s}
  /\ ready' = ready \ {s}
  /\ phase' = [c \in Clients |-> IF c \in Backlog(s) THEN "closed" ELSE phase[c]]

CloseAcceptor(s) ==
  /\ pc = "closing"
  /\ s \in listening
  /\ StopListening(s)
  /\ UNCHANGED <<poolVars, threadVars, connVars, shutdown, rcvq, peerEnd, watch, faults>>

\* Unregistering, closing or unlinking fails: what is left of the shutdown,
\* the connections and the reactor included, is skipped.  The failure to close
\* is logged with the descriptor where the format says %s.
CloseAcceptorFails(s) ==
  /\ pc = "closing"
  /\ s \in listening
  /\ Fault
  /\ \/ /\ pc' = "aborted"
        /\ StopListening(s) \/ UNCHANGED <<listening, ready, phase>>
     \/ /\ pc' = "crashed"
        /\ StopListening(s)
  /\ UNCHANGED <<poolVars, cur, srv, batch, connVars, shutdown, rcvq, peerEnd, watch>>

\* A connection's socket cannot be closed: no caller looks, but the log does.
CloseFails ==
  /\ \/ InRecv /\ (Room = 0 \/ StreamReadable(Stream))
     \/ pc = "drain" /\ cur \in Items /\ sockfd[cur] # None
  /\ Fault
  /\ Die
  /\ UNCHANGED shutdown

AcceptorsClosed ==
  /\ pc = "closing"
  /\ listening = {}
  /\ pc' = "drain"
  /\ cur' = 0
  /\ UNCHANGED <<poolVars, srv, batch, connVars, kernelVars, shutdown, faults>>

\* Mutant: an open connection is not closed.
DrainOnly ==
  /\ pc = "drain"
  /\ cur \in Items
  /\ cur' = cur + 1
  /\ arena' = [arena EXCEPT ![cur] = "gone"]
  /\ UNCHANGED <<poolVars, pc, srv, batch, sockfd, acceptor, last, kernelVars, shutdown, faults>>

\* Close the connection if it is open, then destroy its arena.
Drain ==
  /\ pc = "drain"
  /\ cur \in Items
  /\ cur' = cur + 1
  /\ IF sockfd[cur] # None
       THEN Close(cur, "gone")
       ELSE /\ arena' = [arena EXCEPT ![cur] = "gone"]
            /\ UNCHANGED <<poolVars, sockfd, phase, watch, ready>>
  /\ UNCHANGED <<pc, srv, batch, acceptor, last, shutdown, listening, rcvq, peerEnd, faults>>

CloseReactor ==
  /\ pc = "drain"
  /\ cur = Capacity
  /\ pc' = "exited"
  /\ UNCHANGED <<poolVars, cur, srv, batch, connVars, kernelVars, shutdown, faults>>

-----------------------------------------------------------------------------
Environment ==
  \/ \E c \in Clients : Connect(c) \/ Speak(c)
  \/ Signal

Failure ==
  \/ WaitFails \/ DropFails \/ AcceptFails \/ RegisterFails \/ OpenFails \/ CloseFails
  \/ \E s \in Servers : CloseAcceptorFails(s)

Thread ==
  \/ CheckShutdown \/ WaitBlocks \/ WaitReturns \/ BatchDone
  \/ \E ev \in batch : HandleAccept(ev) \/ HandleRead(ev)
  \/ Drop \/ Accept \/ Register \/ Open
  \/ ClosedByPeer \/ RecvError \/ RecvBytes \/ RecvBlocks
  \/ \E s \in Servers : CloseAcceptor(s)
  \/ AcceptorsClosed \/ Drain \/ CloseReactor

Next == Environment \/ Failure \/ Thread

Spec == Init /\ [][Next]_vars

\* The operating system runs a thread that can run.
FairSpec == Spec /\ WF_vars(Thread)

\* Every client that is connected sends, closes or resets sooner or later.
SpeakingSpec == FairSpec /\ \A c \in Clients : WF_vars(Speak(c))

-----------------------------------------------------------------------------
(* Properties. *)

\* Every variable has the type its declaration gives it in the code: the
\* fields of wsgi_connection_t, the pool's array and the kernel's tables.
TypeOK ==
  /\ PoolTypeOK
  /\ pc \in PcSet
  /\ cur \in 0 .. Capacity
  /\ srv \in Servers \cup {None}
  /\ batch \subseteq [file : Servers \cup Clients, handler : Servers \cup Items]
  /\ shutdown \in BOOLEAN
  /\ sockfd \in [Items -> Clients \cup {None}]
  /\ acceptor \in [Items -> Servers \cup {None}]
  /\ last \in [Items -> Nat]
  /\ arena \in [Items -> {"clean", "dirty", "gone"}]
  /\ listening \subseteq Servers
  /\ phase \in [Clients -> {"idle", "queued", "accepted", "closed"}]
  /\ rcvq \in [Clients -> Nat]
  /\ peerEnd \in [Clients -> {"open", "fin", "reset"}]
  /\ watch \in [Clients -> Items \cup {None}]
  /\ ready \subseteq Servers \cup Clients
  /\ faults \in 0 .. MaxFaults

\* The connection the acceptor has taken from the pool and not yet connected.
Taken(k) == pc = "accept" /\ cur = k

\* No connection is in the pool twice, none in use is in it, and none is lost:
\* what the handlers' error paths give back is exactly what they took.
PoolExact ==
  /\ Distinct
  /\ \A k \in Items : InPool(k) <=> sockfd[k] = None /\ ~Taken(k)

\* An accepted stream belongs to one connection: the server never forgets a
\* descriptor it has not closed and never closes one that it has given away.
StreamOwned ==
  /\ \A j, k \in Items : sockfd[j] = sockfd[k] /\ sockfd[j] # None => j = k
  /\ \A c \in Clients : phase[c] = "accepted" <=> \E k \in Items : sockfd[k] = c

\* The event queue holds the streams of the open connections and nothing else,
\* each with the connection that owns it as the pointer it reports.
WatchExact ==
  \A c \in Clients, k \in Items :
    watch[c] = k <=> sockfd[k] = c /\ ~(pc = "register" /\ cur = k)

\* An event not yet dispatched still points at what it was reported for, even
\* though earlier handlers of the same batch closed connections, gave them
\* back and opened new ones in the same memory.
NoStaleEvent ==
  \A ev \in batch :
    \/ ev.file \in listening /\ ev.handler = ev.file
    \/ ev.handler \in Items /\ sockfd[ev.handler] = ev.file /\ watch[ev.file] = ev.handler

\* A listener that is handled has a client in its queue, a stream whose event
\* is pending is readable, and a read blocks only before the first byte of a
\* request or on a full buffer: the blocking sockets stop the loop nowhere else.
EventStillReadable ==
  /\ \A ev \in batch : Readable(ev.file)
  /\ pc \in {"accept", "drop"} => Backlog(srv) # {}
  /\ pc = "receiving" => last[cur] = 0 \/ Room = 0

Handled(k) == cur = k /\ pc \in {"register", "open", "recv", "receiving", "crashed"}

\* A connection the loop leaves open has read something and has room to read
\* more, so the next event on it can make progress; its acceptor, through which
\* wsgi_connection_close reaches the reactor and the pool, is the one its
\* client dialled.
OpenConnectionUsable ==
  \A k \in Items : sockfd[k] # None /\ ~Handled(k) =>
    /\ acceptor[k] = Dial[sockfd[k]]
    /\ last[k] \in 1 .. BufferSize[acceptor[k]] - 1

\* An item of the pool has no memory of the request it served before, and the
\* arenas are destroyed only once their connections are closed.
FreshArena ==
  \A k \in Items :
    /\ arena[k] = "dirty" <=> sockfd[k] # None
    /\ arena[k] = "gone" => pc \in {"drain", "exited", "crashed"}

\* A shutdown that is not cut short leaves no descriptor open, no listener,
\* a full pool and no arena.
CleanExit ==
  pc = "exited" =>
    /\ listening = {}
    /\ \A c \in Clients : phase[c] \in {"idle", "closed"} /\ watch[c] = None
    /\ freeCount = Capacity
    /\ \A k \in Items : arena[k] = "gone"

\* With edge-triggered events and one read per event that was not filled, the
\* loop still never forgets bytes: a registered stream that has some will be
\* reported, has been reported, or is the one being read.
DataNotStranded ==
  \A c \in Clients : watch[c] # None /\ rcvq[c] > 0 /\ EdgeTriggered =>
    \/ c \in ready
    \/ \E ev \in batch : ev.file = c
    \/ Handled(watch[c])

\* The events of a listener that are pending or being handled.
Claims(s) ==
  Cardinality({ev \in batch : ev.file = s})
    + (IF pc \in {"accept", "drop"} /\ srv = s THEN 1 ELSE 0)

\* An edge of a listener that is still to be reported has a client of its own,
\* not one that an event already on its way will accept.
EdgeHasClient ==
  \A s \in ready \cap Servers : Cardinality(Backlog(s)) > Claims(s)

-----------------------------------------------------------------------------
(* The inductive invariant behind PoolExact and NoStaleEvent. *)

\* The loop waits, stops and drains with no event undispatched, and no event
\* undispatched is for the connection a handler has in hand.
BatchInv ==
  /\ pc \in {"check", "wait", "waiting", "closing", "drain", "exited", "aborted"} => batch = {}
  /\ pc \in {"open", "recv", "receiving"} => \A ev \in batch : ev.handler # cur

\* What a handler has in hand is what its place in the code promises.
HandlerInv ==
  /\ pc = "accept" => cur \in Items /\ sockfd[cur] = None
  /\ pc \in {"register", "open", "recv", "receiving"} => cur \in Items /\ sockfd[cur] # None
  /\ pc \in {"accept", "drop", "register"} => srv \in Servers
  /\ \A k \in Items :
       sockfd[k] # None /\ ~(pc = "register" /\ cur = k) => acceptor[k] \in Servers

ServerInv ==
  /\ TypeOK /\ PoolExact /\ StreamOwned /\ WatchExact
  /\ NoStaleEvent /\ BatchInv /\ HandlerInv

-----------------------------------------------------------------------------
(* Liveness. *)

Broken == pc \in {"aborted", "crashed"}

\* Level-triggered: nobody is left in an accept queue, not even when the server ends.
PendingLeaves == \A c \in Clients : phase[c] = "queued" ~> phase[c] # "queued" \/ Broken

\* Level-triggered: a stream its client ended is closed by the server.
HangupCloses ==
  \A c \in Clients :
    phase[c] = "accepted" /\ peerEnd[c] # "open" ~> phase[c] = "closed" \/ Broken

\* Edge-triggered: it is, if an edge is left when all its bytes are read, or
\* the client reset it and threw them away.
EdgeHangupCloses ==
  \A c \in Clients :
    c \in ready /\ rcvq[c] = 0 /\ peerEnd[c] # "open" ~> phase[c] = "closed" \/ Broken

\* A termination signal that finds the thread anywhere but between the test of
\* the flag and the return of the wait ends the process.
SignalEnds == (shutdown /\ pc \notin {"wait", "waiting"}) ~> Stopped

-----------------------------------------------------------------------------
(* The contract of the server. *)

\* Open streams that sent something or hung up.  Until the request is created
\* `last' is still that of the connection's previous request.
Spoken ==
  {c \in Clients :
     /\ phase[c] \in {"queued", "accepted"}
     /\ \/ StreamReadable(c)
        \/ \E k \in Items :
             sockfd[k] = c /\ last[k] > 0 /\ ~(cur = k /\ pc \in {"register", "open"})}

Stopping == Stopped \/ pc \in {"closing", "drain"}

Trouble == shutdown \/ faults > 0 \/ pc = "crashed"

Contract == INSTANCE ServerContract WITH
  spoken <- Spoken,
  stopping <- Stopping,
  trouble <- Trouble

\* The server keeps the contract of module ServerContract.
ImplementsContract == Contract!Spec

\* What the log line of a recv that returned 0 says: the peer closed.
PeerPerformedShutdown ==
  [][ClosedByPeer => peerEnd[Stream] = "fin"]_vars
=============================================================================
