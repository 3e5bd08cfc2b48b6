------------------------------- MODULE Cycle -------------------------------
(***************************************************************************)
(* The life of the process: main, wsgi_cycle_init and wsgi_cycle_shutdown  *)
(* with what the modules do in them, around the loader.  The process may   *)
(* be killed anywhere and is started again; the files of its unix sockets  *)
(* outlive it.  What the server does between start and stop is             *)
(* EventServer's matter.                                                   *)
(*                                                                         *)
(* A step is one module's create, one server of a loop, or one event of    *)
(* the loader.  Servers are numbered in the order of the configuration.    *)
(***************************************************************************)
EXTENDS ConfigLoader

CONSTANTS
  Documents,           \* what may be in conf/wsgi.yaml, as the parser's events
  Unix,                \* addresses that are paths; the others are ports
  DefaultEvents,       \* WSGI_DEFAULT_EVENTS
  DefaultConnections,  \* WSGI_DEFAULT_WORKER_CONNECTIONS
  DefaultSize          \* WSGI_DEFAULT_REQUEST_HEADER_BUFFER_SIZE

ASSUME CycleAssumption ==
  /\ \A d \in Documents : d \in Seq(Scalars \cup Marks)
  /\ Unix \subseteq Addresses
  /\ DefaultEvents \in Nat \ {0}
  /\ DefaultConnections \in Nat \ {0}
  /\ DefaultSize \in Nat \ {0}
  /\ \A i \in DOMAIN Loops : Loops[i] \notin {"event", "http", "sample"}

VARIABLES
  status,     \* where main is
  next,       \* the module a loop over the modules is at
  server,     \* the server a loop of the http module is at; 0: not yet there
  shutdown,   \* wsgi_signal_shutdown
  queue,      \* the event queue is open and the reactor there
  arenas,     \* arenas of connections that exist
  sockets,    \* servers whose listening socket is open
  watched,    \* those that are in the event queue
  serving,    \* [Addresses -> server one reaches there, 0 for none]
  files,      \* paths that exist
  lingering,  \* ports with a connection in TIME_WAIT
  trouble     \* in this life a call failed or somebody killed the process

netVars == <<sockets, watched, serving, files, lingering>>
processVars == <<status, next, server, shutdown, queue, arenas, trouble>>
cycleVars == <<loaderVars, netVars, processVars>>

\* Mutant: the http module comes first.
ModulesSwapped == <<"http", "event", "sample">> \o Loops

\* modules[], as auto/configure writes it; event loops are the last ones.
Modules == <<"event", "http", "sample">> \o Loops

At(s, m) == status = s /\ Modules[next] = m

CycleInit ==
  /\ status = "down" /\ next = 1 /\ server = 0
  /\ shutdown = FALSE /\ trouble = FALSE
  /\ queue = FALSE /\ arenas = 0
  /\ sockets = {} /\ watched = {}
  /\ serving = [a \in Addresses |-> 0]
  /\ files \in SUBSET Unix   \* of a process that was there before
  /\ lingering = {}
  /\ rest = <<>> /\ LoaderInit

-----------------------------------------------------------------------------
(* The world outside *)

\* A new process.  It has handlers for its signals, or gives up.
Launch ==
  /\ status \in {"down", "crashed"}
  /\ \/ status' = "creating" /\ trouble' = FALSE
     \/ status' = "failed" /\ trouble' = TRUE
  /\ next' = 1 /\ server' = 0
  /\ shutdown' = FALSE
  /\ rest' \in Documents
  /\ stack' = <<>> /\ result' = "unopened"
  /\ use' = NULL /\ events' = 0 /\ connections' = 0
  /\ servers' = <<>>
  /\ arrays' = << <<>> >> /\ capacity' = ListCapacity
  /\ returned' = {} /\ garbled' = {}
  /\ UNCHANGED <<queue, arenas, netVars>>

Alive == status \notin {"down", "crashed"}

\* SIGINT, SIGTERM or SIGQUIT.
Signal ==
  /\ Alive
  /\ shutdown' = TRUE
  /\ UNCHANGED <<loaderVars, netVars, status, next, server, queue, arenas, trouble>>

\* The system closes what a process has open.  Files stay.
Gone ==
  /\ queue' = FALSE /\ arenas' = 0
  /\ sockets' = {} /\ watched' = {}
  /\ serving' = [a \in Addresses |-> 0]
  /\ UNCHANGED <<loaderVars, files, lingering, next, server, shutdown>>

\* By a signal without a handler, or by a fault in the handler of an event.
Kill ==
  /\ Alive
  /\ status' = "down" /\ trouble' = TRUE
  /\ Gone

\* The end of a connection keeps its port for a while.
Linger ==
  /\ status = "running"
  /\ \E a \in Addresses \ Unix :
       serving[a] # 0 /\ lingering' = lingering \cup {a}
  /\ UNCHANGED <<loaderVars, processVars, sockets, watched, serving, files>>

Expire ==
  /\ lingering # {}
  /\ lingering' = {}
  /\ UNCHANGED <<loaderVars, processVars, sockets, watched, serving, files>>

-----------------------------------------------------------------------------
(* wsgi_cycle_init: contexts, configuration, modules *)

\* From one module to the next, and behind the last one to what comes then.
Advance(s) ==
  IF next < Len(Modules)
  THEN next' = next + 1 /\ UNCHANGED status
  ELSE next' = 1 /\ status' = s

Fail == status' = "failed" /\ UNCHANGED next

\* A pointer to nothing was followed.
Crash == status' = "crashed" /\ UNCHANGED trouble /\ Gone

CreateModule ==
  /\ status = "creating"
  /\ Advance("loading")
  /\ UNCHANGED <<loaderVars, netVars, server, shutdown, queue, arenas, trouble>>

\* wsgi_list_init had no memory.
CreateFails ==
  /\ status = "creating" /\ Modules[next] \in {"http", "sample"}
  /\ MemoryFails
  /\ Fail /\ trouble' = TRUE
  /\ UNCHANGED <<loaderVars, netVars, server, shutdown, queue, arenas>>

\* Nobody looks at what wsgi_gc_create, wsgi_gc_calloc of a context or the
\* wsgi_list_init of the event loops returned.
CreateCrashes ==
  /\ status = "creating"
  /\ MemoryFails
  /\ status' = "crashed" /\ trouble' = TRUE
  /\ Gone

Load ==
  /\ status = "loading"
  /\ LoaderNext
  /\ UNCHANGED <<netVars, processVars>>

Loaded ==
  /\ status = "loading" /\ result = "loaded"
  /\ status' = "initialising" /\ next' = 1
  /\ UNCHANGED <<loaderVars, netVars, server, shutdown, queue, arenas, trouble>>

NotLoaded ==
  /\ status = "loading"
  /\ \/ /\ result \in {"failed", "no memory", "unreadable"}
        /\ Fail
        /\ UNCHANGED <<loaderVars, netVars, server, shutdown, queue, arenas, trouble>>
     \/ result \in {"crashed", "undefined"} /\ Crash

\* Each allocation from the cycle's arena may get what a list gave back.
Allocating == Allocate /\ UNCHANGED <<rest, stack, result, arrays, capacity, returned>>

Or(x, none, default) == IF x = none THEN default ELSE x

InitEvent ==
  /\ At("initialising", "event")
  /\ use # NULL \/ Loops # <<>>
  /\ use' = IF use = NULL THEN Loops[1] ELSE use
  /\ events' = Or(events, 0, DefaultEvents)
  /\ queue' = TRUE
  /\ Advance("ready")
  /\ Allocating
  /\ UNCHANGED <<connections, servers, netVars, server, shutdown, arenas, trouble>>

\* There is no event loop, or epoll_create, kqueue or malloc failed.
InitEventFails ==
  /\ At("initialising", "event")
  /\ Fail
  /\ IF use = NULL /\ Loops = <<>> THEN UNCHANGED trouble ELSE trouble' = TRUE
  /\ UNCHANGED <<loaderVars, netVars, server, shutdown, queue, arenas>>

\* Mutant: the flag is cleared before the loop.
InitNothingForgets ==
  /\ status = "initialising" /\ Modules[next] \notin {"event", "http"}
  /\ Advance("ready")
  /\ shutdown' = FALSE
  /\ UNCHANGED <<loaderVars, netVars, server, queue, arenas, trouble>>

\* Modules without an init.
InitNothing ==
  /\ status = "initialising" /\ Modules[next] \notin {"event", "http"}
  /\ Advance("ready")
  /\ UNCHANGED <<loaderVars, netVars, server, shutdown, queue, arenas, trouble>>

\* wsgi_http_module_init: a pool, an arena for each connection, the servers.
InitPool ==
  /\ At("initialising", "http") /\ server = 0
  /\ connections' = Or(connections, 0, DefaultConnections)
  /\ Allocating
  /\ \/ arenas' = connections' /\ server' = 1 /\ UNCHANGED <<status, trouble>>
     \/ /\ MemoryFails
        /\ arenas' \in 0 .. connections' - 1 /\ UNCHANGED server
        /\ status' = "failed" /\ trouble' = TRUE
  /\ UNCHANGED <<use, events, servers, netVars, next, shutdown, queue>>

Opening == At("initialising", "http") /\ server \in DOMAIN servers
Conf == servers[server]
Garbled(r) == r[1] \in garbled

\* What load finds where the server's pointer leads.
OptionOf(r) == arrays[r[1]][r[2]]
Loads == Conf.runtime # NoRuntime /\ OptionOf(Conf.runtime) # NULL

reuseaddr == TRUE

\* Mutant: a file that is in the way stays.
Kept(a) == files

Unlinked(a) == files \ {a}

\* Whether bind finds the address free.
Free(a) ==
  IF a \in Unix THEN a \notin Unlinked(a)
  ELSE serving[a] = 0 /\ (reuseaddr \/ a \notin lingering)

\* Once a path is unlinked nobody reaches the socket that had it.
NobodyAt(a) == [serving EXCEPT ![a] = 0]

OpenServer ==
  /\ Opening /\ Loads
  /\ Conf.listen # NULL /\ Free(Conf.listen)
  /\ files' = Unlinked(Conf.listen) \cup ({Conf.listen} \cap Unix)
  /\ serving' = [serving EXCEPT ![Conf.listen] = server]
  /\ sockets' = sockets \cup {server}
  /\ watched' = watched \cup {server}
  /\ servers' = [servers EXCEPT ![server].size = Or(@, 0, DefaultSize)]
  /\ server' = server + 1
  /\ Allocating
  /\ UNCHANGED <<use, events, connections, lingering,
                 status, next, shutdown, queue, arenas, trouble>>

\* No runtime, or load has no option.
RefuseServer ==
  /\ Opening /\ ~Loads
  /\ Fail
  /\ UNCHANGED <<loaderVars, netVars, server, shutdown, queue, arenas, trouble>>

\* The runtime's memory holds something else, or there is no `listen' to look
\* at.
OpenCrashes ==
  /\ Opening
  /\ \/ Conf.runtime # NoRuntime /\ Garbled(Conf.runtime)
     \/ Loads /\ Conf.listen = NULL
  /\ Crash

CreateAcceptorFails ==
  /\ Opening /\ Loads
  /\ MemoryFails
  /\ Fail /\ trouble' = TRUE
  /\ UNCHANGED <<loaderVars, netVars, server, shutdown, queue, arenas>>

\* Mutant: nobody looks at what wsgi_acceptor_open returned.
SocketFailsUnseen ==
  /\ Opening /\ Loads
  /\ Conf.listen # NULL
  /\ files' = Unlinked(Conf.listen)
  /\ serving' = IF Conf.listen \in Unix THEN NobodyAt(Conf.listen) ELSE serving
  /\ server' = server + 1
  /\ UNCHANGED <<loaderVars, sockets, watched, lingering, status, next, shutdown, queue,
                 arenas, trouble>>

\* socket, setsockopt or bind: the path is gone.  wsgi_acceptor_close then has
\* nothing to unregister, and stops there; kqueue forgets another listener.
SocketFails ==
  /\ Opening /\ Loads
  /\ Conf.listen # NULL
  /\ files' = Unlinked(Conf.listen)
  /\ serving' = IF Conf.listen \in Unix THEN NobodyAt(Conf.listen) ELSE serving
  /\ Fail
  /\ IF Free(Conf.listen) THEN trouble' = TRUE ELSE UNCHANGED trouble
  /\ watched' = IF use = "kqueue" THEN watched \ {server - 1} ELSE watched
  /\ UNCHANGED <<loaderVars, sockets, lingering, server, shutdown, queue, arenas>>

\* listen, after the file was made; or registering, which leaves the socket
\* open as well, since wsgi_acceptor_close stops at unregistering it.
ListenFails ==
  /\ Opening /\ Loads
  /\ Conf.listen # NULL /\ Free(Conf.listen)
  /\ files' = files \cup ({Conf.listen} \cap Unix)
  /\ \/ /\ serving' = NobodyAt(Conf.listen)
        /\ watched' = IF use = "kqueue" THEN watched \ {server - 1} ELSE watched
        /\ UNCHANGED sockets
     \/ /\ use = "epoll"
        /\ serving' = [serving EXCEPT ![Conf.listen] = server]
        /\ sockets' = sockets \cup {server}
        /\ UNCHANGED watched
  /\ Fail /\ trouble' = TRUE
  /\ UNCHANGED <<loaderVars, lingering, server, shutdown, queue, arenas>>

\* Mutant: the loop ends one server early.
AllOpenEarly == server >= Len(servers)

AllOpen == server > Len(servers)

ServersOpen ==
  /\ At("initialising", "http") /\ server > 0
  /\ AllOpen
  /\ Advance("ready")
  /\ UNCHANGED <<loaderVars, netVars, server, shutdown, queue, arenas, trouble>>

-----------------------------------------------------------------------------
(* The loop, and wsgi_cycle_shutdown: the modules in reverse order *)

ToShutdown ==
  /\ status' = "stopping" /\ next' = Len(Modules) /\ server' = 1
  /\ UNCHANGED <<loaderVars, netVars, shutdown, queue, arenas>>

\* The loop's first test of the flag, before any wait.
FirstTest ==
  /\ status = "ready"
  /\ \/ shutdown /\ ToShutdown
     \/ /\ ~shutdown
        /\ status' = "running"
        /\ UNCHANGED <<loaderVars, netVars, next, server, shutdown, queue, arenas>>
  /\ UNCHANGED trouble

\* A later one, after a wait.  Nothing has to end a wait that began before the
\* flag was set, or a recv inside one.
LeaveLoop ==
  /\ status = "running"
  /\ shutdown
  /\ ToShutdown
  /\ UNCHANGED trouble

\* The wait failed; main does not look at what it returned.
WaitFails ==
  /\ status = "running"
  /\ ToShutdown
  /\ trouble' = TRUE

Retreat ==
  IF next > 1
  THEN next' = next - 1 /\ UNCHANGED status
  ELSE status' = "stopped" /\ UNCHANGED next

\* The first failure ends the shutdown; main destroys the cycle and returns 0.
GiveUp == status' = "stopped" /\ UNCHANGED next

HaltNothing ==
  /\ status = "stopping" /\ Modules[next] \notin {"event", "http"}
  /\ Retreat
  /\ UNCHANGED <<loaderVars, netVars, server, shutdown, queue, arenas, trouble>>

Closing == At("stopping", "http") /\ server \in DOMAIN servers

\* Mutant: the path stays.
Left(a) == files

\* What wsgi_acceptor_close leaves of the files.
Removed(a) == files \ {a}

Deaf(i) == [a \in Addresses |-> IF serving[a] = i THEN 0 ELSE serving[a]]

\* unload, then unregister, close and unlink; unlink fails if the path has gone
\* with an earlier server of the same address.
CloseServer ==
  /\ Closing
  /\ watched' = watched \ {server}
  /\ sockets' = sockets \ {server}
  /\ serving' = Deaf(server)
  /\ files' = Removed(Conf.listen)
  /\ server' = server + 1
  /\ IF Conf.listen \in Unix \ files THEN GiveUp ELSE UNCHANGED <<status, next>>
  /\ UNCHANGED <<loaderVars, lingering, shutdown, queue, arenas, trouble>>

\* At unregistering, at closing (the socket is gone), or at the unlink.
CloseServerFails ==
  /\ Closing
  /\ GiveUp /\ trouble' = TRUE
  /\ \/ UNCHANGED <<watched, sockets, serving>>
     \/ /\ watched' = watched \ {server}
        /\ sockets' = sockets \ {server}
        /\ serving' = Deaf(server)
  /\ UNCHANGED <<loaderVars, files, lingering, server, shutdown, queue, arenas>>

UnloadCrashes == Closing /\ Garbled(Conf.runtime) /\ Crash

\* The connections, with their arenas.
DrainPool ==
  /\ At("stopping", "http") /\ server > Len(servers)
  /\ arenas' = 0
  /\ Retreat
  /\ UNCHANGED <<loaderVars, netVars, server, shutdown, queue, trouble>>

HaltEvent ==
  /\ At("stopping", "event")
  /\ queue' = FALSE
  /\ \/ Retreat /\ UNCHANGED trouble
     \/ GiveUp /\ trouble' = TRUE
  /\ UNCHANGED <<loaderVars, netVars, server, shutdown, arenas>>

\* wsgi_cycle_destroy frees the cycle's arena; the rest is for the system.
Exit ==
  /\ status \in {"failed", "stopped"}
  /\ status' = "down" /\ UNCHANGED trouble
  /\ Gone

-----------------------------------------------------------------------------

Create == CreateModule \/ CreateFails \/ CreateCrashes
Configure == Load \/ Loaded \/ NotLoaded
InitServers ==
  \/ OpenServer \/ RefuseServer \/ OpenCrashes
  \/ CreateAcceptorFails \/ SocketFails \/ ListenFails \/ ServersOpen
Initialise == InitEvent \/ InitEventFails \/ InitPool \/ InitServers \/ InitNothing
Halt ==
  \/ HaltNothing \/ CloseServer \/ CloseServerFails \/ UnloadCrashes
  \/ DrainPool \/ HaltEvent

Process == Create \/ Configure \/ Initialise \/ FirstTest \/ Halt \/ Exit

CycleNext == Process \/ LeaveLoop \/ WaitFails \/ Launch \/ Signal \/ Kill \/ Linger \/ Expire

CycleSpec == CycleInit /\ [][CycleNext]_cycleVars

\* Whoever can run does: from its start to the first wait, and from the end of
\* the loop to its own.  Nobody has to start the process, to stop it or to fail,
\* and what ends a wait is not its own doing.
FairCycle == CycleSpec /\ WF_cycleVars(Process)

-----------------------------------------------------------------------------
(* Properties *)

\* Every variable has its type; the loops over modules and servers stay in
\* their arrays.
CycleTypeOK ==
  /\ TypeOK
  /\ status \in {"down", "creating", "loading", "initialising", "ready",
                 "running", "stopping", "stopped", "failed", "crashed"}
  /\ next \in DOMAIN Modules /\ server \in 0 .. Len(servers) + 1
  /\ shutdown \in BOOLEAN /\ trouble \in BOOLEAN /\ queue \in BOOLEAN
  /\ arenas \in 0 .. connections
  /\ sockets \subseteq DOMAIN servers /\ watched \subseteq sockets
  /\ serving \in [Addresses -> sockets \cup {0}]
  /\ files \subseteq Unix /\ lingering \subseteq Addresses \ Unix

Listens(i) == servers[i].listen

\* The configuration could be loaded and lacks nothing: every server has an
\* address, a runtime and its option, and no port is there twice.
Complete ==
  /\ result = "loaded"
  /\ \A i \in DOMAIN servers :
       /\ HasRuntime(i) /\ OptionOf(servers[i].runtime) # NULL
       /\ Listens(i) # NULL
       /\ \A j \in DOMAIN servers \ {i} : Listens(i) = Listens(j) => Listens(i) \in Unix

\* A complete configuration fails to start only because a call failed in this
\* life: neither the socket files nor the ports that an earlier process left,
\* wherever it was killed, are in the way.  (A list of runtimes that gave its
\* memory back while servers point there may crash.)
StartsAgain ==
  status \in {"failed", "crashed"} /\ Complete /\ returned = {} => trouble

\* When the loop is reached, and in it, each server of the configuration has an open socket
\* in the event queue, and each address leads to the last server that has it.
AllServed ==
  status \in {"ready", "running"} =>
    \A i \in DOMAIN servers :
      /\ i \in sockets /\ i \in watched
      /\ serving[Listens(i)] >= i
      /\ Listens(serving[Listens(i)]) = Listens(i)

\* As long as a listener is open the event queue and the connections with
\* their arenas, which its handler uses, are there: they come before it and go
\* after it, in the order of the modules and against it.
ListenersHaveAll == sockets # {} => queue /\ arenas = connections /\ arenas > 0

\* A shutdown without trouble leaves nothing to the system: no socket, queue
\* or arena, and no file of a path in the configuration.
CleanStop ==
  status = "stopped" /\ ~trouble /\ (\A i, j \in DOMAIN servers : i # j => Listens(i) # Listens(j)) =>
    /\ sockets = {} /\ watched = {} /\ ~queue /\ arenas = 0
    /\ \A i \in DOMAIN servers : Listens(i) \notin files

\* What an operator sees of it.
State ==
  CASE status \in {"down", "crashed"} -> "down"
    [] status \in {"ready", "running"} -> "up"
    [] status \in {"stopping", "stopped"} -> "stopping"
    [] OTHER -> "starting"
Wanted == {Listens(i) : i \in DOMAIN servers} \ {NULL}
Reached == {a \in Addresses : serving[a] # 0}
Excused == shutdown \/ trouble

Contract == INSTANCE ServiceContract WITH
  state <- State, wanted <- Wanted, served <- Reached, excuse <- Excused

ImplementsContract == Contract!Spec

\* The walk over a document without a mapping never ends: no server was in it.
Endless == result = "loading" /\ rest = <<>> /\ servers = <<>>

\* A start comes to an end: the loop is reached, or the process is gone.
StartDecides ==
  status = "creating" ~> status \in {"ready", "failed", "down", "crashed"} \/ Endless

\* A signal that comes before the loop's first test of the flag, or during the
\* shutdown, ends the process: the start is not interrupted, nothing forgets
\* the flag, and the loop is left without a wait.  A signal that comes inside
\* the loop is left out: between the test and the wait, or before a recv that
\* blocks, it is not seen until something else happens.
SignalStops == shutdown /\ Alive /\ status # "running" ~> ~Alive \/ Endless
=============================================================================
