# wheezy.wsgi: models, checks and proofs

wheezy.wsgi is a small single-threaded server written in C: an event loop
(epoll or kqueue), acceptors for the configured listeners, a pool of
preallocated connections, an incremental HTTP request parser, an arena
allocator under all of it, a YAML configuration and a module system that puts
the parts together. This directory holds TLA+ modules for its core, TLC
configurations that check them on small instances, and proofs that TLAPS checks
for every instance. Paths below are relative to `src/` of the repository's own
tree (`core/`, `event/`, `http/`).

## 1. Inventory

| component | state it keeps | operations | what makes it correct |
|---|---|---|---|
| reactor (`event/wsgi_reactor.c`) | the event loop's vtable, `active` | register, unregister, wait_for_events, destroy | ends after a termination signal; dispatches each event once |
| epoll loop (`event/modules/wsgi_epoll.c`) | epoll descriptor, `events[]` | add (`EPOLLIN\|EPOLLET`), del, wait, close | no event of a batch reaches a connection recycled by an earlier one; no bytes forgotten although an edge is reported once |
| kqueue loop (`event/modules/wsgi_kqueue.c`) | kqueue descriptor, `changes[]`, `index`, `events[]` | add, del, wait, close | the table is what is open; index leaves it only when more is open than it has entries; the kernel has no old handler for a reused descriptor |
| acceptor (`event/wsgi_acceptor.c`) | listening socket, pool, reactor, `handle_open` | create, open, close, handle_event | every error path undoes what was done and no more |
| connection (`event/wsgi_connection.c`) | socket, arena, acceptor, `event_handler`, `request` | init, close | closed once; goes back to the pool with an empty arena |
| http connection (`http/wsgi_http_connection.c`) | uses the request's buffer | open, handle_read | reads what came, closes streams that ended |
| http request (`http/wsgi_http_request.c`) | buffer and positions, parser state, headers, `handle_read` | create, parse_request_line, parse_headers, process | the same request for every division of the stream into reads; writes only over separators |
| pool (`core/wsgi_pool.c`) | `items`, `free[]`, counters | create, acquire, get_back | each item handed out once at a time |
| arena (`core/wsgi_gc.c`) | chain of blocks, references to heap chunks | create, malloc, malloc_ref, reset, destroy | memory in use is never given twice; everything is freed once |
| list (`core/wsgi_list.c`) | items in an arena, length, capacity | create, init, append | grows in place only into free memory |
| socket (`core/wsgi_socket.c`) | descriptor, address | open, accept, close | blocking calls |
| signals (`core/wsgi_signal.c`) | `wsgi_signal_shutdown` | init, handler | seen by the loop |
| http module (`http/wsgi_http_module.c`) | servers, runtimes, pool, settings | directives, create, init, shutdown | every configured address is served; shutdown leaves nothing open |
| event module (`event/wsgi_event_module.c`) | event loop factories, reactor | directives, create, init, shutdown | the queue is there before the listeners and goes after them |
| cycle, main (`core/wsgi_cycle.c`, `wsgi_main.c`) | the modules' contexts | create, init, shutdown, lookup of a directive | init in order, shutdown in reverse; a killed server can be started again |
| configuration (`core/wsgi_config.c`) | stack of blocks and options | load and walk of YAML events | each value goes to the directive that owns it; the walk ends with the document |
| addresses (`core/wsgi_addr.c`) | sockaddr and printable name | parse of a URL, resolve, format | the resolver is asked for what the text says; buffers fit; nothing leaks |
| sample runtime (`http/modules/wsgi_http_sample_module.c`) | list of runtimes, one per server that names it | directives, create, load, process, unload | a server's option stays with its runtime |
| log, alloc | - | | |
| build scripts (`auto/`) | - | | |

### How the parts interact

`wsgi_reactor_wait_for_events` calls the loop's `wait`, which calls
`handle_event` of an acceptor or a connection through the pointer it registered.
An acceptor takes a connection from the pool that all servers share, accepts into
it, registers it and calls `wsgi_http_connection_open`, which creates the request
and reads at once. A connection's handler reads until a read does not fill the
buffer, hands each read to `r->handle_read` (the parser, later the runtime's
`process`), and may close the connection: unregister, close, give back, reset
the arena. A signal handler sets a flag. After the loop the http module closes the
acceptors and then every connection, the event module the event queue.

### What is hard

* Events are collected in a batch and dispatched one by one; a handler can
  close a connection, and another reuse its memory and its descriptor, while
  events of the same batch are still to be dispatched.
* Every call can fail, and each failure has a hand-written list of what to undo.
* The sockets are blocking. A connection is read right after it was accepted,
  so a client that says nothing stops the server for all.
* With epoll an edge is reported once, but a listener accepts one client per event and a
  connection stops reading after a short read.
* A signal can arrive anywhere, the window between the test of the flag and the
  wait included.
* The parser writes NULs into a buffer it may go over again.
* The configuration is a recursive walk without a grammar: it relies on the YAML parser
  for the nesting, directives write to "the last item" of a list, and servers point
  into a list that moves.
* The process can be killed anywhere. What it leaves, socket files and ports in
  TIME_WAIT, is there when it is started again.
* A failed start does not run the shutdown, and the first failure ends a shutdown.
* A list can grow, move and release memory at the end of an arena block that
  others allocate from.

`PROJECT.json` lists these hazards line by line with the properties that cover
them.

## 2. Modules

| module | models | lines of the code |
|---|---|---|
| `ConnectionPool` | `wsgi_pool_t`: the array `free` and the number of entries in use | `core/wsgi_pool.c` |
| `EventServer` (extends `ConnectionPool`) | the loop, acceptors, connections, the read loop, signals, shutdown; the kernel and the clients around them | `event/*`, `http/wsgi_http_connection.c`, part of `http/wsgi_http_module.c` |
| `ServerContract` | what clients may rely on, without pool, batches or event queue | abstract |
| `HttpRequest` | the two parsers, byte by byte, over a buffer filled by reads of any size | `http/wsgi_http_request.c` |
| `HttpMessages` (extends `HttpRequest`) | what a request is for a client, how it is written, and what the runtime must then read | the counterpart of `http/wsgi_http_request.c` |
| `GcArena` | arena and lists over addresses | `core/wsgi_gc.c`, `core/wsgi_list.c` |
| `KqueueChanges` | the table of changes and what the kernel remembers of it | `event/modules/wsgi_kqueue.c` |
| `ConfigLoader` | the walk over YAML events, the directives of all modules, the list of runtimes that moves | `core/wsgi_config.c`, directives of `event/wsgi_event_module.c`, `http/wsgi_http_module.c`, `http/modules/wsgi_http_sample_module.c` |
| `Cycle` (extends `ConfigLoader`) | main, create, init and shutdown of the modules, kills and restarts, socket files | `wsgi_main.c`, `core/wsgi_cycle.c`, lifetime of all modules, `core/wsgi_socket.c`, `event/wsgi_acceptor.c` |
| `ServiceContract` | what an operator may rely on | abstract |
| `Addr` | the split of a `listen` text and the name for the log, with the sizes of the copies | `core/wsgi_addr.c` |
| `ConfigDocuments` (extends `ConfigLoader`) | documents in the form of `conf/wsgi.yaml`: the events of one, and what it means | the counterpart of `core/wsgi_config.c` |
| `ConfigReading` (extends `ConfigDocuments`) | the loader reads one document; what it must then have made of it | |
| `ConfigWords` | words for the instances | |
| `MCConfigReading`, `MCConfigJunk`, `MCCycle`, `MCAddr`, `MCEventServer`, `MCHttpRequest`, `MCGcArena` | small instances for TLC | |
| `EventServerProofs` (with the lemmas of the pool), `HttpRequestProofs`, `GcArenaProofs`, `KqueueChangesProofs`, `ConfigLoaderProofs`, `ConfigReadingProofs`, `CycleProofs`, `AddrProofs` | theorems | |

Definitions named "Mutant" are plausible bugs, each put next to the definition
it would replace. They are used by no specification; they show that a
property can fail.

### EventServer

State. `pc` is where the thread is, named for the next system call; `cur` and
`srv` are the connection and the acceptor a handler works on, `batch` the events not
dispatched yet. `sockfd`, `acceptor`, `last` and `arena` are fields of
`wsgi_connection_t` by pool item. The kernel's half is `phase`, `rcvq` and
`peerEnd` of each client's stream, the listening sockets, the interest list
(`watch`) and, for epoll, the edges not yet reported (`ready`).

Steps. One per system call, since that is where the environment interleaves: the
code between two calls belongs to the step of the first. One `wsgi_connection_close`
is one step, because nobody else can act on what it changes. A wait picks
any nonempty batch of at most `MaxEvents` live files (all of them if they fit); the order of dispatch is
arbitrary. A descriptor is named by its stream, so that two uses of the same number
are told apart; reuse of *memory* is exact, because the pool's items are recycled
as the code recycles them. `EdgeTriggered` chooses between epoll with `EPOLLET` and
kqueue without `EV_CLEAR`.

Failures. `WaitFails`, `AcceptFails`, `RegisterFails` (epoll only: kqueue just
queues the change), `OpenFails`, `CloseAcceptorFails` and `CloseFails`, at most
`MaxFaults` of them in a behaviour; a failure of the client (reset, end of
stream) is not counted and may happen at any time.

The crash. `http/wsgi_http_connection.c:55` logs a failing recv with the format
`"recv, fd: %d, errno %d: %s"` and the arguments `c, fd, errno, strerror(errno)`: one
too many, so that errno is the pointer for `%s`. `core/wsgi_socket.c:120` logs a
failing close with `%s` for the descriptor. Either may kill the process, depending on
the number and the C library. The model has both outcomes: `Die` (state "crashed") or
going on. It is why the liveness properties end in `Broken` or `Stopped`.
A third way to die is `wsgi_socket_accept`: it does not look whether `wsgi_gc_malloc` had memory for
the peer's address (`core/wsgi_socket.c:93`), and `AcceptFails` may end in "crashed", too. Left
out is the crash of a close that fails right after the failing register or create it is to
undo: it takes two failing calls in one handler. The copy of the address by the length
that accept returned is left out with the address.

A full buffer. When a request fills its buffer the code calls recv with size 0; what
that does on a stream with nothing to read depends on the system. `ClosedByPeer` allows it to return 0 at
once, `RecvBlocks` to wait.

### HttpRequest

`Read(n)` appends the next `n` bytes and calls `handle_read`; after it the parser takes
one step per byte, exactly one case of the code's `switch` each. Bytes are eight classes ("SP" is the
space), among them the two names the parser recognises by length and letters. Pointers are
positions; `buffer` and `sent` differ where the parser has written NUL.

`HttpMessages` has requests as a client knows them: method, path, query, protocol and fields
(`Proper`: no part is empty or contains the byte that ends it). `Write` puts one together;
`ParsesWhatWasSent` and `NothingLeftOver` compare what the parser keeps with the request and
not with the text, so they say nothing of how the parser works.

`rewound` is a history variable. When a read ends right behind a header's LF
(or behind the CR of the empty line), `buffer_pos` still points at the start of that
header, which has been cut by NULs: the next read goes over it a second time,
finds no colon where there was one, and joins it with the next line. The code's
results are then different from what was sent. The code may then refuse a proper request, or hand a wrong
one to the runtime. `ParsesWhatWasSent` and `NothingLeftOver` therefore promise nothing behind such a read:
they are stated for the divisions into reads that have none (`~rewound`). The properties about
the buffer and about the order of positions hold for all of them.

Not in the model: memory that runs out. `wsgi_list_append` may return NULL for a header, which
`HeaderEnds`' code follows (`http/wsgi_http_request.c:211`).

### GcArena

A block is `used` and `left`; addresses are offsets behind its header. `Realloc`
follows `wsgi_list_append` in order: ask for twice the memory (which may put a
reference in the same block), and release the old bytes only if they still end
the block. `fails` is an unsigned counter that wraps: after a release without a
new block it becomes the largest value, and the next allocation of a block leaves
that block behind. That loses memory until the next reset, but gives none twice.

### KqueueChanges

`Add`, `Close` (del and the close that follows it in every caller), `OpenFails` (del of a
listener that was never added, at start-up) and `Wait`. Nothing relates the length of the table
to the number of acceptors and connections, in the code or here: `TableAssumption` has only types. An `Add` behind
the last entry sets `overrun`, and what the program does after it is undefined (`Sound`
guards every step). `OverrunOnlyCrowded` says when that happens: exactly if more handlers are open
at once than there are entries, whatever has been added and deleted before.

### ConfigLoader

One step per event of the YAML parser; an event is a string, a scalar standing for
itself. `stack` has one entry per call of `wsgi_config_yaml_parse`, with its block and
the directive `key_found` stands for. A directive is one step with all it changes. What
the code does not look at is in the model as it is: a mapping where a scalar is
expected calls setup with NULL ("crashed"), `sample_option` before the first runtime
writes in front of the list ("undefined"), an alias or the end of a list changes what is
a key. Behind the end of the stream the parser delivers events that are none, so the
walk over a document without a mapping never ends. (A real build shows these
outcomes, too.)

`arrays` keeps every place the list of runtimes has had. A server's `runtime` is a
place in one of them. When the list moves, its old place may be `returned` to the arena,
and from then on any allocation may write over it (`garbled`): the pointers of the servers
that lead there are then worth nothing. Whether a list moves, grows in place or
returns its memory depends on the arena (`GcArena`); here each is possible.

There are two kinds of input. `DocSpec` in `ConfigReading` reads documents built from entries,
so that what the author meant is known (`Valid`, `LastSaid` in `ConfigDocuments`: definitions that do not
know of stacks and events); `Stream` is how such a document is written, one text
of an entry behind the other. `JunkSpec` in `MCConfigJunk` is a YAML parser that may produce any
nesting of events, aliases and syntax errors.

### Cycle

`status` is where main is, `next` the module a loop over `modules[]` is at, `server` the
server of a loop in the http module. Loading is `LoaderNext` of `ConfigLoader`, step by step.
The world keeps `files`, the paths of unix sockets that exist, and `lingering`, ports in
TIME_WAIT, across processes; all else ends with the process (`Gone`). `serving`
says whose socket a client reaches at an address: a path leads to the socket
that was bound last, and unlinking it cuts that socket off. Each call can fail
(`trouble`), `MemoryFails` adds malloc. `Kill` can come at any step. Between "ready" and "running" is the loop's
first test of the flag (`FirstTest`); `LeaveLoop` stands for the later ones.

`OpenServer` is an iteration of the loop in `wsgi_http_module_init`: load, acceptor,
unlink, socket, bind, listen, register. Nothing but a kill can come between them, and
whatever a kill leaves then is left after another step, too: a path that exists or does not.
What the server does while it runs is `EventServer`; its initial state is what
`Initialise` establishes (`AllServed`, `ListenersHaveAll`).

### Addr

A text is a sequence of characters; "unix:" in front of it is a flag. Positions count
from 0 as in the code. Copies have a size and a text, so that the sums in the calls of
malloc can be compared with what is written. `held` is what has to be freed, the copy of the host and
the resolver's answer: each step takes out what its code frees, and nothing else does. The resolver may answer or not; an address
is what `inet_ntop` writes.

## 3. Runs

| run | instance | shows |
|---|---|---|
| `epoll` | 2 listeners, 3 clients, 2 connections, batches of 2, edges, 1 fault, buffers of 1 and 2 | `ServerInv` (the inductive invariant whole), `EventStillReadable`, `OpenConnectionUsable`, `FreshArena`, `CleanExit`, `DataNotStranded`, `EdgeHasClient`, and that `EventServer` implements `ServerContract` |
| `kqueue_live` | 1 listener, 3 clients, 1 connection, level-triggered, 1 fault | `PoolExact`, `NoStaleEvent`, `PendingLeaves`, `HangupCloses`, `SignalEnds` |
| `epoll_live` | the same, edge-triggered, no fault | `EdgeHangupCloses` |
| `peer_shutdown` | as `kqueue_live`, no fault | violated on purpose, see below |
| `http_request` | 12 requests, with and without a body, and lines or headers followed by up to 4 arbitrary bytes of 5 kinds, in every division into reads | `ParsesWhatWasSent`, `NothingLeftOver`, `OverwritesSeparators`, `HeaderInOrder` |
| `gc_arena` | 2 lists and 2 other owners in up to 4 blocks, 2 references | `NoOverlap`, `Accounted`, `ChunksKept`, `ListsFit` |
| `kqueue_changes` | 2 acceptors, 2 connections, 4 descriptors, 3 entries | `OverrunOnlyCrowded`, `KnotesOwned`, `WaitWatchesAll` |
| `kqueue_overrun` | 1 acceptor, 2 connections, 2 entries | violated on purpose, see below |
| `config_documents` | some 1 500 documents of up to 5 servers, a list of capacity 2 | `LoadsWhatItSays`, `RefusesWhatIsWrong`, `LoadingEnds` |
| `config_junk` | up to 12 events of any nesting, 5 scalars, a list of capacity 1, no memory | `BlocksHaveServers`, `RuntimesOwned` |
| `cycle` | 10 configurations, 2 paths and a port, a build with both loops | `StartsAgain`, `AllServed`, `ListenersHaveAll`, `CleanStop`, `StartDecides`, `SignalStops`, and that `Cycle` implements `ServiceContract` |
| `addr` | every text of up to 8 characters of `:`, `[`, `]` and a digit | `MemoryInOrder`, `AsksForTheText`, `NameLeadsBack` |

Bounds. Two connections for three clients is the smallest instance in which one
is recycled while another is open and a client is refused; with batches of two an
event can be followed by another of the same batch that it might have made stale,
and with three files ready some have to wait for the next batch. Two listeners
share the pool and have different buffers: one byte, which every first read
fills (client c1), and two (c2 and c3, which are alike: their symmetry is used, and the properties
of those runs are all safety properties), which a read fills or does not. Two queued bytes are enough for a short read, a full
one, and one that leaves bytes behind. One fault reaches each error path; the
proofs have no such bound. The live runs have one connection, so that the pool is empty
whenever a client is served. The level-triggered one has a fault, because an accept or an open that fails
must not make anybody wait; the edge-triggered one has none.
The refinement is checked with edges and proved for both kinds of queue.
In `kqueue_changes` three entries for four handlers let the table be filled, left, and written past. In the parser a request of three headers, each of which can be cut at
every byte, reaches every state, and four arbitrary bytes put any two separators
in a wrong place. In the arena a
list moves out of the first block, into a later one and to the heap; the counter wraps
at 8 instead of 2^32.
Documents of three
and of five servers make the list of runtimes grow once and twice, in place, elsewhere, and
giving memory back. Twelve events are two servers, or one between other collections, with the
end of each at any place. In `cycle` one configuration
is the repository's own; the others have a repeated path, a repeated port, no `listen`, no
option, no runtime, three servers, a directive that is wrong or other, and no mapping. The
number of restarts is not bounded: what outlives a process is finite. Eight characters hold
the longest shapes that are told apart, an IPv6 address in brackets with a port
and one character too many.

Deadlock is not checked: every one of these systems may really stop (the process ends, the stream is
parsed, the arena is destroyed).

The violated runs. `http/wsgi_http_connection.c:44` says that recv returns 0 "when the
peer has performed an orderly shutdown", and line 48 logs "closed by peer".
`PeerPerformedShutdown` says so, and TLC finds the request that fills its
buffer exactly: recv is called with size 0, returns 0 and the connection is
closed under a client that is still sending.

`event/modules/wsgi_kqueue.c:64` allocates `length` entries, and line 112 takes the next one whatever the
index. The defaults are 16 events (`event/wsgi_event.h:14`) and 16 connections
(`http/wsgi_http.h:17`), to which the listeners come. `WritesInTable` says that nothing is
written behind the table; TLC opens a listener and as many connections as there are entries.
`conf/wsgi.yaml` (16 events, 8 connections, 2 listeners) has entries for all, and then
`WritesInTable` holds (`EntriesForAll`).

### Fairness

`FairSpec` has weak fairness of `Thread`, the server's own steps: the operating
system runs a thread that can run. Failures, signals and clients' steps are not fair.
`SpeakingSpec` adds that each connected client eventually sends, closes or resets. Without it
nothing can be promised: the server blocks in recv on the first client that is
silent. The code has no timeout, so this is an assumption about the network and not
about the code.

`FairCycle` has weak fairness of the process's own steps from its start to the first test of the
flag, and from the end of the loop to its own, for the same reason. `LeaveLoop` is not fair: a signal
that comes while the loop runs may come behind the test, or during a recv, and the thread then waits
as long as nothing arrives. `SignalStops` is therefore about signals that come before the loop is entered or
after it is left. That a running loop sees the flag is `SignalEnds`, with clients that speak
and without the window. Starting the process, signals, kills and the failure of a wait are not fair
either. `DocSpec` has weak fairness of the loader. The liveness properties of `cycle` end in `Endless`, too: a
document without a mapping.

What is *not* promised, and therefore not stated. With epoll a client can
stay in the accept queue until another one connects (one accept per edge), and
a stream whose last bytes and end arrive before one read stays open (a short
read ends the handler). A signal between the test of the flag and the wait is seen only
after the next event; `SignalEnds` leaves that window out, and `SignalStops` the loop. A request
one of whose reads begins at a header line that is already cut may be refused or mangled (`rewound`). Shutdown
is not clean for a configuration with a repeated address.

## 4. Proofs

`EventServerProofs` proves, for every number of servers, clients, connections,
events, buffer sizes, faults and both kinds of event queue,

    THEOREM Invariance == Spec => []ServerInv

and from it `TypeOK`, `PoolExact`, `StreamOwned`, `WatchExact` and `NoStaleEvent`. The
assumptions are `CapacityAssumption` and `ServerAssumption` (types of the constants).

`ServerInv` is the conjunction of these with two more. None of the five is inductive
alone. `NoStaleEvent` needs `WatchExact` (an event names the watched pointer), and a
handler that closes `cur` needs to know that no undispatched event is for `cur`: an
event is taken out of the batch before it is handled and a file is in a batch once;
that is `BatchInv`, which also says the batch is empty wherever the thread waits or shuts down.
`PoolExact` needs `HandlerInv`: what is in `cur` at each place, and that an
open connection has an acceptor through which it can be closed. A step that takes a
connection needs `Distinct` and the exact account of what is in the pool.

The second half of `EventServerProofs` proves the other invariants of the server,
`EventStillReadable`, `OpenConnectionUsable`, `FreshArena`, `CleanExit`, `DataNotStranded`
and `EdgeHasClient` (this one for finitely many clients, since it counts them). `UsageInv` has a
part for each, and every part but `Edges` is inductive next to `ServerInv` alone. What has to be
added is mostly about a handler that is under way: at `recv` the request is empty, full, or its
stream is readable (`Pending`); while the thread registers a connection its
acceptor is still in `srv` (`Dialled`); the arenas below the index of the last loop are gone
(`Arenas`); nobody is queued at a closed listener (`Queued`). That an edge has a client of its own
needs `Pending`, which makes sure that an event under way has one, too. `StepKinds`
groups the steps by what the parts can tell apart.

    THEOREM KeepsContract == Spec => ImplementsContract

says that the server implements `ServerContract`. Two facts are added to the invariants
(`Refusals`): a stream that is not connected is silent, and a client is turned away only
with the pool empty. The rest is counting, a bijection between the connections in use
and the streams that are served (`ServedCount`), and what each step does to the set
of streams that have spoken (`SpokenSame`, `SpokenWithout`).

`EventServerProofs` begins with the lemmas about the pool: acquire removes exactly the
item it returns, get_back puts exactly one in, and the array never overflows
because an item that is not in the pool leaves an entry free (the
pigeonhole principle on `free`).

`KqueueChangesProofs` proves `TypeOK`, `OverrunOnlyCrowded`, `TableExact`, `KnotesOwned` and `WaitWatchesAll` for
every table and any number of handlers. The inductive invariant counts: the
index is the number of open handlers, since del takes out the one entry of the handler it closes.

    THEOREM EntriesForAll == ASSUME Cardinality(Handlers) <= EventsLength PROVE Spec => []WritesInTable

is what a configuration has to see to, because the code does not.

`ConfigLoaderProofs` proves that `TypeOK`, `BlocksHaveServers` and `RuntimesOwned` hold
whatever events the YAML parser delivers, for every set of scalars and every size of the
list of runtimes. The inductive invariant is `LoaderInv`. `BlocksHaveServers` needs that the walk
has a call as long as it goes on; `RuntimesOwned` needs `Owners`: the server that has the
last item points to where the list is now, because `sample_option` writes there, and
an older pointer leads to an array that still reads like the list in all
items but the last. There is a lemma for what each kind of step does to the blocks (`WithKeyKeeps`,
`PushKeeps`, `PopKeeps`), one for what an append leaves in the arrays (`ItemAppended`), and
three for whose item is whose.

`ConfigReadingProofs` is about documents in the form of `conf/wsgi.yaml`, with any number of
entries and servers and any capacity of the list:

    THEOREM LoadedAsMeant == DocSpec => []LoadsWhatItSays
    THEOREM RefusedRightly == DocSpec => []RefusesWhatIsWrong

Neither says anything of a walk that is under way, so the inductive invariant `ReadInv` does. It
has a predicate for each place the walk can be at (`AtEntry`, `AtValue`, `AtList`,
`AtServer`, `AtSetting`, `AtSettingValue`): which calls are on the stack, what is left of the stream
(`EntryRest`, `ServerRest`, `SettingRest`), and that what has been set means what has been read: the
first i entries for the root (`RootMeans`), the whole of each server that is complete, and the first k settings of
the last one (`ServerMeans`). Three things make it inductive. A directive is refused as a duplicate by the
value the first one has left, so the values have to say what was said before (`LastSaid`, and 0 for
a number that may be repeated). `sample_option` writes to the last item of the list, so the
last server's runtime, if it has one, is that item (`SettingsRead`); in a document whose options all
come behind their runtimes (`AllOrdered`) nobody else's is changed. And where the list has moved
it takes `RuntimesOwned` to get from what the list says to what a server's pointer reads.
Texts behind each other and servers of several lists are recursive functions; that
they exist, for any number, is again a least counterexample (`FromExists`, `BlocksExist`).
`DocumentsAssumption` says that the documents have that form, and that in the streams that are no mappings
no mapping ends.

`NeverBehindTheEnd` is the part of `LoadingEnds` that can be proved: while a mapping is
being loaded there is a next event, and each step takes one. What is left to TLC is fairness.

`CycleProofs` proves `AllServed`, `ListenersHaveAll`, `CleanStop`, the types and, for a build with an
event loop, `StartsAgain`, for every configuration and any number of kills and restarts. `CycleAssumption` says that no
event loop has the name of another module, since a module is found by its name.
The inductive invariant `CycleInv` contains `LoaderInv`, because the servers come from the loader,
and four parts for the process: `Resources` says what is there at each place of
the loops over `modules[]` (from it `ListenersHaveAll`: the queue comes before the http module
and goes after it), `Served` that the servers before `server` are open and reached,
`Closed` that those before it are closed and their files gone, which is true only if no two
have the same address. `CleanStop` follows where `Closed` has run over all servers. `StartsAgain` is inductive itself:
a start fails of itself only for an address that an earlier server of the same
process has taken.

Its last theorem is `CycleSpec => ImplementsContract`, that the process
implements `ServiceContract`: what is served (`Reached`) shrinks and grows one address at a time
and is all that is configured (`Wanted`) when the service is up, which is `AllServed`.

`AddrProofs` proves `TypeOK`, `MemoryInOrder`, `AsksForTheText` and `NameLeadsBack` for
texts and resolver answers of any length. Its lemmas say what the split at brackets and colons
does and that it undoes how the log's names are joined (`SplitJoins`, `SplitsPlain`,
`SplitsBracketed`); the last colon is the greatest of a finite set of positions
(`Greatest`). `AddrAssumption` has what is known of the resolver's answers: numeric IPv4
texts do not begin with a bracket.

`GcArenaProofs` proves `TypeOK`, `NoOverlap`, `Accounted`, `ChunksKept` and `ListsFit`, for
every size of a block, any number of blocks, references, lists and other allocations, and a counter of
any width. The inductive invariant (`Inv`) adds the sizes of what each owner has (`RegionsSized`).
That is what the release of a list's old memory rests on: a list whose items end what its block
has given is the last in that block (`NothingBehind`), so that giving its bytes back, or
letting it grow in place, takes them from nobody. The three ways to make a list longer are put
together from a few facts about single operations: what `Carve` gives is behind everything (`CarveFresh`), a chunk is
one nobody has, and a reference is kept in memory of its own (`KeepChunkSound`). The walk over the
chain of blocks is a recursive function; that it exists, and that it ends at a block, is
proved for chains of any length by a least counterexample (`WalkExists`, `WalkBounds`).

`HttpRequestProofs` has two inductive invariants. `Inv` holds for whatever a peer sends: it
proves `TypeOK`, `OverwritesSeparators`, `HeaderInOrder`, and one property more, `StringsEnd`, that
every pointer the runtime can follow is a C string that ends in the buffer. It
needs `HeaderPlace`, the order of the positions a header line has at each
state and the separators it has found there, also in a line that is gone over twice.

`ReadsInv` is about a stream that starts with a request. `Layout` says where each part of the
request is in the stream, and `Reads` what has become of it in each state: the parser is
inside a certain part (`LineOf`, `HeaderOf`), what is in front of it is cut into the strings it
should be (`MethodRead` ... `HeadersRead`), and from there on nothing has been overwritten (`Uncut`). This
is why reads may begin and end anywhere: the request line goes on where it is, and
a header line that is read again is still as it was sent, unless it has been cut, which is
`rewound`. `ReadsInvariance` proves it, for every request and every `Layout`, as long as `~rewound`; `LayoutExists` that a stream which starts with a
written request has one, for any number of fields (`WrittenExists`, `FirstFieldsStand` by a least
counterexample). From both,

    THEOREM RuntimeGetsTheRequest == Spec => []ParsesWhatWasSent
    THEOREM RequestsAreNotRefused == Spec => []NothingLeftOver

for requests with parts of any length and any number of headers, in every division into reads in which none
begins at a header line that is already cut: both properties, and `ReadsInv`, hold only as long as
`~rewound`. Behind such a read they would be false of the code. The
assumptions are `StreamsAssumption` and `MessagesAssumption`: streams are made of the eight kinds
of bytes, and requests are `Proper`.

Every safety property the passing runs check is a theorem, and both refinements are. Only model-checked
is liveness (`PendingLeaves`, `HangupCloses`, `SignalEnds`, `EdgeHangupCloses`, `LoadingEnds`, `StartDecides`,
`SignalStops`): liveness under fairness, and ENABLED with it, is out of the prover's reach.

## 5. Not modelled, and the plan

Not modelled: formatting and writing of log lines (except that two of them kill the process),
the build scripts, which only list files and modules, and the body of the sample runtime's
`process`, which logs. stdio in the signal handler, aborted connections that vanish from the accept
queue (on Linux they stay), two processes at a time, negative numbers in the configuration, scopes
of IPv6 addresses, and the alignment of arena allocations are left out. The YAML parser, the
resolver and the kernel are modelled from how the code uses them.

Left for later: a composition of `EventServer` and `GcArena` for one connection, in which
what the request allocates is gone after a reset.
