---------------------------- MODULE ConfigLoader ----------------------------
(***************************************************************************)
(* wsgi_config_load: the walk over the events of a YAML parser, and what   *)
(* the directives of the event, http and sample modules make of them.      *)
(*                                                                         *)
(* An event is a string: a scalar stands for itself, the start and the end *)
(* of a collection for its bracket.  Each step takes one event.  The       *)
(* servers keep pointers to items of the list of sample runtimes, which    *)
(* moves when it grows: the arrays it has left are kept here, too.         *)
(***************************************************************************)
EXTENDS Integers, Sequences

CONSTANTS
  Scalars,       \* the scalars of the documents
  Loops,         \* names of the event loops of the build, in order
  Lower,         \* [Scalars -> Scalars]: without regard to case (strcasecmp)
  Atoi,          \* [Scalars -> Nat]: the number a scalar is read as
  Addresses,     \* scalars wsgi_addr_resolve can resolve
  ListCapacity,  \* items a list starts with
  MemoryFails    \* FALSE: malloc and strdup always succeed

NULL == "NULL"

\* Brackets; an event the walk ignores (start and end of the stream and of the
\* document, an alias); and text the YAML parser cannot go on with.
Marks == {"{", "}", "[", "]", "ignored", "error"}

ASSUME ConfigAssumption ==
  /\ Scalars \cap (Marks \cup {NULL}) = {}
  /\ Loops \in Seq(Scalars)
  /\ Lower \in [Scalars -> Scalars]
  /\ Atoi \in [Scalars -> Nat]
  /\ Addresses \subseteq Scalars
  /\ ListCapacity \in Nat \ {0}
  /\ MemoryFails \in BOOLEAN

VARIABLES
  rest,         \* events the parser has not returned yet
  stack,        \* calls of wsgi_config_yaml_parse: their block and key found
  result,       \* "unopened", "loading", then how it ended
  use,          \* event_loop_factory of the event module
  events,       \* `events' of the event module
  connections,  \* `worker_connections' of the http module
  servers,      \* the list of servers of the http module
  arrays,       \* sample_option of the items of each array the list had
  capacity,     \* of the list of sample runtimes
  returned,     \* arrays the list gave back to the arena when it moved
  garbled       \* arrays whose memory has been given to something else

configVars == <<use, events, connections, servers>>
listVars == <<arrays, capacity, returned, garbled>>
loaderVars == <<rest, stack, result, use, events, connections, servers,
                arrays, capacity, returned, garbled>>

\* The last two are no ends the code has: a NULL pointer was followed, and
\* memory that is no item of the list was written.
Ends == {"loaded", "failed", "no memory", "unreadable", "crashed", "undefined"}

Directives ==
  [root   |-> {"use", "events", "worker_connections", "servers"},
   server |-> {"listen", "request_header_buffer_size", "runtime", "sample_option"}]

NoRuntime == <<0, 0>>   \* a runtime is an array and the item in it
Items == arrays[Len(arrays)]
Server == servers[Len(servers)]

LoaderInit ==
  /\ rest \in Seq(Scalars \cup Marks)
  /\ stack = <<>>
  /\ result = "unopened"
  /\ use = NULL /\ events = 0 /\ connections = 0
  /\ servers = <<>>
  /\ arrays = << <<>> >> /\ capacity = ListCapacity
  /\ returned = {} /\ garbled = {}

-----------------------------------------------------------------------------
(* The directives.  Each step below is one whole call of setup; it is OK    *)
(* unless it says otherwise.                                                *)

\* Somebody allocates from the arena: perhaps what the list gave back.
Allocate == garbled' \in {garbled, garbled \cup returned}

Use(v) ==
  /\ use' = IF Lower[v] = "auto" /\ Loops # <<>> THEN Loops[1] ELSE Lower[v]
  /\ UNCHANGED <<events, connections, servers, listVars>>

Events(v) ==
  /\ events' = Atoi[v]
  /\ UNCHANGED <<use, connections, servers, listVars>>

WorkerConnections(v) ==
  /\ connections' = Atoi[v]
  /\ UNCHANGED <<use, events, servers, listVars>>

Set(field, x) == servers' = [servers EXCEPT ![Len(servers)][field] = x]

Listen(v) ==
  /\ Set("listen", v)
  /\ Allocate
  /\ UNCHANGED <<use, events, connections, arrays, capacity, returned>>

BufferSize(v) ==
  /\ Set("size", Atoi[v])
  /\ UNCHANGED <<use, events, connections, listVars>>

\* wsgi_list_append: there is room, or the memory behind the items is free, or
\* the items move, and what they leave is given back if it ends the block.
AppendHere == arrays' = [arrays EXCEPT ![Len(arrays)] = Append(@, NULL)]

AppendItem ==
  \/ /\ Len(Items) < capacity
     /\ AppendHere
     /\ UNCHANGED <<capacity, returned, garbled>>
  \/ /\ Len(Items) = capacity
     /\ AppendHere
     /\ capacity' = 2 * capacity
     /\ UNCHANGED <<returned, garbled>>
  \/ /\ Len(Items) = capacity
     /\ arrays' = Append(arrays, Append(Items, NULL))
     /\ capacity' = 2 * capacity
     /\ returned' \in {returned, returned \cup {Len(arrays)}}
     /\ Allocate

\* Mutant: the last item is taken if there is one.
RuntimeShared(v) ==
  /\ IF Items = <<>> THEN AppendItem ELSE UNCHANGED listVars
  /\ Set("runtime", <<Len(arrays'), Len(arrays'[Len(arrays')])>>)
  /\ UNCHANGED <<use, events, connections>>

Runtime(v) ==
  /\ AppendItem
  /\ Set("runtime", <<Len(arrays'), Len(Items) + 1>>)
  /\ UNCHANGED <<use, events, connections>>

\* Mutant: the option goes to the first item.
SampleOptionFirst(v) ==
  /\ arrays' = [arrays EXCEPT ![Len(arrays)][1] = v]
  /\ UNCHANGED <<configVars, capacity, returned, garbled>>

\* The option goes to the last item of the list, whoever created it; nobody
\* looks at what strdup returned.
SampleOption(v) ==
  /\ \E copy \in IF MemoryFails THEN {v, NULL} ELSE {v} :
       arrays' = [arrays EXCEPT ![Len(arrays)][Len(Items)] = copy]
  /\ UNCHANGED <<configVars, capacity, returned, garbled>>

\* A repeated directive is found by the value the first has left.
Duplicate(key) ==
  \/ key = "events" /\ events > 0
  \/ key = "worker_connections" /\ connections > 0
  \/ key = "listen" /\ Server.listen # NULL
  \/ key = "request_header_buffer_size" /\ Server.size # 0
  \/ key = "runtime" /\ Server.runtime # NoRuntime

KnownLoop(v) ==
  \/ Lower[v] = "auto" /\ Loops # <<>>
  \/ \E i \in DOMAIN Loops : Loops[i] = Lower[v]

Unsupported(key, v) ==
  \/ key = "use" /\ ~KnownLoop(v)
  \/ key = "listen" /\ v \notin Addresses
  \/ key = "runtime" /\ Lower[v] # "sample"

Apply(key, v) ==
  \/ key = "use" /\ Use(v)
  \/ key = "events" /\ Events(v)
  \/ key = "worker_connections" /\ WorkerConnections(v)
  \/ key = "listen" /\ Listen(v)
  \/ key = "request_header_buffer_size" /\ BufferSize(v)
  \/ key = "runtime" /\ Runtime(v)
  \/ key = "sample_option" /\ Items # <<>> /\ SampleOption(v)

-----------------------------------------------------------------------------
(* The walk *)

Open ==
  /\ result = "unopened"
  /\ result' = "loading"
  /\ stack' = <<[block |-> "root", key |-> NULL]>>
  /\ UNCHANGED <<rest, configVars, listVars>>

\* fopen or yaml_parser_initialize failed.
OpenFails ==
  /\ result = "unopened"
  /\ result' = "unreadable"
  /\ UNCHANGED <<rest, stack, configVars, listVars>>

Frame == stack[Len(stack)]
WithKey(k) == [stack EXCEPT ![Len(stack)].key = k]

\* Behind the end of the stream the parser returns no events, and no error:
\* the walk goes round and nothing changes.
Take(e) ==
  /\ result = "loading"
  /\ rest # <<>>
  /\ Head(rest) = e
  /\ rest' = Tail(rest)

Stop(end) == result' = end /\ UNCHANGED <<stack, configVars, listVars>>
GoOn(s) == stack' = s /\ UNCHANGED result
Pass(s) == GoOn(s) /\ UNCHANGED <<configVars, listVars>>

Ignored == Take("ignored") /\ Pass(stack)

ParseError == Take("error") /\ Stop("failed")

ServersFull == \E n \in 0 .. Len(servers) : Len(servers) = ListCapacity * 2^n

\* Mutant: the new block is entered although no server was added.
AddNoServer ==
  /\ GoOn(Append(stack, [block |-> "server", key |-> NULL]))
  /\ UNCHANGED <<configVars, listVars>>

\* wsgi_http_config_server, then the recursive call for the new server.
AddServer ==
  /\ servers' = Append(servers, [listen |-> NULL, size |-> 0, runtime |-> NoRuntime])
  /\ IF ServersFull THEN Allocate ELSE UNCHANGED garbled
  /\ GoOn(Append(stack, [block |-> "server", key |-> NULL]))
  /\ UNCHANGED <<use, events, connections, arrays, capacity, returned>>

\* Every other directive takes the missing value of a mapping for a string.
MappingStart ==
  /\ Take("{")
  /\ \/ Frame.key = NULL /\ Pass(stack)
     \/ Frame.key = "servers" /\ AddServer
     \/ Frame.key = "servers" /\ ServersFull /\ MemoryFails /\ Stop("no memory")
     \/ Frame.key \notin {NULL, "servers"} /\ Duplicate(Frame.key) /\ Stop("failed")
     \/ Frame.key \notin {NULL, "servers"} /\ ~Duplicate(Frame.key) /\ Stop("crashed")

SequenceStart ==
  /\ Take("[")
  /\ \/ Frame.key \in {NULL, "servers"} /\ Pass(stack)
     \/ Frame.key \notin {NULL, "servers"} /\ Stop("failed")

\* Mutant: the key of the sequence is kept.
SequenceEndKeeps == Take("]") /\ Pass(stack)

SequenceEnd == Take("]") /\ Pass(WithKey(NULL))

\* Mutant: only the end of a server ends anything.
MappingEndGoesOn ==
  /\ Take("}")
  /\ Pass(IF Len(stack) > 1 THEN SubSeq(stack, 1, Len(stack) - 1) ELSE stack)

MappingEnd ==
  /\ Take("}")
  /\ IF Len(stack) > 1
     THEN Pass(SubSeq(stack, 1, Len(stack) - 1))
     ELSE Stop("loaded")

\* wsgi_cycle_lookup_config: a directive of some module for this block.
Key(e) ==
  /\ Frame.key = NULL
  /\ \/ e \in Directives[Frame.block] /\ Pass(WithKey(e))
     \/ e \notin Directives[Frame.block] /\ Stop("failed")

Value(v) ==
  /\ Frame.key # NULL
  /\ \/ /\ Frame.key # "servers"
        /\ ~Duplicate(Frame.key) /\ ~Unsupported(Frame.key, v)
        /\ Apply(Frame.key, v)
        /\ GoOn(WithKey(NULL))
     \/ /\ Frame.key = "servers" \/ Duplicate(Frame.key) \/ Unsupported(Frame.key, v)
        /\ Stop("failed")
     \/ /\ Frame.key = "sample_option" /\ Items = <<>>
        /\ Stop("undefined")
     \/ /\ MemoryFails
        /\ \/ Frame.key = "listen" /\ ~Duplicate("listen")
           \/ /\ Frame.key = "runtime" /\ ~Duplicate("runtime") /\ Lower[v] = "sample"
              /\ Len(Items) = capacity
        /\ Stop("no memory")

Scalar == \E e \in Scalars : Take(e) /\ (Key(e) \/ Value(e))

LoaderNext ==
  \/ Open \/ OpenFails
  \/ Ignored \/ ParseError
  \/ MappingStart \/ MappingEnd \/ SequenceStart \/ SequenceEnd \/ Scalar

LoaderSpec == LoaderInit /\ [][LoaderNext]_loaderVars /\ WF_loaderVars(LoaderNext)

-----------------------------------------------------------------------------
(* Properties of the loader, whatever the document *)

Option == Scalars \cup {NULL}

TypeOK ==
  /\ rest \in Seq(Scalars \cup Marks)
  /\ stack \in Seq([block : {"root", "server"}, key : {NULL} \cup UNION {Directives[b] : b \in {"root", "server"}}])
  /\ result \in {"unopened", "loading"} \cup Ends
  /\ use \in Option /\ events \in Nat /\ connections \in Nat
  /\ servers \in Seq([listen : Addresses \cup {NULL}, size : Nat, runtime : Nat \X Nat])
  /\ arrays \in Seq(Seq(Option)) /\ arrays # <<>>
  /\ capacity \in Nat /\ Len(Items) <= capacity
  /\ garbled \subseteq returned /\ returned \subseteq 1 .. Len(arrays) - 1

\* Inside the block of a server there is a server: its directives write to the
\* last item of the list without looking.  Blocks are never nested deeper, and
\* a key that is waiting for its value is one of its block.
BlocksHaveServers ==
  \A i \in DOMAIN stack :
    /\ stack[i].block = IF i = 1 THEN "root" ELSE "server"
    /\ stack[i].block = "server" => servers # <<>> /\ stack[i - 1].key = "servers"
    /\ stack[i].key \in Directives[stack[i].block] \cup {NULL}

HasRuntime(i) == servers[i].runtime # NoRuntime

\* Every server with a runtime has one of its own, and while its memory is not
\* given back, what the server's pointer reads there is what the list says:
\* moving the items leaves no server with an option that changed later.
RuntimesOwned ==
  \A i \in {j \in DOMAIN servers : HasRuntime(j)} :
    LET a == servers[i].runtime[1]
        n == servers[i].runtime[2]
    IN /\ n \in DOMAIN arrays[a] /\ n \in DOMAIN Items
       /\ arrays[a][n] = Items[n]
       /\ \A j \in DOMAIN servers \ {i} : servers[j].runtime[2] # n
=============================================================================
