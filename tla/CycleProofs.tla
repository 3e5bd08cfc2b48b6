---------------------------- MODULE CycleProofs -----------------------------
(***************************************************************************)
(* Whatever the configuration, and however often the process is killed and *)
(* started again: a listener never outlives what its handler uses, the     *)
(* server that runs serves all of its configuration, an orderly stop       *)
(* leaves nothing, and what an earlier life has left is not in the way.    *)
(* The process keeps the contract with its operator.                       *)
(***************************************************************************)
EXTENDS Cycle, ConfigLoaderProofs

Nobody == [a \in Addresses |-> 0]

Bare ==
  /\ sockets = {} /\ watched = {} /\ serving = Nobody
  /\ ~queue /\ arenas = 0

Equipped == queue /\ arenas = connections /\ arenas > 0

Kinds ==
  /\ status \in {"down", "creating", "loading", "initialising", "ready",
                 "running", "stopping", "stopped", "failed", "crashed"}
  /\ next \in 1 .. Len(Modules) /\ server \in 0 .. Len(servers) + 1
  /\ shutdown \in BOOLEAN /\ trouble \in BOOLEAN /\ queue \in BOOLEAN
  /\ arenas \in 0 .. connections
  /\ sockets \subseteq DOMAIN servers /\ watched \subseteq sockets
  /\ serving \in [Addresses -> sockets \cup {0}]
  /\ files \subseteq Unix /\ lingering \subseteq Addresses \ Unix

\* What is there at each place; the modules are numbered in their order.
Resources ==
  /\ status \in {"down", "crashed", "creating", "loading"} => Bare
  /\ status \in {"creating", "loading"} => server = 0
  /\ status = "initialising" =>
       /\ next = 1 => Bare /\ server = 0
       /\ next = 2 => IF server = 0 THEN queue /\ sockets = {} /\ serving = Nobody
                                    ELSE Equipped
       /\ next > 2 => Equipped /\ server > Len(servers)
  /\ status \in {"ready", "running"} => Equipped /\ server > Len(servers)
  /\ status = "stopping" =>
       IF next > 1 THEN Equipped ELSE sockets = {} /\ arenas = 0
  /\ ListenersHaveAll

\* The servers before `server' are open.
Served ==
  status \in {"initialising", "ready", "running"} =>
    /\ \A i \in DOMAIN servers : i < server =>
         /\ i \in sockets /\ i \in watched
         /\ Listens(i) \in Addresses /\ serving[Listens(i)] >= i
         /\ Listens(i) \in Unix => Listens(i) \in files
    /\ \A a \in Addresses : serving[a] # 0 => serving[a] < server /\ Listens(serving[a]) = a

Distinct == \A i, j \in DOMAIN servers : i # j => Listens(i) # Listens(j)

\* The servers before `server' are closed, and their files are gone.
Closed ==
  status = "stopping" =>
    /\ server >= 1 /\ (next > 2 => server = 1) /\ (next = 1 => server > Len(servers))
    /\ \A i \in sockets : i >= server
    /\ \A a \in Addresses : serving[a] # 0 => Listens(serving[a]) = a
    /\ Distinct => \A i \in DOMAIN servers :
         IF i < server THEN Listens(i) \notin files
                       ELSE Listens(i) \in Unix => Listens(i) \in files

CycleInv ==
  /\ LoaderInv /\ Kinds
  /\ Resources /\ Served /\ Closed
  /\ Loops # <<>> => StartsAgain
  /\ CleanStop

LEMMA ModulesAre ==
  ASSUME ConfigAssumption, CycleAssumption
  PROVE  /\ Len(Modules) \in Nat /\ Len(Modules) >= 3 /\ DOMAIN Modules = 1 .. Len(Modules)
         /\ Modules[1] = "event" /\ Modules[2] = "http"
         /\ \A i \in 1 .. Len(Modules) : i > 2 => Modules[i] \notin {"event", "http"}
<1> DEFINE three == <<"event", "http", "sample">>
           S == {"event", "http", "sample"} \cup Scalars
<1>1. /\ three \in Seq(S) /\ Len(three) = 3
      /\ three[1] = "event" /\ three[2] = "http" /\ three[3] = "sample"
  OBVIOUS
<1>2. Loops \in Seq(S) /\ Len(Loops) \in Nat /\ DOMAIN Loops = 1 .. Len(Loops)
  <2>1. Loops \in Seq(Scalars)
    BY DEF ConfigAssumption
  <2>2. Len(Loops) \in Nat /\ DOMAIN Loops = 1 .. Len(Loops)
    BY <2>1, LenProperties
  <2>3. \A i \in 1 .. Len(Loops) : Loops[i] \in S
    BY <2>1, <2>2, ElementOfSeq
  <2> QED  BY <2>1, <2>2, <2>3
<1> HIDE DEF three, S
<1>3. /\ three \o Loops \in Seq(S) /\ Len(three \o Loops) = 3 + Len(Loops)
      /\ \A i \in 1 .. 3 + Len(Loops) :
           (three \o Loops)[i] = IF i <= 3 THEN three[i] ELSE Loops[i - 3]
  <2>1. three \in Seq(S) /\ Loops \in Seq(S)
    BY <1>1, <1>2
  <2>2. /\ three \o Loops \in Seq(S) /\ Len(three \o Loops) = Len(three) + Len(Loops)
        /\ \A i \in 1 .. Len(three) + Len(Loops) :
             (three \o Loops)[i] = IF i <= Len(three) THEN three[i] ELSE Loops[i - Len(three)]
    BY <2>1, ConcatProperties
  <2>3. Len(three) = 3
    BY <1>1
  <2> QED  BY <2>2, <2>3
<1>4. Modules = three \o Loops
  BY DEF Modules, three
<1>5. Len(Modules) = 3 + Len(Loops) /\ DOMAIN Modules = 1 .. Len(Modules)
  BY <1>3, <1>4, LenProperties
<1>6. ASSUME NEW i \in 1 .. Len(Modules), i > 2 PROVE Modules[i] \notin {"event", "http"}
  <2>1. CASE i = 3
    BY <2>1, <1>1, <1>2, <1>3, <1>4
  <2>2. CASE i > 3
    <3>1. i - 3 \in DOMAIN Loops /\ Modules[i] = Loops[i - 3]
      BY <2>2, <1>2, <1>3, <1>4, <1>5
    <3> QED  BY <3>1 DEF CycleAssumption
  <2> QED  BY <1>6, <2>1, <2>2, <1>5, <1>2
<1>7. Modules[1] = "event" /\ Modules[2] = "http"
  BY <1>1, <1>2, <1>3, <1>4
<1> QED  BY <1>2, <1>5, <1>6, <1>7

\* Which module `next' is at.
LEMMA Places ==
  ASSUME ConfigAssumption, CycleAssumption, Kinds
  PROVE  /\ Modules[next] = "event" <=> next = 1
         /\ Modules[next] = "http" <=> next = 2
         /\ Modules[next] \notin {"event", "http"} <=> next > 2
         /\ next \in Nat /\ next >= 1 /\ Len(Modules) \in Nat /\ Len(Modules) >= 3
<1>1. next \in 1 .. Len(Modules) /\ next \in Nat /\ next >= 1
  BY ModulesAre DEF Kinds
<1>2. next = 1 \/ next = 2 \/ next > 2
  BY <1>1
<1> QED  BY <1>1, <1>2, ModulesAre

-----------------------------------------------------------------------------
(* Nothing of the configuration changes *)

LEMMA SameConfiguration ==
  ASSUME CycleInv, UNCHANGED loaderVars
  PROVE  /\ LoaderInv' /\ (Complete' <=> Complete) /\ (Distinct' <=> Distinct)
         /\ \A i : Listens(i)' = Listens(i)
         /\ servers' = servers /\ connections' = connections /\ returned' = returned
<1>1. LoaderInv'
  BY LoaderStays DEF CycleInv
<1>2. servers' = servers /\ arrays' = arrays /\ result' = result
      /\ connections' = connections /\ returned' = returned
  BY DEF loaderVars
<1>3. Complete' <=> Complete
  BY <1>2 DEF Complete, HasRuntime, OptionOf, Listens
<1>4. (Distinct' <=> Distinct) /\ \A i : Listens(i)' = Listens(i)
  BY <1>2 DEF Distinct, Listens
<1> QED  BY <1>1, <1>2, <1>3, <1>4

\* The system has closed what the process had.
LEMMA GoneKeeps ==
  ASSUME CycleInv, Gone, status' \in {"down", "crashed"}, trouble' \in BOOLEAN,
         status' = "crashed" => (Complete /\ returned = {} => trouble')
  PROVE  CycleInv'
<1>1. /\ LoaderInv' /\ (Complete' <=> Complete)
      /\ servers' = servers /\ connections' = connections /\ returned' = returned
  BY SameConfiguration DEF Gone
<1>2. Bare'
  BY DEF Gone, Bare, Nobody
<1>3. connections \in Nat
  BY DEF CycleInv, LoaderInv, ConfigOK
<1>4. Kinds'
  <2>1. arenas' \in 0 .. connections'
    BY <1>1, <1>3 DEF Gone
  <2>3. queue' \in BOOLEAN /\ shutdown' \in BOOLEAN
        /\ next' \in 1 .. Len(Modules) /\ server' \in 0 .. Len(servers') + 1
    BY <1>1 DEF CycleInv, Kinds, Gone
  <2>2. sockets' \subseteq DOMAIN servers' /\ watched' \subseteq sockets'
        /\ serving' \in [Addresses -> sockets' \cup {0}]
        /\ files' \subseteq Unix /\ lingering' \subseteq Addresses \ Unix
    BY DEF CycleInv, Kinds, Gone
  <2> QED  BY <2>1, <2>2, <2>3 DEF Kinds
<1>5. Resources'
  BY <1>1, <1>2 DEF CycleInv, Resources, Bare, ListenersHaveAll
<1>6. Served' /\ Closed' /\ CleanStop'
  BY DEF Served, Closed, CleanStop
<1>7. Loops # <<>> => StartsAgain'
  BY <1>1 DEF StartsAgain
<1> QED  BY <1>1, <1>4, <1>5, <1>6, <1>7 DEF CycleInv

\* The start has failed; main goes on with that.
LEMMA FailKeeps ==
  ASSUME CycleInv, UNCHANGED <<loaderVars, netVars, next, server, shutdown, queue, arenas>>,
         status' = "failed", trouble' \in BOOLEAN,
         Loops # <<>> => (Complete /\ returned = {} => trouble')
  PROVE  CycleInv'
<1>1. /\ LoaderInv' /\ (Complete' <=> Complete)
      /\ servers' = servers /\ connections' = connections /\ returned' = returned
  BY SameConfiguration
<1>2. Kinds'
  BY <1>1 DEF CycleInv, Kinds, netVars, Modules
<1>3. Resources'
  BY <1>1 DEF CycleInv, Resources, ListenersHaveAll, netVars
<1>4. Served' /\ Closed' /\ CleanStop'
  BY DEF Served, Closed, CleanStop
<1>5. Loops # <<>> => StartsAgain'
  BY <1>1 DEF StartsAgain
<1> QED  BY <1>1, <1>2, <1>3, <1>4, <1>5 DEF CycleInv

\* The process goes on, and neither the configuration nor what is open changes.
LEMMA MoveKeeps ==
  ASSUME CycleInv, UNCHANGED <<loaderVars, sockets, watched, serving, files, queue, arenas>>,
         status' \in {"down", "creating", "loading", "initialising", "ready", "running", "stopping", "stopped"}
           \/ (status' = status /\ (trouble => trouble')),
         next' \in 1 .. Len(Modules), server' \in 0 .. Len(servers) + 1,
         shutdown' \in BOOLEAN, trouble' \in BOOLEAN, lingering' \subseteq Addresses \ Unix
  PROVE  LoaderInv' /\ Kinds' /\ (Loops # <<>> => StartsAgain')
<1>1. /\ LoaderInv' /\ (Complete' <=> Complete)
      /\ servers' = servers /\ connections' = connections /\ returned' = returned
  BY SameConfiguration
<1>2. /\ status' \in {"down", "creating", "loading", "initialising", "ready",
                      "running", "stopping", "stopped", "failed", "crashed"}
      /\ next' \in 1 .. Len(Modules) /\ server' \in 0 .. Len(servers') + 1
      /\ arenas' \in 0 .. connections'
  BY <1>1 DEF CycleInv, Kinds
<1>3. /\ sockets' \subseteq DOMAIN servers' /\ watched' \subseteq sockets'
      /\ serving' \in [Addresses -> sockets' \cup {0}]
      /\ files' \subseteq Unix /\ queue' \in BOOLEAN
  BY <1>1 DEF CycleInv, Kinds
<1>4. Loops # <<>> => StartsAgain'
  BY <1>1 DEF CycleInv, StartsAgain
<1> QED  BY <1>1, <1>2, <1>3, <1>4 DEF Kinds

-----------------------------------------------------------------------------
(* The world outside *)

LEMMA LaunchKeeps ==
  ASSUME ConfigAssumption, CycleAssumption, CycleInv, Launch
  PROVE  CycleInv'
<1>1. servers' = <<>> /\ connections' = 0 /\ stack' = <<>> /\ result' = "unopened"
      /\ arrays' = << <<>> >> /\ capacity' = ListCapacity
      /\ returned' = {} /\ garbled' = {} /\ use' = NULL /\ events' = 0 /\ rest' \in Documents
  BY DEF Launch
<1>2. LoaderInv'
  <2>1. WalkOK'
    <3>1. rest' \in Seq(Scalars \cup Marks)
      BY <1>1 DEF CycleAssumption
    <3> QED  BY <3>1, <1>1, EmptySeq DEF WalkOK, BlocksHaveServers
  <2>2. ConfigOK'
    BY <1>1, EmptySeq DEF ConfigOK, Option
  <2>3. arrays' \in Seq(Seq(Option)) /\ arrays' # <<>> /\ Len(arrays') = 1
        /\ Items' = <<>> /\ Len(Items') = 0
    BY <1>1 DEF Items
  <2>4. ListOK'
    BY <2>3, <1>1 DEF ConfigAssumption, ListOK
  <2>5. Owners'
    BY <1>1, EmptySeq DEF Owners, RuntimesOwned
  <2> QED  BY <2>1, <2>2, <2>4, <2>5 DEF LoaderInv
<1>3. Bare /\ UNCHANGED <<queue, arenas, sockets, watched, serving, files, lingering>>
  BY DEF Launch, netVars, CycleInv, Resources
<1>4. Bare'
  BY <1>3 DEF Bare
<1>5. Kinds'
  <2>1. /\ status' \in {"creating", "failed"} /\ next' = 1 /\ server' = 0
        /\ shutdown' = FALSE /\ trouble' \in BOOLEAN
    BY DEF Launch
  <2>2. next' \in 1 .. Len(Modules) /\ server' \in 0 .. Len(servers') + 1 /\ arenas' \in 0 .. connections'
    BY <2>1, <1>1, <1>4, ModulesAre DEF Bare
  <2>3. /\ sockets' \subseteq DOMAIN servers' /\ watched' \subseteq sockets'
        /\ serving' \in [Addresses -> sockets' \cup {0}]
    BY <1>4 DEF Bare, Nobody
  <2>4. files' \subseteq Unix /\ lingering' \subseteq Addresses \ Unix /\ queue' \in BOOLEAN
    BY <1>3 DEF CycleInv, Kinds
  <2> QED  BY <2>1, <2>2, <2>3, <2>4 DEF Kinds
<1>6. Resources'
  BY <1>4 DEF Resources, Launch, Bare, ListenersHaveAll
<1>7. Served' /\ Closed' /\ CleanStop' /\ StartsAgain'
  BY DEF Launch, Served, Closed, CleanStop, StartsAgain
<1> QED  BY <1>2, <1>5, <1>6, <1>7 DEF CycleInv

LEMMA OutsideKeeps ==
  ASSUME CycleInv, Signal \/ Linger \/ Expire
  PROVE  CycleInv'
<1>1. UNCHANGED <<loaderVars, sockets, watched, serving, files, queue, arenas,
                  status, next, server, trouble>>
  BY DEF Signal, Linger, Expire, netVars, processVars
<1>2. shutdown' \in BOOLEAN /\ lingering' \subseteq Addresses \ Unix
  BY DEF Signal, Linger, Expire, netVars, processVars, CycleInv, Kinds
<1>3. LoaderInv' /\ Kinds' /\ (Loops # <<>> => StartsAgain')
  BY <1>1, <1>2, MoveKeeps DEF CycleInv, Kinds
<1>4. servers' = servers /\ connections' = connections /\ (Distinct' <=> Distinct)
      /\ \A i : Listens(i)' = Listens(i)
  BY <1>1, SameConfiguration
<1>5. Resources'
  BY <1>1, <1>4 DEF CycleInv, Resources, Bare, Equipped, ListenersHaveAll
<1>6. Served' /\ Closed'
  BY <1>1, <1>4 DEF CycleInv, Served, Closed, Listens
<1>7. CleanStop'
  BY <1>1, <1>4 DEF CycleInv, CleanStop, Listens
<1> QED  BY <1>3, <1>5, <1>6, <1>7 DEF CycleInv

LEMMA KillKeeps == ASSUME CycleInv, Kill PROVE CycleInv'
BY GoneKeeps DEF Kill

LEMMA ExitKeeps == ASSUME CycleInv, Exit PROVE CycleInv'
BY GoneKeeps DEF Exit, CycleInv, Kinds

-----------------------------------------------------------------------------
(* wsgi_cycle_init *)

LEMMA CreateKeeps ==
  ASSUME ConfigAssumption, CycleAssumption, CycleInv, Create
  PROVE  CycleInv'
<1>1. CASE CreateModule
  <2>1. UNCHANGED <<loaderVars, sockets, watched, serving, files, lingering, queue, arenas,
                    server, shutdown, trouble>>
    BY <1>1 DEF CreateModule, netVars
  <2>2. status = "creating" /\ status' \in {"creating", "loading"} /\ next' \in 1 .. Len(Modules)
    BY <1>1, Places DEF CreateModule, Advance, CycleInv, Kinds
  <2>3. LoaderInv' /\ Kinds' /\ (Loops # <<>> => StartsAgain')
    BY <2>1, <2>2, MoveKeeps DEF CycleInv, Kinds
  <2>4. Resources'
    BY <2>1, <2>2 DEF CycleInv, Resources, Bare, ListenersHaveAll
  <2>5. Served' /\ Closed' /\ CleanStop'
    BY <2>2 DEF Served, Closed, CleanStop
  <2> QED  BY <2>3, <2>4, <2>5 DEF CycleInv
<1>2. CASE CreateFails
  BY <1>2, FailKeeps DEF CreateFails, Fail
<1>3. CASE CreateCrashes
  BY <1>3, GoneKeeps DEF CreateCrashes
<1> QED  BY <1>1, <1>2, <1>3 DEF Create

LEMMA LoadKeeps ==
  ASSUME ConfigAssumption, CycleInv, Load
  PROVE  CycleInv'
<1>1. UNCHANGED <<sockets, watched, serving, files, lingering, queue, arenas,
                  status, next, server, shutdown, trouble>>
      /\ status = "loading" /\ LoaderNext
  BY DEF Load, netVars, processVars
<1>2. LoaderInv'
  BY <1>1, StepKeeps DEF CycleInv
<1>3. Bare' /\ server' = 0
  BY <1>1 DEF CycleInv, Resources, Bare
<1>4. connections' \in Nat /\ Len(servers') \in Nat
  BY <1>2, LenProperties DEF LoaderInv, ConfigOK
<1>5. Kinds'
  <2>1. server' \in 0 .. Len(servers') + 1 /\ arenas' \in 0 .. connections'
    BY <1>3, <1>4 DEF Bare
  <2>2. sockets' \subseteq DOMAIN servers' /\ watched' \subseteq sockets'
        /\ serving' \in [Addresses -> sockets' \cup {0}]
    BY <1>3 DEF Bare, Nobody
  <2> QED  BY <2>1, <2>2, <1>1 DEF CycleInv, Kinds
<1>6. Resources'
  BY <1>1, <1>3 DEF Resources, Bare, ListenersHaveAll
<1>7. Served' /\ Closed' /\ CleanStop' /\ StartsAgain'
  BY <1>1 DEF Served, Closed, CleanStop, StartsAgain
<1> QED  BY <1>2, <1>5, <1>6, <1>7 DEF CycleInv

LEMMA LoadedKeeps ==
  ASSUME ConfigAssumption, CycleAssumption, CycleInv, Loaded
  PROVE  CycleInv'
<1>1. UNCHANGED <<loaderVars, sockets, watched, serving, files, lingering, queue, arenas,
                  server, shutdown, trouble>>
      /\ status = "loading" /\ status' = "initialising" /\ next' = 1
  BY DEF Loaded, netVars
<1>2. LoaderInv' /\ Kinds' /\ (Loops # <<>> => StartsAgain')
  <2>1. next' \in 1 .. Len(Modules)
    BY <1>1, ModulesAre
  <2> QED  BY <1>1, <2>1, MoveKeeps DEF CycleInv, Kinds
<1>3. Bare' /\ server' = 0
  BY <1>1 DEF CycleInv, Resources, Bare
<1>4. Resources'
  BY <1>1, <1>3 DEF Resources, Bare, ListenersHaveAll
<1>5. Served'
  <2>1. \A i \in DOMAIN servers' : ~(i < server')
    BY <1>2, <1>3, LenProperties DEF LoaderInv, ConfigOK
  <2> QED  BY <1>3, <2>1 DEF Served, Bare, Nobody
<1>6. Closed' /\ CleanStop'
  BY <1>1 DEF Closed, CleanStop
<1> QED  BY <1>2, <1>4, <1>5, <1>6 DEF CycleInv

LEMMA NotLoadedKeeps == ASSUME CycleInv, NotLoaded PROVE CycleInv'
<1>1. ~Complete /\ trouble' = trouble
  BY DEF NotLoaded, Complete, Crash
<1>2. CASE Fail /\ UNCHANGED <<loaderVars, netVars, server, shutdown, queue, arenas, trouble>>
  BY <1>1, <1>2, FailKeeps DEF Fail, CycleInv, Kinds
<1>3. CASE Crash
  BY <1>1, <1>3, GoneKeeps DEF Crash, CycleInv, Kinds
<1> QED  BY <1>2, <1>3 DEF NotLoaded

\* An init of a module allocates, and gives defaults to what is not configured.
LEMMA AllocatingKeeps ==
  ASSUME LoaderInv, Allocating, use' \in Option, events' \in Nat, connections' \in Nat,
         servers' = servers
  PROVE  /\ LoaderInv' /\ (Complete' <=> Complete) /\ (Distinct' <=> Distinct)
         /\ \A i : Listens(i)' = Listens(i)
         /\ returned' = returned
<1>1. UNCHANGED <<rest, stack, result, arrays, capacity, returned>> /\ Allocate
  BY DEF Allocating
<1>2. WalkOK'
  BY <1>1 DEF LoaderInv, WalkOK, BlocksHaveServers
<1>3. ConfigOK'
  BY DEF LoaderInv, ConfigOK, Option
<1>4. ListOK'
  BY <1>1 DEF LoaderInv, ListOK, Allocate, Items, Option
<1>5. Owners'
  BY <1>1, OwnersStay DEF LoaderInv
<1>6. Complete' <=> Complete
  BY <1>1 DEF Complete, HasRuntime, OptionOf, Listens
<1>7. (Distinct' <=> Distinct) /\ \A i : Listens(i)' = Listens(i)
  BY DEF Distinct, Listens
<1> QED  BY <1>1, <1>2, <1>3, <1>4, <1>5, <1>6, <1>7 DEF LoaderInv

LEMMA InitEventKeeps ==
  ASSUME ConfigAssumption, CycleAssumption, CycleInv, InitEvent
  PROVE  CycleInv'
<1>1. /\ status = "initialising" /\ next = 1 /\ Bare /\ server = 0
      /\ next' = 2 /\ status' = "initialising" /\ queue' = TRUE
  BY Places DEF InitEvent, At, Advance, CycleInv, Resources
<1>2. UNCHANGED <<connections, servers, sockets, watched, serving, files, lingering,
                  server, shutdown, arenas, trouble>>
  BY DEF InitEvent, netVars
<1>3. /\ LoaderInv' /\ (Complete' <=> Complete) /\ returned' = returned
  <2>1. Loops # <<>> => Loops[1] \in Scalars
    BY EmptySeq, LenProperties, ElementOfSeq DEF ConfigAssumption
  <2>2. use' \in Option /\ events' \in Nat /\ connections' \in Nat
    BY <2>1, <1>2 DEF InitEvent, Or, CycleInv, LoaderInv, ConfigOK, CycleAssumption, Option
  <2> QED  BY <2>2, <1>2, AllocatingKeeps DEF InitEvent, CycleInv
<1>4. Kinds'
  BY <1>1, <1>2, ModulesAre DEF CycleInv, Kinds
<1>5. Resources'
  BY <1>1, <1>2 DEF Resources, Bare, ListenersHaveAll
<1>6. Served'
  <2>1. \A i \in DOMAIN servers' : ~(i < server')
    BY <1>1, <1>2, <1>3, LenProperties DEF LoaderInv, ConfigOK
  <2> QED  BY <1>1, <1>2, <2>1 DEF Served, Bare, Nobody
<1>7. Closed' /\ CleanStop' /\ StartsAgain'
  BY <1>1 DEF Closed, CleanStop, StartsAgain
<1> QED  BY <1>3, <1>4, <1>5, <1>6, <1>7 DEF CycleInv

LEMMA InitEventFailsKeeps == ASSUME CycleInv, InitEventFails PROVE CycleInv'
<1>1. trouble' \in BOOLEAN /\ (Loops # <<>> => trouble')
  BY DEF InitEventFails, CycleInv, Kinds
<1> QED  BY <1>1, FailKeeps DEF InitEventFails, Fail

LEMMA InitNothingKeeps ==
  ASSUME ConfigAssumption, CycleAssumption, CycleInv, InitNothing
  PROVE  CycleInv'
<1>1. /\ status = "initialising" /\ next > 2
      /\ status' \in {"initialising", "ready"} /\ next' \in 1 .. Len(Modules)
      /\ status' = "initialising" => next' > 2
  BY Places DEF InitNothing, Advance, CycleInv, Kinds
<1>2. UNCHANGED <<loaderVars, sockets, watched, serving, files, lingering, queue, arenas,
                  server, shutdown, trouble>>
  BY DEF InitNothing, netVars
<1>3. LoaderInv' /\ Kinds' /\ (Loops # <<>> => StartsAgain')
  BY <1>1, <1>2, MoveKeeps DEF CycleInv, Kinds
<1>4. servers' = servers /\ connections' = connections /\ \A i : Listens(i)' = Listens(i)
  BY <1>2, SameConfiguration
<1>5. next \in Nat /\ next' \in Nat
  BY Places, ModulesAre, <1>1 DEF CycleInv
<1>6. Equipped' /\ server' > Len(servers')
  BY <1>1, <1>2, <1>4, <1>5 DEF CycleInv, Resources, Equipped
<1>7. Resources'
  BY <1>1, <1>5, <1>6 DEF Resources, Equipped, ListenersHaveAll
<1>8. Served'
  BY <1>1, <1>2, <1>4 DEF CycleInv, Served
<1>9. Closed' /\ CleanStop'
  BY <1>1 DEF Closed, CleanStop
<1> QED  BY <1>3, <1>7, <1>8, <1>9 DEF CycleInv

LEMMA InitPoolKeeps ==
  ASSUME ConfigAssumption, CycleAssumption, CycleInv, InitPool
  PROVE  CycleInv'
<1>1. /\ status = "initialising" /\ next = 2 /\ server = 0 /\ next' = 2
      /\ queue /\ sockets = {} /\ serving = Nobody /\ watched = {}
  BY Places DEF InitPool, At, CycleInv, Resources, Kinds
<1>2. UNCHANGED <<use, events, servers, sockets, watched, serving, files, lingering,
                  shutdown, queue>>
  BY DEF InitPool, netVars
<1>3. connections' \in Nat /\ connections' > 0
  BY DEF InitPool, Or, CycleInv, LoaderInv, ConfigOK, CycleAssumption
<1>4. /\ LoaderInv' /\ (Complete' <=> Complete) /\ returned' = returned
  BY <1>2, <1>3, AllocatingKeeps DEF InitPool, CycleInv, LoaderInv, ConfigOK
<1>5. Len(servers) \in Nat /\ DOMAIN servers = 1 .. Len(servers)
  BY LenProperties DEF CycleInv, LoaderInv, ConfigOK
<1>6. CASE arenas' = connections' /\ server' = 1 /\ UNCHANGED <<status, trouble>>
  <2>1. Kinds'
    <3>1. arenas' \in 0 .. connections'
      BY <1>3, <1>6
    <3>2. server' \in 0 .. Len(servers') + 1 /\ next' \in 1 .. Len(Modules)
      BY <1>1, <1>2, <1>5, <1>6, ModulesAre
    <3> QED  BY <3>1, <3>2, <1>1, <1>2, <1>6 DEF CycleInv, Kinds
  <2>2. Resources'
    BY <1>1, <1>2, <1>3, <1>6 DEF Resources, Equipped, ListenersHaveAll
  <2>3. Served'
    BY <1>1, <1>2, <1>5, <1>6 DEF Served, Nobody
  <2>4. Closed' /\ CleanStop' /\ StartsAgain'
    BY <1>1, <1>6 DEF Closed, CleanStop, StartsAgain
  <2> QED  BY <1>4, <2>1, <2>2, <2>3, <2>4 DEF CycleInv
<1>7. CASE /\ arenas' \in 0 .. connections' - 1 /\ UNCHANGED server
           /\ status' = "failed" /\ trouble' = TRUE
  <2>1. Kinds'
    <3>1. arenas' \in 0 .. connections'
      <4>1. arenas' \in 0 .. connections' - 1
        BY <1>7
      <4>2. \A n \in Nat : \A m \in 0 .. n - 1 : m \in 0 .. n
        OBVIOUS
      <4> QED  BY <4>1, <4>2, <1>3
    <3>2. server' \in 0 .. Len(servers') + 1 /\ next' \in 1 .. Len(Modules)
      BY <1>1, <1>2, <1>5, <1>7, ModulesAre
    <3> QED  BY <3>1, <3>2, <1>1, <1>2, <1>7 DEF CycleInv, Kinds
  <2>2. Resources'
    BY <1>1, <1>2, <1>7 DEF Resources, ListenersHaveAll
  <2>3. Served' /\ Closed' /\ CleanStop' /\ StartsAgain'
    BY <1>7 DEF Served, Closed, CleanStop, StartsAgain
  <2> QED  BY <1>4, <2>1, <2>2, <2>3 DEF CycleInv
<1> QED  BY <1>6, <1>7 DEF InitPool

-----------------------------------------------------------------------------
(* wsgi_http_module_init, server by server *)

LEMMA OpeningMeans ==
  ASSUME ConfigAssumption, CycleAssumption, CycleInv, Opening
  PROVE  /\ status = "initialising" /\ next = 2 /\ server > 0 /\ Equipped
         /\ server \in DOMAIN servers /\ server \in Nat
         /\ servers \in Seq(ServerRecords) /\ Len(servers) \in Nat /\ DOMAIN servers = 1 .. Len(servers)
         /\ Conf \in ServerRecords /\ Conf.listen = Listens(server)
<1>1. /\ servers \in Seq(ServerRecords) /\ Len(servers) \in Nat /\ DOMAIN servers = 1 .. Len(servers)
  BY LenProperties DEF CycleInv, LoaderInv, ConfigOK
<1>2. status = "initialising" /\ next = 2 /\ server \in DOMAIN servers
  BY Places DEF Opening, At, CycleInv
<1>3. server \in Nat /\ server > 0
  BY <1>1, <1>2
<1>4. Equipped
  BY <1>2, <1>3 DEF CycleInv, Resources
<1>5. Conf \in ServerRecords
  BY <1>1, <1>2, ElementOfSeq DEF Conf
<1> QED  BY <1>1, <1>2, <1>3, <1>4, <1>5 DEF Conf, Listens

LEMMA RefuseKeeps ==
  ASSUME ConfigAssumption, CycleAssumption, CycleInv, RefuseServer
  PROVE  CycleInv'
<1>1. ~Complete
  BY OpeningMeans DEF RefuseServer, Loads, Complete, HasRuntime, Conf
<1> QED  BY <1>1, FailKeeps DEF RefuseServer, Fail, CycleInv, Kinds

LEMMA OpenCrashesKeeps ==
  ASSUME ConfigAssumption, CycleAssumption, CycleInv, OpenCrashes
  PROVE  CycleInv'
<1>1. Complete => returned # {}
  <2>1. CASE Garbled(Conf.runtime)
    BY <2>1 DEF Garbled, CycleInv, LoaderInv, ListOK
  <2>2. CASE Conf.listen = NULL
    BY <2>2, OpeningMeans DEF OpenCrashes, Complete
  <2> QED  BY <2>1, <2>2 DEF OpenCrashes
<1> QED  BY <1>1, GoneKeeps DEF OpenCrashes, Crash, CycleInv, Kinds

LEMMA CreateAcceptorFailsKeeps == ASSUME CycleInv, CreateAcceptorFails PROVE CycleInv'
BY FailKeeps DEF CreateAcceptorFails, Fail

\* An address is taken only by an earlier server of the same port.
LEMMA TakenMeans ==
  ASSUME ConfigAssumption, CycleAssumption, CycleInv, Opening, Conf.listen # NULL, ~Free(Conf.listen)
  PROVE  ~Complete
<1> DEFINE a == Conf.listen
           j == serving[a]
<1>1. a \in Addresses /\ a = Listens(server) /\ server \in DOMAIN servers /\ server \in Nat
      /\ status = "initialising" /\ DOMAIN servers \subseteq Nat /\ 0 \notin DOMAIN servers
  <2>1. /\ status = "initialising" /\ server \in DOMAIN servers /\ server \in Nat
        /\ Len(servers) \in Nat /\ DOMAIN servers = 1 .. Len(servers)
        /\ Conf \in ServerRecords /\ Conf.listen = Listens(server)
    BY OpeningMeans
  <2>2. a \in Addresses
    BY <2>1 DEF ServerRecords
  <2> HIDE DEF a, j
  <2>3. DOMAIN servers \subseteq Nat /\ 0 \notin DOMAIN servers
    BY <2>1
  <2> QED  BY <2>1, <2>2, <2>3 DEF a
<1>2. a \notin Unix /\ j # 0
  BY <1>1 DEF Free, Unlinked, reuseaddr
<1>3. j \in DOMAIN servers
  BY <1>1, <1>2 DEF CycleInv, Kinds
<1>4. j < server /\ Listens(j) = a
  BY <1>1, <1>2 DEF CycleInv, Served
<1>5. j # server
  BY <1>1, <1>3, <1>4
<1> QED  BY <1>1, <1>2, <1>3, <1>4, <1>5 DEF Complete

LEMMA SocketFailsKeeps ==
  ASSUME ConfigAssumption, CycleAssumption, CycleInv, SocketFails
  PROVE  CycleInv'
<1>1. /\ status' = "failed" /\ UNCHANGED <<loaderVars, sockets, lingering, next, server,
                                           shutdown, queue, arenas>>
      /\ trouble' \in BOOLEAN /\ files' \subseteq files /\ watched' \subseteq watched
      /\ \A x : x \in files' => x \in files
  BY DEF SocketFails, Fail, Unlinked, CycleInv, Kinds
<1>2. LoaderInv' /\ (Complete' <=> Complete) /\ servers' = servers
      /\ connections' = connections /\ returned' = returned
  BY <1>1, SameConfiguration
<1>3. Complete => trouble'
  BY TakenMeans DEF SocketFails
<1>4. serving' \in [Addresses -> sockets \cup {0}]
  BY DEF SocketFails, NobodyAt, CycleInv, Kinds
<1>5. Kinds'
  BY <1>1, <1>2, <1>4 DEF CycleInv, Kinds
<1>6. Resources'
  BY <1>1, <1>2 DEF CycleInv, Resources, ListenersHaveAll
<1>7. Served' /\ Closed' /\ CleanStop'
  BY <1>1 DEF Served, Closed, CleanStop
<1>8. StartsAgain'
  BY <1>2, <1>3 DEF StartsAgain
<1> QED  BY <1>2, <1>5, <1>6, <1>7, <1>8 DEF CycleInv

LEMMA ListenFailsKeeps ==
  ASSUME ConfigAssumption, CycleAssumption, CycleInv, ListenFails
  PROVE  CycleInv'
<1>1. /\ status' = "failed" /\ trouble' = TRUE
      /\ UNCHANGED <<loaderVars, lingering, next, server, shutdown, queue, arenas>>
      /\ files' = files \cup ({Conf.listen} \cap Unix)
      /\ watched' \subseteq watched
  BY DEF ListenFails, Fail
<1>2. LoaderInv' /\ servers' = servers /\ connections' = connections /\ returned' = returned
  BY <1>1, SameConfiguration
<1>3. Equipped /\ server \in DOMAIN servers
  BY OpeningMeans DEF ListenFails
<1>4. /\ sockets \subseteq sockets' /\ sockets' \subseteq DOMAIN servers
      /\ serving' \in [Addresses -> sockets' \cup {0}]
  BY <1>3 DEF ListenFails, NobodyAt, CycleInv, Kinds
<1>5. Kinds'
  BY <1>1, <1>2, <1>4 DEF CycleInv, Kinds
<1>6. Resources'
  BY <1>1, <1>2, <1>3 DEF Resources, Equipped, ListenersHaveAll
<1>7. Served' /\ Closed' /\ CleanStop' /\ StartsAgain'
  BY <1>1 DEF Served, Closed, CleanStop, StartsAgain
<1> QED  BY <1>2, <1>5, <1>6, <1>7 DEF CycleInv

LEMMA WithSize ==
  ASSUME NEW c \in ServerRecords, NEW x
  PROVE  [c EXCEPT !.size = x] = [listen |-> c.listen, size |-> x, runtime |-> c.runtime]
BY DEF ServerRecords

\* The buffer size of a server gets its default.
LEMMA SizeKeeps ==
  ASSUME ConfigAssumption, CycleAssumption, CycleInv, OpenServer
  PROVE  /\ LoaderInv' /\ returned' = returned
         /\ Len(servers') = Len(servers) /\ DOMAIN servers' = DOMAIN servers
         /\ \A i \in DOMAIN servers : Listens(i)' = Listens(i)
<1> DEFINE n == IF Conf.size = 0 THEN DefaultSize ELSE Conf.size
           r == [listen |-> Conf.listen, size |-> n, runtime |-> Conf.runtime]
<1>1. /\ server \in DOMAIN servers /\ servers \in Seq(ServerRecords) /\ Conf \in ServerRecords
      /\ Len(servers) \in Nat /\ DOMAIN servers = 1 .. Len(servers)
  BY OpeningMeans DEF OpenServer
<1>2. /\ UNCHANGED <<use, events, connections, rest, stack, result, arrays, capacity, returned>>
      /\ Allocate
  BY DEF OpenServer, Allocating
<1>3. n \in Nat
  BY <1>1 DEF ServerRecords, CycleAssumption
<1>4. r \in ServerRecords /\ r.listen = Conf.listen /\ r.runtime = Conf.runtime
  BY <1>1, <1>3 DEF ServerRecords
<1>5. servers' = [servers EXCEPT ![server] = r]
  <2>1. [Conf EXCEPT !.size = n] = r
    <3> HIDE DEF n
    <3> QED  BY <1>1, WithSize
  <2>2. servers' = [servers EXCEPT ![server] = [Conf EXCEPT !.size = n]]
    BY <1>1 DEF OpenServer, Or, Conf
  <2> QED  BY <2>1, <2>2
<1> HIDE DEF n, r
<1>6. /\ servers' \in Seq(ServerRecords) /\ Len(servers') = Len(servers)
      /\ \A i \in 1 .. Len(servers) : servers'[i] = IF i = server THEN r ELSE servers[i]
  BY <1>1, <1>4, <1>5, ExceptSeq
<1>7. DOMAIN servers' = DOMAIN servers
  BY <1>1, <1>6, LenProperties
<1>8. \A i \in DOMAIN servers : /\ servers'[i].listen = servers[i].listen
                                /\ servers'[i].runtime = servers[i].runtime
  BY <1>1, <1>4, <1>6 DEF Conf
<1>9. WalkOK'
  <2>1. servers # <<>> /\ servers' # <<>>
    BY <1>1, <1>6, EmptySeq
  <2> QED  BY <2>1, <1>2 DEF CycleInv, LoaderInv, WalkOK, BlocksHaveServers
<1>10. ConfigOK' /\ ListOK'
  BY <1>2, <1>6 DEF CycleInv, LoaderInv, ConfigOK, ListOK, Allocate, Items, Option
<1>11. Owners'
  BY <1>2, <1>7, <1>8, OwnersStay DEF CycleInv, LoaderInv
<1> QED  BY <1>2, <1>6, <1>7, <1>8, <1>9, <1>10, <1>11 DEF LoaderInv, Listens

LEMMA OpenServerKeeps ==
  ASSUME ConfigAssumption, CycleAssumption, CycleInv, OpenServer
  PROVE  CycleInv'
<1> DEFINE k == server
           a == Listens(server)
<1>1. /\ LoaderInv' /\ returned' = returned
      /\ Len(servers') = Len(servers) /\ DOMAIN servers' = DOMAIN servers
      /\ \A i \in DOMAIN servers : Listens(i)' = Listens(i)
  BY SizeKeeps
<1>2. /\ status = "initialising" /\ next = 2 /\ Equipped
      /\ k \in Nat /\ k > 0 /\ k \in DOMAIN servers
      /\ Len(servers) \in Nat /\ DOMAIN servers = 1 .. Len(servers)
      /\ Conf \in ServerRecords /\ Conf.listen = a
  BY OpeningMeans DEF OpenServer
<1>3. a \in Addresses
  BY <1>2 DEF OpenServer, ServerRecords
<1>4. /\ files' = Unlinked(a) \cup ({a} \cap Unix)
      /\ serving' = [serving EXCEPT ![a] = k]
      /\ sockets' = sockets \cup {k} /\ watched' = watched \cup {k}
      /\ server' = k + 1
      /\ UNCHANGED <<connections, lingering, status, next, shutdown, queue, arenas, trouble>>
  BY <1>2 DEF OpenServer
<1> HIDE DEF k, a
<1>5. Kinds'
  <2>1. sockets' \subseteq DOMAIN servers' /\ watched' \subseteq sockets'
        /\ serving' \in [Addresses -> sockets' \cup {0}]
    BY <1>1, <1>2, <1>3, <1>4 DEF CycleInv, Kinds
  <2>2. server' \in 0 .. Len(servers') + 1
    BY <1>1, <1>2, <1>4
  <2>3. files' \subseteq Unix
    BY <1>4 DEF CycleInv, Kinds, Unlinked
  <2>4. /\ status' = "initialising" /\ next' = next /\ shutdown' = shutdown /\ trouble' = trouble
        /\ queue' = queue /\ arenas' = arenas /\ connections' = connections /\ lingering' = lingering
    BY <1>2, <1>4
  <2> QED  BY <2>1, <2>2, <2>3, <2>4 DEF CycleInv, Kinds
<1>6. Resources'
  <2>1. Equipped' /\ server' > 0 /\ next' = 2 /\ status' = "initialising"
    BY <1>2, <1>4 DEF Equipped
  <2> QED  BY <2>1 DEF Resources, Equipped, ListenersHaveAll
<1>7. Served'
  <2>1. ASSUME NEW i \in DOMAIN servers, i < k + 1
        PROVE  /\ i \in sockets' /\ i \in watched'
               /\ Listens(i) \in Addresses /\ serving'[Listens(i)] >= i
               /\ Listens(i) \in Unix => Listens(i) \in files'
    <3>1. CASE i = k
      BY <3>1, <1>2, <1>3, <1>4 DEF a, k, CycleInv, Kinds
    <3>2. CASE i # k
      <4>1. i < k /\ i \in Nat
        BY <3>2, <2>1, <1>2
      <4>2. /\ i \in sockets /\ i \in watched
            /\ Listens(i) \in Addresses /\ serving[Listens(i)] >= i
            /\ Listens(i) \in Unix => Listens(i) \in files
        BY <4>1, <1>2 DEF CycleInv, Served, k
      <4>3. serving'[Listens(i)] = IF Listens(i) = a THEN k ELSE serving[Listens(i)]
        BY <4>2, <1>3, <1>4 DEF CycleInv, Kinds
      <4>4. serving'[Listens(i)] >= i
        BY <4>1, <4>2, <4>3, <1>2
      <4>5. Listens(i) \in Unix => Listens(i) \in files'
        BY <4>2, <1>4 DEF Unlinked
      <4> QED  BY <4>2, <4>4, <4>5, <1>4
    <3> QED  BY <3>1, <3>2
  <2>2. ASSUME NEW x \in Addresses, serving'[x] # 0
        PROVE  serving'[x] \in DOMAIN servers /\ serving'[x] < k + 1 /\ Listens(serving'[x]) = x
    <3>1. CASE x = a
      BY <3>1, <1>2, <1>3, <1>4 DEF a, k, CycleInv, Kinds
    <3>2. CASE x # a
      <4>1. serving'[x] = serving[x]
        BY <3>2, <1>4 DEF CycleInv, Kinds
      <4>2. serving[x] \in DOMAIN servers
        BY <4>1, <2>2 DEF CycleInv, Kinds
      <4>3. serving[x] < k /\ Listens(serving[x]) = x
        BY <4>1, <2>2, <1>2 DEF CycleInv, Served, k
      <4> QED  BY <4>1, <4>2, <4>3, <1>2
    <3> QED  BY <3>1, <3>2
  <2>3. \A i \in DOMAIN servers' : i < server' =>
               /\ i \in sockets' /\ i \in watched'
               /\ Listens(i)' \in Addresses /\ serving'[Listens(i)'] >= i
               /\ Listens(i)' \in Unix => Listens(i)' \in files'
    BY <2>1, <1>1, <1>4
  <2>4. \A x \in Addresses : serving'[x] # 0 =>
               serving'[x] < server' /\ servers'[serving'[x]].listen = x
    <3> SUFFICES ASSUME NEW x \in Addresses, serving'[x] # 0
                 PROVE  serving'[x] < server' /\ servers'[serving'[x]].listen = x
      OBVIOUS
    <3>1. serving'[x] \in DOMAIN servers /\ serving'[x] < k + 1 /\ Listens(serving'[x]) = x
      BY <2>2
    <3>2. \A i \in DOMAIN servers : servers'[i].listen = Listens(i)
      BY <1>1 DEF Listens
    <3> QED  BY <3>1, <3>2, <1>4
  <2> QED  BY <2>3, <2>4 DEF Served, Listens
<1>8. Closed' /\ CleanStop' /\ StartsAgain'
  BY <1>2, <1>4 DEF Closed, CleanStop, StartsAgain
<1> QED  BY <1>1, <1>5, <1>6, <1>7, <1>8 DEF CycleInv

LEMMA ServersOpenKeeps ==
  ASSUME ConfigAssumption, CycleAssumption, CycleInv, ServersOpen
  PROVE  CycleInv'
<1>1. /\ status = "initialising" /\ next = 2 /\ server > Len(servers) /\ server > 0
      /\ status' = "initialising" /\ next' = 3
  BY Places DEF ServersOpen, At, AllOpen, Advance, CycleInv
<1>2. UNCHANGED <<loaderVars, sockets, watched, serving, files, lingering, queue, arenas,
                  server, shutdown, trouble>>
  BY DEF ServersOpen, netVars
<1>3. LoaderInv' /\ Kinds' /\ (Loops # <<>> => StartsAgain')
  <2>1. next' \in 1 .. Len(Modules)
    BY <1>1, ModulesAre
  <2> QED  BY <1>1, <1>2, <2>1, MoveKeeps DEF CycleInv, Kinds
<1>4. servers' = servers /\ connections' = connections /\ \A i : Listens(i)' = Listens(i)
  BY <1>2, SameConfiguration
<1>5. server \in Nat /\ server # 0
  BY <1>1, LenProperties DEF CycleInv, LoaderInv, ConfigOK, Kinds
<1>6. Equipped' /\ server' > Len(servers')
  BY <1>1, <1>2, <1>4, <1>5 DEF CycleInv, Resources, Equipped
<1>7. Resources'
  BY <1>1, <1>6 DEF Resources, Equipped, ListenersHaveAll
<1>8. Served'
  BY <1>1, <1>2, <1>4 DEF CycleInv, Served
<1>9. Closed' /\ CleanStop'
  BY <1>1 DEF Closed, CleanStop
<1> QED  BY <1>3, <1>7, <1>8, <1>9 DEF CycleInv

LEMMA InitialiseKeeps ==
  ASSUME ConfigAssumption, CycleAssumption, CycleInv, Initialise
  PROVE  CycleInv'
BY InitEventKeeps, InitEventFailsKeeps, InitPoolKeeps, InitNothingKeeps, OpenServerKeeps,
   RefuseKeeps, OpenCrashesKeeps, CreateAcceptorFailsKeeps, SocketFailsKeeps, ListenFailsKeeps,
   ServersOpenKeeps
   DEF Initialise, InitServers

-----------------------------------------------------------------------------
(* wsgi_cycle_shutdown *)

LEMMA ToShutdownKeeps ==
  ASSUME ConfigAssumption, CycleAssumption, CycleInv,
         status \in {"ready", "running"}, ToShutdown, trouble' \in BOOLEAN
  PROVE  CycleInv'
<1>1. /\ status' = "stopping" /\ next' = Len(Modules) /\ next' > 2 /\ server' = 1
      /\ next' \in 1 .. Len(Modules)
  BY ModulesAre DEF ToShutdown
<1>2. UNCHANGED <<loaderVars, sockets, watched, serving, files, lingering, queue, arenas, shutdown>>
  BY DEF ToShutdown, netVars
<1>3. Len(servers) \in Nat /\ DOMAIN servers = 1 .. Len(servers)
  BY LenProperties DEF CycleInv, LoaderInv, ConfigOK
<1>4. LoaderInv' /\ Kinds' /\ (Loops # <<>> => StartsAgain')
  <2>1. server' \in 0 .. Len(servers) + 1
    BY <1>1, <1>3
  <2> QED  BY <1>1, <1>2, <2>1, MoveKeeps DEF CycleInv, Kinds
<1>5. servers' = servers /\ connections' = connections /\ (Distinct' <=> Distinct)
      /\ \A i : Listens(i)' = Listens(i)
  BY <1>2, SameConfiguration
<1>6. Equipped /\ server > Len(servers)
  BY DEF CycleInv, Resources
<1>7. Resources'
  <2>1. Equipped'
    BY <1>2, <1>5, <1>6 DEF Equipped
  <2> QED  BY <2>1, <1>1 DEF Resources, Equipped, ListenersHaveAll
<1>8. Closed'
  <2>1. \A i \in sockets : i >= 1
    BY <1>3 DEF CycleInv, Kinds
  <2>2. \A i \in DOMAIN servers : i >= 1 /\ ~(i < 1) /\ (Listens(i) \in Unix => Listens(i) \in files)
    <3>1. \A i \in DOMAIN servers : i >= 1 /\ ~(i < 1) /\ i < server
      BY <1>3, <1>6 DEF CycleInv, Kinds
    <3> QED  BY <3>1 DEF CycleInv, Served
  <2>3. \A a \in Addresses : serving[a] # 0 => Listens(serving[a]) = a
    BY DEF CycleInv, Served
  <2> QED  BY <2>1, <2>2, <2>3, <1>1, <1>2, <1>5 DEF Closed
<1>9. Served' /\ CleanStop'
  BY <1>1 DEF Served, CleanStop
<1> QED  BY <1>4, <1>7, <1>8, <1>9 DEF CycleInv

LEMMA FirstTestKeeps ==
  ASSUME ConfigAssumption, CycleAssumption, CycleInv, FirstTest
  PROVE  CycleInv'
<1>1. trouble' \in BOOLEAN /\ (trouble => trouble')
  BY DEF FirstTest, CycleInv, Kinds
<1>2. CASE ToShutdown
  BY <1>1, <1>2, ToShutdownKeeps DEF FirstTest
<1>3. CASE ~ToShutdown
  <2>1. /\ status = "ready" /\ status' = "running"
        /\ UNCHANGED <<loaderVars, sockets, watched, serving, files, lingering, next, server,
                       shutdown, queue, arenas>>
    BY <1>3 DEF FirstTest, netVars
  <2>2. LoaderInv' /\ Kinds' /\ (Loops # <<>> => StartsAgain')
    <3>1. /\ next \in 1 .. Len(Modules) /\ server \in 0 .. Len(servers) + 1
          /\ shutdown \in BOOLEAN /\ lingering \subseteq Addresses \ Unix
      BY DEF CycleInv, Kinds
    <3> QED  BY <3>1, <2>1, <1>1, MoveKeeps
  <2>3. servers' = servers /\ connections' = connections /\ \A i : Listens(i)' = Listens(i)
    BY <2>1, SameConfiguration
  <2>4. Resources'
    <3>1. Equipped /\ server > Len(servers)
      BY <2>1 DEF CycleInv, Resources
    <3>2. Equipped' /\ server' > Len(servers')
      BY <3>1, <2>1, <2>3 DEF Equipped
    <3> QED  BY <3>2, <2>1 DEF Resources, Equipped, ListenersHaveAll
  <2>5. Served'
    BY <2>1, <2>3 DEF CycleInv, Served
  <2>6. Closed' /\ CleanStop'
    BY <2>1 DEF Closed, CleanStop
  <2> QED  BY <2>2, <2>4, <2>5, <2>6 DEF CycleInv
<1> QED  BY <1>2, <1>3

LEMMA LeaveLoopKeeps ==
  ASSUME ConfigAssumption, CycleAssumption, CycleInv, LeaveLoop \/ WaitFails
  PROVE  CycleInv'
BY ToShutdownKeeps DEF LeaveLoop, WaitFails, CycleInv, Kinds

\* What a step of the shutdown has in common with the others.
LEMMA StoppingMeans ==
  ASSUME ConfigAssumption, CycleAssumption, CycleInv, status = "stopping"
  PROVE  /\ next \in Nat /\ next >= 1 /\ server \in Nat /\ server >= 1
         /\ server \in 0 .. Len(servers) + 1 /\ next \in 1 .. Len(Modules)
         /\ Len(servers) \in Nat /\ DOMAIN servers = 1 .. Len(servers)
<1>1. Len(servers) \in Nat /\ DOMAIN servers = 1 .. Len(servers)
  BY LenProperties DEF CycleInv, LoaderInv, ConfigOK
<1>2. server \in 0 .. Len(servers) + 1 /\ next \in 1 .. Len(Modules)
  BY DEF CycleInv, Kinds
<1> QED  BY <1>1, <1>2, Places DEF CycleInv, Closed

LEMMA HaltNothingKeeps ==
  ASSUME ConfigAssumption, CycleAssumption, CycleInv, HaltNothing
  PROVE  CycleInv'
<1>1. /\ status = "stopping" /\ next > 2 /\ status' = "stopping"
      /\ next' = next - 1 /\ next' >= 2 /\ next' \in 1 .. Len(Modules)
  <2>1. status = "stopping" /\ next > 2
    BY Places DEF HaltNothing, CycleInv
  <2> QED  BY <2>1, StoppingMeans, ModulesAre DEF HaltNothing, Retreat
<1>2. UNCHANGED <<loaderVars, sockets, watched, serving, files, lingering, queue, arenas,
                  server, shutdown, trouble>>
  BY DEF HaltNothing, netVars
<1>3. LoaderInv' /\ Kinds' /\ (Loops # <<>> => StartsAgain')
  BY <1>1, <1>2, MoveKeeps DEF CycleInv, Kinds
<1>4. servers' = servers /\ connections' = connections /\ (Distinct' <=> Distinct)
      /\ \A i : Listens(i)' = Listens(i)
  BY <1>2, SameConfiguration
<1>5. Equipped'
  <2>1. Equipped
    BY <1>1, StoppingMeans DEF CycleInv, Resources
  <2> QED  BY <2>1, <1>2, <1>4 DEF Equipped
<1>6. Resources'
  BY <1>1, <1>5, StoppingMeans DEF Resources, Equipped, ListenersHaveAll
<1>7. Closed'
  <2>1. server >= 1 /\ server = 1 /\ next' # 1
    BY <1>1, StoppingMeans DEF CycleInv, Closed
  <2> QED  BY <2>1, <1>1, <1>2, <1>4 DEF CycleInv, Closed
<1>8. Served' /\ CleanStop'
  BY <1>1 DEF Served, CleanStop
<1> QED  BY <1>3, <1>6, <1>7, <1>8 DEF CycleInv

LEMMA ClosingMeans ==
  ASSUME ConfigAssumption, CycleAssumption, CycleInv, Closing
  PROVE  /\ status = "stopping" /\ next = 2 /\ Equipped
         /\ server \in DOMAIN servers /\ server \in Nat /\ server >= 1 /\ server <= Len(servers)
         /\ Len(servers) \in Nat /\ DOMAIN servers = 1 .. Len(servers)
         /\ Conf.listen = Listens(server) /\ next \in 1 .. Len(Modules)
<1>1. status = "stopping" /\ next = 2 /\ server \in DOMAIN servers
  BY Places DEF Closing, At, CycleInv
<1> QED  BY <1>1, StoppingMeans DEF CycleInv, Resources, Conf, Listens

\* Its socket is closed, and nobody reaches it.
LEMMA DeafProperties ==
  ASSUME CycleInv, serving' = Deaf(server), sockets' = sockets \ {server},
         watched' = watched \ {server}, servers' = servers
  PROVE  /\ sockets' \subseteq DOMAIN servers' /\ watched' \subseteq sockets'
         /\ serving' \in [Addresses -> sockets' \cup {0}]
BY DEF Deaf, CycleInv, Kinds

LEMMA CloseServerKeeps ==
  ASSUME ConfigAssumption, CycleAssumption, CycleInv, CloseServer
  PROVE  CycleInv'
<1> DEFINE k == server
           a == Listens(server)
<1>1. /\ status = "stopping" /\ next = 2 /\ Equipped /\ k \in DOMAIN servers /\ k \in Nat
      /\ k >= 1 /\ k <= Len(servers) /\ Conf.listen = a /\ next \in 1 .. Len(Modules)
      /\ Len(servers) \in Nat /\ DOMAIN servers = 1 .. Len(servers)
  BY ClosingMeans DEF CloseServer
<1>2. /\ watched' = watched \ {k} /\ sockets' = sockets \ {k} /\ serving' = Deaf(k)
      /\ files' = files \ {a} /\ server' = k + 1
      /\ UNCHANGED <<loaderVars, lingering, shutdown, queue, arenas, trouble, next>>
      /\ \/ status' = "stopping" /\ ~(a \in Unix /\ a \notin files)
         \/ status' = "stopped" /\ a \in Unix /\ a \notin files
  BY <1>1 DEF CloseServer, Removed, GiveUp
<1>3. /\ LoaderInv' /\ (Distinct' <=> Distinct) /\ \A i : Listens(i)' = Listens(i)
      /\ servers' = servers /\ connections' = connections
  BY <1>2, SameConfiguration
<1>4. Kinds'
  <2>1. /\ sockets' \subseteq DOMAIN servers' /\ watched' \subseteq sockets'
        /\ serving' \in [Addresses -> sockets' \cup {0}]
    BY <1>2, <1>3, DeafProperties
  <2> HIDE DEF k, a
  <2>2. server' \in 0 .. Len(servers') + 1
    BY <1>1, <1>2, <1>3
  <2> QED  BY <1>1, <1>2, <1>3, <2>1, <2>2 DEF CycleInv, Kinds
<1> HIDE DEF k, a
<1>5. Equipped'
  BY <1>1, <1>2, <1>3 DEF Equipped
<1>6. Resources'
  BY <1>1, <1>2, <1>5 DEF Resources, Equipped, ListenersHaveAll
<1>7. /\ \A i \in sockets : i >= k /\ i \in Nat
      /\ Distinct => \A i \in DOMAIN servers :
           IF i < k THEN Listens(i) \notin files
                    ELSE Listens(i) \in Unix => Listens(i) \in files
  BY <1>1 DEF CycleInv, Closed, Kinds, k
<1>8. Closed'
  <2>1. ASSUME Distinct, NEW i \in DOMAIN servers
        PROVE  IF i < k + 1 THEN Listens(i) \notin files'
                            ELSE Listens(i) \in Unix => Listens(i) \in files'
    <3>1. CASE i = k
      <4>1. Listens(i) = a /\ i < k + 1
        BY <3>1, <1>1 DEF a, k
      <4> QED  BY <4>1, <1>2
    <3>2. CASE i # k
      <4>1. Listens(i) # a /\ (i < k + 1 <=> i < k)
        BY <3>2, <2>1, <1>1 DEF Distinct, a, k
      <4> QED  BY <4>1, <2>1, <1>2, <1>7
    <3> QED  BY <3>1, <3>2
  <2>2. \A i \in sockets' : i >= k + 1
    BY <1>1, <1>2, <1>7
  <2>3. \A x \in Addresses : serving'[x] # 0 => Listens(serving'[x]) = x
    BY <1>1, <1>2 DEF CycleInv, Closed, Deaf
  <2> QED  BY <2>1, <2>2, <2>3, <1>1, <1>2, <1>3 DEF Closed
<1>9. CleanStop'
  <2>1. ASSUME status' = "stopped", Distinct PROVE FALSE
    BY <2>1, <1>1, <1>2, <1>7 DEF a, k
  <2> QED  BY <2>1, <1>3 DEF CleanStop, Distinct
<1>10. Served' /\ StartsAgain'
  BY <1>2 DEF Served, StartsAgain
<1> QED  BY <1>3, <1>4, <1>6, <1>8, <1>9, <1>10 DEF CycleInv

LEMMA CloseServerFailsKeeps ==
  ASSUME ConfigAssumption, CycleAssumption, CycleInv, CloseServerFails
  PROVE  CycleInv'
<1>1. /\ status' = "stopped" /\ trouble' = TRUE /\ Equipped
      /\ UNCHANGED <<loaderVars, files, lingering, next, server, shutdown, queue, arenas>>
  BY ClosingMeans DEF CloseServerFails, GiveUp
<1>2. LoaderInv' /\ servers' = servers /\ connections' = connections
  BY <1>1, SameConfiguration
<1>3. Kinds'
  <2>1. /\ sockets' \subseteq DOMAIN servers' /\ watched' \subseteq sockets'
        /\ serving' \in [Addresses -> sockets' \cup {0}]
    BY <1>2, DeafProperties DEF CloseServerFails, CycleInv, Kinds
  <2> QED  BY <1>1, <1>2, <2>1 DEF CycleInv, Kinds
<1>4. Resources'
  BY <1>1, <1>2 DEF Resources, Equipped, ListenersHaveAll
<1>5. Served' /\ Closed' /\ CleanStop' /\ StartsAgain'
  BY <1>1 DEF Served, Closed, CleanStop, StartsAgain
<1> QED  BY <1>2, <1>3, <1>4, <1>5 DEF CycleInv

LEMMA UnloadCrashesKeeps ==
  ASSUME CycleInv, UnloadCrashes
  PROVE  CycleInv'
<1>1. returned # {}
  BY DEF UnloadCrashes, Garbled, CycleInv, LoaderInv, ListOK
<1> QED  BY <1>1, GoneKeeps DEF UnloadCrashes, Crash, CycleInv, Kinds

LEMMA DrainPoolKeeps ==
  ASSUME ConfigAssumption, CycleAssumption, CycleInv, DrainPool
  PROVE  CycleInv'
<1>1. /\ status = "stopping" /\ next = 2 /\ server > Len(servers)
      /\ status' = "stopping" /\ next' = 1 /\ arenas' = 0
  BY Places DEF DrainPool, At, Retreat, CycleInv
<1>2. UNCHANGED <<loaderVars, sockets, watched, serving, files, lingering, server, shutdown,
                  queue, trouble>>
  BY DEF DrainPool, netVars
<1>3. /\ LoaderInv' /\ (Distinct' <=> Distinct) /\ \A i : Listens(i)' = Listens(i)
      /\ servers' = servers /\ connections' = connections
  BY <1>2, SameConfiguration
<1>4. sockets = {}
  BY <1>1, StoppingMeans DEF CycleInv, Closed, Kinds
<1>5. Kinds'
  <2>1. arenas' \in 0 .. connections' /\ next' \in 1 .. Len(Modules)
    BY <1>1, <1>3, ModulesAre DEF LoaderInv, ConfigOK
  <2> QED  BY <1>1, <1>2, <1>3, <2>1 DEF CycleInv, Kinds
<1>6. Resources'
  BY <1>1, <1>2, <1>4 DEF Resources, ListenersHaveAll
<1>7. Closed'
  BY <1>1, <1>2, <1>3, StoppingMeans DEF CycleInv, Closed
<1>8. Served' /\ CleanStop' /\ StartsAgain'
  BY <1>1 DEF Served, CleanStop, StartsAgain
<1> QED  BY <1>3, <1>5, <1>6, <1>7, <1>8 DEF CycleInv

LEMMA HaltEventKeeps ==
  ASSUME ConfigAssumption, CycleAssumption, CycleInv, HaltEvent
  PROVE  CycleInv'
<1>1. /\ status = "stopping" /\ next = 1 /\ status' = "stopped" /\ next' = 1
      /\ queue' = FALSE /\ trouble' \in BOOLEAN
  <2>1. status = "stopping" /\ next = 1
    BY Places DEF HaltEvent, At, CycleInv
  <2>2. trouble' \in BOOLEAN /\ queue' = FALSE
    BY DEF HaltEvent, CycleInv, Kinds
  <2>3. status' = "stopped" /\ next' = 1
    BY <2>1 DEF HaltEvent, Retreat, GiveUp
  <2> QED  BY <2>1, <2>2, <2>3
<1>2. UNCHANGED <<loaderVars, sockets, watched, serving, files, lingering, server, shutdown, arenas>>
  BY DEF HaltEvent, netVars
<1>3. /\ LoaderInv' /\ (Distinct' <=> Distinct) /\ \A i : Listens(i)' = Listens(i)
      /\ servers' = servers /\ connections' = connections
  BY <1>2, SameConfiguration
<1>4. /\ sockets = {} /\ watched = {} /\ arenas = 0
      /\ Distinct => \A i \in DOMAIN servers : Listens(i) \notin files
  <2>1. sockets = {} /\ arenas = 0
    BY <1>1 DEF CycleInv, Resources
  <2>2. \A i \in DOMAIN servers : i < server
    BY <1>1, StoppingMeans DEF CycleInv, Closed
  <2> QED  BY <1>1, <2>1, <2>2 DEF CycleInv, Closed, Kinds
<1>5. Kinds'
  BY <1>1, <1>2, <1>3 DEF CycleInv, Kinds
<1>6. Resources'
  BY <1>1, <1>2, <1>4 DEF Resources, ListenersHaveAll
<1>7. CleanStop'
  BY <1>1, <1>2, <1>3, <1>4 DEF CleanStop, Distinct
<1>8. Served' /\ Closed' /\ StartsAgain'
  BY <1>1 DEF Served, Closed, StartsAgain
<1> QED  BY <1>3, <1>5, <1>6, <1>7, <1>8 DEF CycleInv

LEMMA HaltKeeps ==
  ASSUME ConfigAssumption, CycleAssumption, CycleInv, Halt
  PROVE  CycleInv'
BY HaltNothingKeeps, CloseServerKeeps, CloseServerFailsKeeps, UnloadCrashesKeeps,
   DrainPoolKeeps, HaltEventKeeps
   DEF Halt

-----------------------------------------------------------------------------

LEMMA CycleInitHolds ==
  ASSUME ConfigAssumption, CycleAssumption, CycleInit
  PROVE  CycleInv
<1>1. LoaderInv
  BY InitHolds DEF CycleInit
<1>2. Bare /\ status = "down" /\ next = 1 /\ server = 0 /\ servers = <<>> /\ connections = 0
  BY DEF CycleInit, LoaderInit, Bare, Nobody
<1>3. Kinds
  <2>1. arenas \in 0 .. connections /\ next \in 1 .. Len(Modules) /\ server \in 0 .. Len(servers) + 1
    BY <1>2, ModulesAre, EmptySeq DEF Bare
  <2>2. sockets \subseteq DOMAIN servers /\ watched \subseteq sockets
        /\ serving \in [Addresses -> sockets \cup {0}]
    BY <1>2 DEF Bare, Nobody
  <2> QED  BY <1>2, <2>1, <2>2 DEF CycleInit, Kinds
<1>4. Resources /\ Served /\ Closed /\ CleanStop /\ StartsAgain
  BY <1>2 DEF Resources, Served, Closed, CleanStop, StartsAgain, ListenersHaveAll, Bare
<1> QED  BY <1>1, <1>3, <1>4 DEF CycleInv

LEMMA CycleStays ==
  ASSUME CycleInv, UNCHANGED cycleVars
  PROVE  CycleInv'
<1>1. UNCHANGED <<loaderVars, sockets, watched, serving, files, lingering, queue, arenas,
                  status, next, server, shutdown, trouble>>
  BY DEF cycleVars, netVars, processVars
<1>2. LoaderInv' /\ Kinds' /\ (Loops # <<>> => StartsAgain')
  BY <1>1, MoveKeeps DEF CycleInv, Kinds
<1>3. servers' = servers /\ connections' = connections /\ (Distinct' <=> Distinct)
      /\ \A i : Listens(i)' = Listens(i)
  BY <1>1, SameConfiguration
<1>4. Resources'
  BY <1>1, <1>3 DEF CycleInv, Resources, Bare, Equipped, ListenersHaveAll
<1>5. Served' /\ Closed' /\ CleanStop'
  BY <1>1, <1>3 DEF CycleInv, Served, Closed, CleanStop, Listens
<1> QED  BY <1>2, <1>4, <1>5 DEF CycleInv

\* The invariant of the process and its restarts, from which the theorems
\* below follow.
THEOREM CycleInvariance == CycleSpec => []CycleInv
<1>1. CycleInit => CycleInv
  BY ConfigAssumption, CycleAssumption, CycleInitHolds
<1>2. CycleInv /\ [CycleNext]_cycleVars => CycleInv'
  <2> SUFFICES ASSUME CycleInv, [CycleNext]_cycleVars PROVE CycleInv'
    OBVIOUS
  <2> USE ConfigAssumption, CycleAssumption
  <2>1. CASE Create
    BY <2>1, CreateKeeps
  <2>2. CASE Configure
    BY <2>2, LoadKeeps, LoadedKeeps, NotLoadedKeeps DEF Configure
  <2>3. CASE Initialise
    BY <2>3, InitialiseKeeps
  <2>4. CASE FirstTest \/ LeaveLoop \/ WaitFails
    BY <2>4, FirstTestKeeps, LeaveLoopKeeps
  <2>5. CASE Halt
    BY <2>5, HaltKeeps
  <2>6. CASE Exit
    BY <2>6, ExitKeeps
  <2>7. CASE Launch
    BY <2>7, LaunchKeeps
  <2>8. CASE Kill
    BY <2>8, KillKeeps
  <2>9. CASE Signal \/ Linger \/ Expire
    BY <2>9, OutsideKeeps
  <2>10. CASE UNCHANGED cycleVars
    BY <2>10, CycleStays
  <2> QED  BY <2>1, <2>2, <2>3, <2>4, <2>5, <2>6, <2>7, <2>8, <2>9, <2>10 DEF CycleNext, Process
<1> QED  BY <1>1, <1>2, PTL DEF CycleSpec

\* Every variable keeps its type, whatever the configuration.
THEOREM CycleTypeCorrect == CycleSpec => []CycleTypeOK
<1>1. CycleInv => CycleTypeOK
  BY ConfigAssumption, CycleAssumption, LoaderInvSuffices, ModulesAre DEF CycleInv, Kinds, CycleTypeOK
<1> QED  BY <1>1, CycleInvariance, PTL

\* The order of the modules is right: init and shutdown never leave a listener
\* without the event queue and the connections that its handler needs.
THEOREM ListenersAlwaysHaveAll == CycleSpec => []ListenersHaveAll
<1>1. CycleInv => ListenersHaveAll
  BY DEF CycleInv, Resources
<1> QED  BY <1>1, CycleInvariance, PTL

\* Where main has come to the loop, each server of the configuration is open, in the
\* event queue, and its address leads to it or to a later one with the same.
THEOREM RunningServesAll == CycleSpec => []AllServed
<1>1. CycleInv => AllServed
  <2> SUFFICES ASSUME CycleInv, status \in {"ready", "running"}, NEW i \in DOMAIN servers
               PROVE  /\ i \in sockets /\ i \in watched
                      /\ serving[Listens(i)] >= i
                      /\ Listens(serving[Listens(i)]) = Listens(i)
    BY DEF AllServed
  <2>1. i \in Nat /\ i >= 1 /\ i < server
    BY LenProperties DEF CycleInv, Resources, LoaderInv, ConfigOK, Kinds
  <2>2. /\ i \in sockets /\ i \in watched /\ Listens(i) \in Addresses
        /\ serving[Listens(i)] >= i
    BY <2>1 DEF CycleInv, Served
  <2>3. serving[Listens(i)] # 0
    BY <2>1, <2>2
  <2> QED  BY <2>2, <2>3 DEF CycleInv, Served
<1> QED  BY <1>1, CycleInvariance, PTL

\* A build with an event loop and a complete configuration starts whatever an
\* earlier process, killed anywhere, has left, unless a call fails.
THEOREM AlwaysStartsAgain == CycleSpec => [](Loops # <<>> => StartsAgain)
<1>1. CycleInv => (Loops # <<>> => StartsAgain)
  BY DEF CycleInv
<1> QED  BY <1>1, CycleInvariance, PTL

\* An orderly shutdown without a failing call leaves nothing behind.
THEOREM StopsCleanly == CycleSpec => []CleanStop
<1>1. CycleInv => CleanStop
  BY DEF CycleInv
<1> QED  BY <1>1, CycleInvariance, PTL

-----------------------------------------------------------------------------
(* The process, with its restarts, keeps the contract with its operator: each *)
(* of its steps is a step of ServiceContract or none.                         *)

Same == State' = State /\ Wanted' = Wanted /\ Reached' = Reached

LEMMA SameWanted == ASSUME servers' = servers PROVE Wanted' = Wanted
BY DEF Wanted, Listens

LEMMA SameReached == ASSUME serving' = serving PROVE Reached' = Reached
BY DEF Reached

\* Nothing an operator sees, except perhaps that something failed, or a signal.
LEMMA Unseen ==
  ASSUME Same, Excused => Excused'
  PROVE  [Contract!Next]_(Contract!vars)
<1>1. CASE Excused'
  BY <1>1 DEF Same, Contract!Next, Contract!Excuse
<1>2. CASE ~Excused'
  <2>1. Excused' = Excused
    BY <1>2 DEF Excused
  <2> QED  BY <2>1 DEF Same, Contract!vars
<1> QED  BY <1>1, <1>2

\* The process ends.
LEMMA EndMaps ==
  ASSUME Gone, Alive, status' \in {"down", "crashed"},
         status \in {"ready", "running"} => trouble'
  PROVE  Contract!Next
<1>1. Wanted' = Wanted
  BY SameWanted DEF Gone, loaderVars
<1>2. Reached' = {}
  BY DEF Gone, Reached
<1>3. State' = "down" /\ State # "down" /\ (State = "up" => Excused')
  BY DEF State, Alive, Excused
<1> QED  BY <1>1, <1>2, <1>3 DEF Contract!Next, Contract!End

LEMMA InitMaps ==
  ASSUME ConfigAssumption, CycleAssumption, CycleInit
  PROVE  Contract!Init
<1>1. State = "down" /\ servers = <<>> /\ Excused \in BOOLEAN
  BY DEF CycleInit, LoaderInit, State, Excused
<1>2. Wanted = {}
  BY <1>1, EmptySeq DEF Wanted
<1>3. Reached = {}
  BY DEF CycleInit, Reached
<1> QED  BY <1>1, <1>2, <1>3 DEF Contract!Init

LEMMA LaunchMaps == ASSUME CycleInv, Launch PROVE Contract!Next
<1>1. /\ status \in {"down", "crashed"} /\ status' \in {"creating", "failed"}
      /\ servers' = <<>> /\ serving' = serving
  BY DEF Launch, netVars
<1>2. State = "down" /\ State' = "starting"
  BY <1>1 DEF State
<1>3. Wanted' = {} /\ Reached' = Reached
  BY <1>1, SameReached, EmptySeq DEF Wanted
<1> QED  BY <1>2, <1>3 DEF Contract!Next, Contract!Start

LEMMA OutsideMaps ==
  ASSUME CycleInv, Signal \/ Linger \/ Expire
  PROVE  [Contract!Next]_(Contract!vars)
<1>1. UNCHANGED <<servers, serving, status, trouble>>
  BY DEF Signal, Linger, Expire, processVars, loaderVars, netVars
<1>2. Same
  BY <1>1, SameWanted, SameReached DEF Same, State
<1>3. Excused => Excused'
  BY <1>1 DEF Signal, Linger, Expire, processVars, Excused
<1> QED  BY <1>2, <1>3, Unseen

LEMMA GoneMaps ==
  ASSUME CycleInv, Kill \/ Exit \/ CreateCrashes
  PROVE  Contract!Next
BY EndMaps DEF Kill, Exit, CreateCrashes, Alive

\* A directive, or a server without one.
LEMMA LoadMaps ==
  ASSUME ConfigAssumption, CycleAssumption, CycleInv, CycleInv', Load
  PROVE  Contract!Next
<1>1. status = "loading" /\ UNCHANGED <<status, serving, shutdown, trouble>>
  BY DEF Load, netVars, processVars
<1>2. State = "starting" /\ State' = State /\ Excused' = Excused
  BY <1>1 DEF State, Excused
<1>3. Reached = {} /\ Reached' = Reached
  BY <1>1, SameReached DEF CycleInv, Resources, Bare, Nobody, Reached
<1>4. Wanted' \in SUBSET Addresses
  <2>1. servers' \in Seq(ServerRecords)
    BY DEF CycleInv, LoaderInv, ConfigOK
  <2>2. \A i \in DOMAIN servers' : servers'[i].listen \in Addresses \cup {NULL}
    <3>1. \A i \in DOMAIN servers' : servers'[i] \in ServerRecords
      BY <2>1, ElementOfSeq, LenProperties
    <3> QED  BY <3>1 DEF ServerRecords
  <2> QED  BY <2>2 DEF Wanted, Listens
<1> QED  BY <1>2, <1>3, <1>4 DEF Contract!Next, Contract!Configure

\* The rest of create and configure.
LEMMA StartMaps ==
  ASSUME CycleInv, CreateModule \/ CreateFails \/ Loaded \/ NotLoaded
  PROVE  [Contract!Next]_(Contract!vars)
<1>1. CASE NotLoaded /\ Crash
  BY <1>1, EndMaps DEF NotLoaded, Crash, Alive
<1>2. CASE CreateModule \/ CreateFails \/ Loaded \/ (NotLoaded /\ Fail)
  <2>1. /\ status \in {"creating", "loading"} /\ status' \in {"creating", "loading", "initialising", "failed"}
        /\ UNCHANGED <<servers, serving, shutdown>>
    BY <1>2 DEF CreateModule, Advance, CreateFails, Fail, Loaded, NotLoaded, Crash, Gone, loaderVars, netVars
  <2>2. Same
    BY <2>1, SameWanted, SameReached DEF Same, State
  <2>3. Excused => Excused'
    BY <1>2, <2>1 DEF CreateModule, CreateFails, Loaded, NotLoaded, Crash, Excused
  <2> QED  BY <2>2, <2>3, Unseen
<1> QED  BY <1>1, <1>2 DEF NotLoaded

-----------------------------------------------------------------------------
(* Servers open *)

\* At most one address is no longer reached.
Loses == Reached' = Reached \/ \E a \in Reached : Reached' = Reached \ {a}

LEMMA LosesOne ==
  ASSUME NEW a, Reached' = Reached \ {a} PROVE Loses
<1>1. CASE a \in Reached
  BY <1>1 DEF Loses
<1>2. CASE a \notin Reached
  <2>1. Reached' = Reached
    BY <1>2
  <2> QED  BY <2>1 DEF Loses
<1> QED  BY <1>1, <1>2

LEMMA LeaveMaps ==
  ASSUME State \in {"starting", "stopping"}, State' = State, Wanted' = Wanted,
         Loses, Excused => Excused'
  PROVE  [Contract!Next]_(Contract!vars)
<1>1. CASE Reached' = Reached
  BY <1>1, Unseen DEF Same
<1>2. CASE \E a \in Reached : Reached' = Reached \ {a}
  BY <1>2 DEF Contract!Next, Contract!Leave
<1> QED  BY <1>1, <1>2 DEF Loses

\* One more address of the configuration is reached.
LEMMA ListenMaps ==
  ASSUME State = "starting", State' = State, Wanted' = Wanted,
         NEW a \in Wanted, Reached' = Reached \cup {a}, Excused => Excused'
  PROVE  Contract!Next
BY DEF Contract!Next, Contract!Listen

LEMMA OpenServerMaps ==
  ASSUME ConfigAssumption, CycleAssumption, CycleInv, OpenServer
  PROVE  Contract!Next
<1> DEFINE a == Conf.listen
<1>1. /\ DOMAIN servers' = DOMAIN servers
      /\ \A i \in DOMAIN servers : Listens(i)' = Listens(i)
  BY SizeKeeps
<1>2. /\ status = "initialising" /\ server \in DOMAIN servers /\ server # 0
      /\ a = Listens(server) /\ a \in Addresses \cup {NULL}
  BY OpeningMeans DEF OpenServer, ServerRecords
<1>3. a # NULL /\ serving' = [serving EXCEPT ![a] = server]
      /\ UNCHANGED <<status, shutdown, trouble>>
  BY DEF OpenServer
<1> HIDE DEF a
<1>4. Wanted' = Wanted
  BY <1>1 DEF Wanted
<1>5. a \in Wanted /\ a \in Addresses
  BY <1>2, <1>3 DEF Wanted
<1>6. Reached' = Reached \cup {a}
  BY <1>2, <1>3, <1>5 DEF Reached, CycleInv, Kinds
<1>7. State = "starting" /\ State' = State /\ Excused' = Excused
  BY <1>2, <1>3 DEF State, Excused
<1> QED  BY <1>4, <1>5, <1>6, <1>7, ListenMaps

\* The path has gone with the socket that had it.
LEMMA NobodyAtLoses ==
  ASSUME CycleInv, NEW a, serving' = NobodyAt(a)
  PROVE  Loses
<1>1. Reached' = Reached \ {a}
  BY DEF Reached, NobodyAt, CycleInv, Kinds
<1> QED  BY <1>1, LosesOne

LEMMA SocketMaps ==
  ASSUME ConfigAssumption, CycleAssumption, CycleInv, SocketFails \/ ListenFails
  PROVE  [Contract!Next]_(Contract!vars)
<1> DEFINE a == Conf.listen
<1>1. /\ status = "initialising" /\ server \in DOMAIN servers /\ server # 0
      /\ a = Listens(server) /\ a \in Addresses \cup {NULL}
  BY OpeningMeans DEF SocketFails, ListenFails, ServerRecords
<1>2. status' = "failed" /\ a # NULL /\ UNCHANGED <<servers, shutdown>> /\ (trouble => trouble')
  BY DEF SocketFails, ListenFails, Fail, loaderVars
<1>3. State = "starting" /\ State' = State /\ (Excused => Excused')
  BY <1>1, <1>2 DEF State, Excused
<1>4. Wanted' = Wanted
  BY <1>2, SameWanted
<1>5. CASE serving' = serving \/ serving' = NobodyAt(Conf.listen)
  <2>1. Loses
    <3>1. CASE serving' = serving
      BY <3>1, SameReached DEF Loses
    <3>2. CASE serving' = NobodyAt(Conf.listen)
      BY <3>2, NobodyAtLoses
    <3> QED  BY <1>5, <3>1, <3>2
  <2> QED  BY <1>3, <1>4, <2>1, LeaveMaps
<1>6. CASE serving' = [serving EXCEPT ![a] = server]
  <2> HIDE DEF a
  <2>1. a \in Wanted /\ a \in Addresses
    BY <1>1, <1>2 DEF Wanted
  <2>2. Reached' = Reached \cup {a}
    BY <1>1, <1>6, <2>1 DEF Reached, CycleInv, Kinds
  <2> QED  BY <1>3, <1>4, <2>1, <2>2, ListenMaps
<1> QED  BY <1>5, <1>6 DEF SocketFails, ListenFails

\* The last module is initialised: all that is wanted is reached.
LEMMA ComeUpMaps ==
  ASSUME ConfigAssumption, CycleAssumption, CycleInv, InitNothing, status' = "ready"
  PROVE  Contract!Next
<1>1. /\ status = "initialising" /\ next > 2 /\ UNCHANGED <<servers, serving, shutdown, trouble>>
  BY Places DEF InitNothing, CycleInv, loaderVars, netVars
<1>2. \A i \in DOMAIN servers : i \in Nat /\ i # 0 /\ i < server
  <2>1. server > Len(servers)
    BY <1>1 DEF CycleInv, Resources
  <2>2. Len(servers) \in Nat /\ DOMAIN servers = 1 .. Len(servers)
    BY LenProperties DEF CycleInv, LoaderInv, ConfigOK
  <2>3. server \in Nat
    BY <2>2 DEF CycleInv, Kinds
  <2> QED  BY <2>1, <2>2, <2>3
<1>3. ASSUME NEW i \in DOMAIN servers PROVE Listens(i) \in Reached
  <2>1. Listens(i) \in Addresses /\ serving[Listens(i)] >= i
    BY <1>1, <1>2 DEF CycleInv, Served
  <2>2. serving[Listens(i)] # 0
    BY <1>2, <2>1
  <2> QED  BY <2>1, <2>2 DEF Reached
<1>4. ASSUME NEW a \in Reached PROVE a \in Wanted
  <2>1. a \in Addresses /\ serving[a] # 0
    BY DEF Reached
  <2>2. Listens(serving[a]) = a /\ serving[a] \in DOMAIN servers
    BY <1>1, <2>1 DEF CycleInv, Served, Kinds
  <2>3. a # NULL
    BY <2>1 DEF ConfigAssumption
  <2> QED  BY <2>2, <2>3 DEF Wanted
<1>5. Reached = Wanted
  BY <1>3, <1>4 DEF Wanted
<1>6. State = "starting" /\ State' = "up" /\ Excused' = Excused
  BY <1>1 DEF State, Excused
<1> QED  BY <1>1, <1>5, <1>6, SameWanted, SameReached DEF Contract!Next, Contract!ComeUp

LEMMA InitialiseMaps ==
  ASSUME ConfigAssumption, CycleAssumption, CycleInv, Initialise
  PROVE  [Contract!Next]_(Contract!vars)
<1>1. CASE OpenServer
  BY <1>1, OpenServerMaps
<1>2. CASE SocketFails \/ ListenFails
  BY <1>2, SocketMaps
<1>3. CASE OpenCrashes
  <2>1. Crash /\ status = "initialising"
    BY <1>3, OpeningMeans DEF OpenCrashes
  <2> QED  BY <2>1, EndMaps DEF Crash, Alive
<1>4. CASE InitNothing /\ status' = "ready"
  BY <1>4, ComeUpMaps
<1>5. CASE \/ InitNothing /\ status' # "ready"
           \/ InitEvent \/ InitEventFails \/ InitPool \/ RefuseServer \/ CreateAcceptorFails \/ ServersOpen
  <2>1. status = "initialising"
    BY <1>5 DEF InitNothing, InitEvent, InitEventFails, InitPool, RefuseServer, CreateAcceptorFails,
                ServersOpen, Opening, At
  <2>2. UNCHANGED <<servers, serving, shutdown>>
    BY <1>5 DEF InitNothing, InitEvent, InitEventFails, InitPool, RefuseServer, CreateAcceptorFails,
                ServersOpen, loaderVars, netVars
  <2>3. status' \in {"initialising", "failed"}
    <3>1. CASE InitEvent \/ ServersOpen
      <4>1. next < Len(Modules)
        BY <3>1, Places DEF InitEvent, ServersOpen, At, CycleInv
      <4> QED  BY <3>1, <4>1, <2>1 DEF InitEvent, ServersOpen, Advance
    <3>2. CASE InitNothing /\ status' # "ready"
      BY <3>2, <2>1 DEF InitNothing, Advance
    <3>3. CASE InitEventFails \/ InitPool \/ RefuseServer \/ CreateAcceptorFails
      BY <3>3, <2>1 DEF InitEventFails, InitPool, RefuseServer, CreateAcceptorFails, Fail
    <3> QED  BY <1>5, <3>1, <3>2, <3>3
  <2>4. trouble => trouble'
    BY <1>5 DEF InitNothing, InitEvent, InitEventFails, InitPool, RefuseServer, CreateAcceptorFails,
                ServersOpen
  <2>5. Same /\ (Excused => Excused')
    BY <2>1, <2>2, <2>3, <2>4, SameWanted, SameReached DEF Same, State, Excused
  <2> QED  BY <2>5, Unseen
<1> QED  BY <1>1, <1>2, <1>3, <1>4, <1>5 DEF Initialise, InitServers

-----------------------------------------------------------------------------
(* The loop ends, and servers close *)

LEMMA LeaveLoopMaps ==
  ASSUME CycleInv, LeaveLoop \/ WaitFails
  PROVE  Contract!Next
<1>1. /\ status = "running" /\ status' = "stopping" /\ UNCHANGED <<servers, serving>>
      /\ Excused'
  BY DEF LeaveLoop, WaitFails, ToShutdown, loaderVars, netVars, Excused
<1>2. State = "up" /\ State' = "stopping"
  BY <1>1 DEF State
<1> QED  BY <1>1, <1>2, SameWanted, SameReached DEF Contract!Next, Contract!Stop

\* The first test: nothing that is seen, or the way out.
LEMMA FirstTestMaps ==
  ASSUME CycleInv, FirstTest
  PROVE  [Contract!Next]_(Contract!vars)
<1>1. /\ status = "ready" /\ UNCHANGED <<servers, serving, shutdown, trouble>>
      /\ \/ status' = "running"
         \/ status' = "stopping" /\ shutdown
  BY DEF FirstTest, ToShutdown, loaderVars, netVars
<1>2. State = "up" /\ Wanted' = Wanted /\ Reached' = Reached /\ Excused' = Excused
  BY <1>1, SameWanted, SameReached DEF State, Excused
<1>3. CASE status' = "running"
  <2>1. Same
    BY <1>2, <1>3 DEF Same, State
  <2> QED  BY <2>1, <1>2, Unseen
<1>4. CASE status' = "stopping" /\ shutdown
  <2>1. State' = "stopping" /\ Excused'
    BY <1>1, <1>4 DEF State, Excused
  <2> QED  BY <2>1, <1>2 DEF Contract!Next, Contract!Stop
<1> QED  BY <1>1, <1>3, <1>4

LEMMA CloseMaps ==
  ASSUME ConfigAssumption, CycleAssumption, CycleInv, CloseServer \/ CloseServerFails
  PROVE  [Contract!Next]_(Contract!vars)
<1> DEFINE a == Listens(server)
<1>1. /\ status = "stopping" /\ status' \in {"stopping", "stopped"}
      /\ UNCHANGED <<servers, shutdown>> /\ (trouble => trouble')
      /\ serving' \in {serving, Deaf(server)} /\ server # 0
  BY ClosingMeans DEF CloseServer, CloseServerFails, GiveUp, loaderVars
<1>2. State = "stopping" /\ State' = State /\ (Excused => Excused')
  BY <1>1 DEF State, Excused
<1>3. Loses
  <2>1. CASE serving' = serving
    BY <2>1, SameReached DEF Loses
  <2>2. CASE serving' = Deaf(server)
    <3>1. \A x \in Addresses : serving'[x] = IF serving[x] = server THEN 0 ELSE serving[x]
      BY <2>2 DEF Deaf
    <3>2. \A x \in Addresses : serving[x] = server => x = a
      BY <1>1 DEF CycleInv, Closed
    <3>3. CASE \E x \in Addresses : serving[x] = server
      <4>1. Reached' = Reached \ {a}
        BY <1>1, <3>1, <3>2, <3>3 DEF Reached
      <4> HIDE DEF a
      <4> QED  BY <4>1, LosesOne
    <3>4. CASE ~\E x \in Addresses : serving[x] = server
      BY <3>1, <3>4 DEF Reached, Loses
    <3> QED  BY <3>3, <3>4
  <2> QED  BY <1>1, <2>1, <2>2
<1> QED  BY <1>1, <1>2, <1>3, SameWanted, LeaveMaps

LEMMA HaltMaps ==
  ASSUME ConfigAssumption, CycleAssumption, CycleInv, Halt
  PROVE  [Contract!Next]_(Contract!vars)
<1>1. CASE CloseServer \/ CloseServerFails
  BY <1>1, CloseMaps
<1>2. CASE UnloadCrashes
  <2>1. Crash /\ status = "stopping"
    BY <1>2, ClosingMeans DEF UnloadCrashes
  <2> QED  BY <2>1, EndMaps DEF Crash, Alive
<1>3. CASE HaltNothing \/ DrainPool \/ HaltEvent
  <2>1. /\ status = "stopping" /\ status' \in {"stopping", "stopped"}
        /\ UNCHANGED <<servers, serving, shutdown>> /\ (trouble => trouble')
    BY <1>3 DEF HaltNothing, DrainPool, HaltEvent, At, Retreat, GiveUp, loaderVars, netVars
  <2>2. Same /\ (Excused => Excused')
    BY <2>1, SameWanted, SameReached DEF Same, State, Excused
  <2> QED  BY <2>2, Unseen
<1> QED  BY <1>1, <1>2, <1>3 DEF Halt

-----------------------------------------------------------------------------

\* For every configuration, every number of servers and any succession of
\* failures, kills and restarts: what main does is what an operator may rely on.
THEOREM KeepsContract == CycleSpec => ImplementsContract
<1>1. CycleInit => Contract!Init
  BY ConfigAssumption, CycleAssumption, InitMaps
<1>2. CycleInv /\ CycleInv' /\ [CycleNext]_cycleVars => [Contract!Next]_(Contract!vars)
  <2> SUFFICES ASSUME CycleInv, CycleInv', [CycleNext]_cycleVars
               PROVE  [Contract!Next]_(Contract!vars)
    OBVIOUS
  <2> USE ConfigAssumption, CycleAssumption
  <2>1. CASE Create
    BY <2>1, StartMaps, GoneMaps DEF Create
  <2>2. CASE Configure
    BY <2>2, LoadMaps, StartMaps DEF Configure
  <2>3. CASE Initialise
    BY <2>3, InitialiseMaps
  <2>4. CASE FirstTest \/ LeaveLoop \/ WaitFails
    BY <2>4, FirstTestMaps, LeaveLoopMaps
  <2>5. CASE Halt
    BY <2>5, HaltMaps
  <2>6. CASE Kill \/ Exit
    BY <2>6, GoneMaps
  <2>7. CASE Launch
    BY <2>7, LaunchMaps
  <2>8. CASE Signal \/ Linger \/ Expire
    BY <2>8, OutsideMaps
  <2>9. CASE UNCHANGED cycleVars
    <3>1. UNCHANGED <<servers, serving, status, shutdown, trouble>>
      BY <2>9 DEF cycleVars, loaderVars, netVars, processVars
    <3>2. Same /\ Excused' = Excused
      BY <3>1, SameWanted, SameReached DEF Same, State, Excused
    <3> QED  BY <3>2 DEF Same, Contract!vars
  <2> QED  BY <2>1, <2>2, <2>3, <2>4, <2>5, <2>6, <2>7, <2>8, <2>9 DEF CycleNext, Process
<1> QED  BY <1>1, <1>2, CycleInvariance, PTL DEF CycleSpec, ImplementsContract, Contract!Spec
=============================================================================
